----------------------------- MODULE MCTaskDraft -----------------------------
(* Two tasks over three classes: one class for the second task, so that its    *)
(* whole line is bound automatically, and for the first a family of two        *)
(* variants beside families of one.  The deeper of the two has a built-in tool *)
(* that the other can be fitted with, and its catalog lists nothing else.      *)
EXTENDS TaskDraft, TLC

CONSTANTS obs, auv, work

MCClassOf == [light |-> obs, free |-> auv, heavy |-> work]
MCFamilyOf == [l1 |-> "light", l2 |-> "light", f1 |-> "free", h1 |-> "heavy"]
MCVariantOf == [L1 |-> "l1", L2 |-> "l1", M1 |-> "l2", F1 |-> "f1", H1 |-> "h1"]
MCCapabilities == [light |-> {"look"}, free |-> {"look"}, heavy |-> {"turn"}]
MCRequired == [inspect |-> {"look"}, valve |-> {"turn"}]
MCListed == [inspect |-> {obs, auv}, valve |-> {work}]
MCMaxDepth == [l1 |-> 1, l2 |-> 2, f1 |-> 2, h1 |-> 2]
MCOnboard == [l1 |-> {}, l2 |-> {"p"}, f1 |-> {}, h1 |-> {"p"}]
MCSupported == [l1 |-> {"p", "q"}, l2 |-> {}, f1 |-> {"p"}, h1 |-> {"q"}]
MCCommon == [inspect |-> {"p", "q"}, valve |-> {"q"}]

ASSUME FleetIsAsShipped == ListedAgrees /\ HasVariants

Edit(op, items) == [op |-> op, items |-> items]

One(k, vs) == {k :> v : v \in vs}
Two(a, x, b, y) == {a :> x @@ b :> y}
MCInputs ==
  One("task", Tasks)
  \cup One("class", {auv})
  \cup One("unit", {Unknown})
  \cup Two("depth", 2, "start", "soon") \cup One("depth", {3})
  \cup One("payload", {Edit("set", {"q"}), Edit("add", {"p"}), Edit("remove", {"q"}),
                        Edit("replace", {"p"}) @@ [targets |-> {"q"}]})
  \cup Two("task", "inspect", "unit", "F1") \cup Two("task", "valve", "payload", Edit("set", {"q"}))
  \cup Two("task", "valve", "class", obs)
  \cup Two("class", auv, "family", "light") \cup Two("family", "free", "type", "l1")
  \cup Two("unit", "M1", "payload", Edit("add", {"p"})) \cup One("type", {"l1"})
=============================================================================
