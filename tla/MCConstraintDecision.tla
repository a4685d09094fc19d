------------------------ MODULE MCConstraintDecision -------------------------
(* One oilfield and one robot; a turn tells where and when to work, or names   *)
(* the robot, or one that is refused.                                          *)
EXTENDS ConstraintDecision

Job(x, y, t) == [site |-> x, depth |-> y, start |-> t]
Nothing == [f \in {} |-> None]
MCEdits ==
  {Nothing, Job("in", "ok", "now"), Job("in", "deep", "now"),
   Job("off", "ok", "later")}
  \cup {[unit |-> x] : x \in Units \cup {None}}
=============================================================================
