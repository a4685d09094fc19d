--------------------------- MODULE EquipmentCascade ---------------------------
(* What a turn does to the four robot selectors of a draft.  An explicit       *)
(* selection is applied level by level to a copy and dropped as a whole when   *)
(* one level fails; the automatic choice then recomputes what the user left    *)
(* open.  A draft is a function from slot names to slots.                      *)
EXTENDS RobotSelection

Selectors == {"class", "family", "type", "unit"}
Depth == [class |-> 1, family |-> 2, type |-> 3, unit |-> 4]

(* Where a value came from matters in two cases: the automatic choice, and     *)
(* its own verdict that nothing is left to choose.                             *)
Sources == {"user", "auto", "exhausted"}

Slot(st, val, src) == [st |-> st, val |-> val, src |-> src]
Missing == Slot("missing", None, "user")
Chosen(val) == Slot("valid", val, "auto")

Val(s, k) == IF s[k].st = "valid" THEN s[k].val ELSE None
Held(s, k) == s[k].st \in {"valid", "conflict"} /\ s[k].val # None
IsAuto(s, k) == s[k].st = "valid" /\ s[k].src = "auto"

Need(s) == [depth |-> Val(s, "depth"), payload |-> Val(s, "payload")]
Selected(s) == Lineage(Val(s, "class"), Val(s, "family"), Val(s, "type"), Val(s, "unit"))

(*************************** dropping dependents *****************************)
Dependents(k) ==
  CASE k = "class" -> {"family", "type", "unit"}
    [] k = "family" -> {"type", "unit"}
    [] k = "type" -> {"unit", "payload"}
    [] OTHER -> {}

(* A kept slot is neither reset nor followed.                                  *)
Reached(parents, kept) ==
  LET below(ks) == UNION {Dependents(k) : k \in ks} \ kept
      one == below(parents)
      two == one \cup below(one)
  IN  two \cup below(two)

(* s, a draft of seven slots, with those of f written over its own.            *)
Over(f, s) ==
  LET At(k) == IF k \in DOMAIN f THEN f[k] ELSE s[k]
  IN  [class |-> At("class"), family |-> At("family"), type |-> At("type"), unit |-> At("unit"),
       depth |-> At("depth"), start |-> At("start"), payload |-> At("payload")]

Clear(s, ks) == Over([k \in ks |-> Missing], s)
InvalidateDependents(s, parents, kept) == Clear(s, Reached(parents, kept))
Unseat(s, k) == Clear(s, {k} \cup Reached({k}, {}))

(*************************** the automatic choice ****************************)
DeepestExplicit(s) ==
  LET explicit == {k \in Selectors : Val(s, k) # None /\ s[k].src # "auto"}
  IN  IF explicit = {} THEN 0
      ELSE CHOOSE d \in {Depth[k] : k \in explicit} : \A k \in explicit : Depth[k] <= d

(* mutant: what an earlier turn bound stays bound *)
ResetVerdicts(s) == Clear(s, {k \in Selectors : s[k].st = "invalid" /\ s[k].src = "exhausted"})
ResetRecomputed(s) ==
  Clear(s, {k \in Selectors : \/ s[k].st = "invalid" /\ s[k].src = "exhausted"
                              \/ IsAuto(s, k) /\ Depth[k] > DeepestExplicit(s)})

Occupied(s, k) == s[k].st \in {"valid", "conflict", "candidate"} /\ s[k].val # None
FillFrom(s, k, val) == IF Occupied(s, k) \/ val = None THEN s ELSE [s EXCEPT ![k] = Chosen(val)]

(* A selector goes, with what hangs on it, when the task no longer admits it   *)
(* or a valid selector above it names another branch.  A missing ancestor is   *)
(* first filled in.                                                            *)
Above(s, k) == {a \in Selectors : Depth[a] < Depth[k] /\ Val(s, a) # None}
Node(k, v) == IF k = "class" THEN ClassId(v) ELSE v

LineOf(k, v) ==
  IF v = Unknown THEN NoLineage
  ELSE CASE k = "class" -> Lineage(ClassId(v), None, None, None)
         [] k = "family" -> Lineage(ClassOf[v], v, None, None)
         [] k = "type" -> Lineage(ClassOf[FamilyOf[v]], FamilyOf[v], v, None)
         [] OTHER -> LET t == VariantOf[v]
                     IN  Lineage(ClassOf[FamilyOf[t]], FamilyOf[t], t, v)

(* mutant: the selectors above are not asked *)
AgreesAlways(s, k, line) == k \in Selectors
Agrees(s, k, line) == \A a \in Above(s, k) : Node(a, s[a].val) = line[a]

Admitted(k, v, t) ==
  CASE k = "class" -> ClassId(v) \in ListRobotClasses(t)
    [] k = "family" -> v \in FamiliesOf(Domain(t, NoNeed))
    [] k = "type" -> v \in Domain(t, NoNeed)
    [] OTHER -> VariantOf[v] \in Domain(t, NoNeed)

(* mutant: a selector must also suit the present parameters *)
CheckedByNeed(s, k, t) ==
  IF Val(s, k) = None THEN s
  ELSE IF LineOf(k, s[k].val).type \in Domain(t, Need(s)) \cup {None} THEN s ELSE Unseat(s, k)
WithAncestors(s, k, line) ==
  FillFrom(FillFrom(s, "family", IF k = "type" THEN line.family ELSE None),
           "class", IF k \in {"family", "type"} THEN line.class ELSE None)
Retained(s, k, v, t) ==
  IF Admitted(k, v, t) /\ Agrees(s, k, LineOf(k, v)) THEN s ELSE Unseat(s, k)
Checked(s, k, t) ==
  IF Val(s, k) = None THEN s
  ELSE Retained(WithAncestors(s, k, LineOf(k, s[k].val)), k, s[k].val, t)

InvalidateStale(s, t) ==
  Checked(Checked(Checked(Checked(s, "class", t), "family", t), "type", t), "unit", t)

Unfilled(s, line) ==
  {k \in {"class", "family", "type"} :
     s[k].st = "missing" /\ s[k].val = None /\ line[k] # None}
FillAncestors(s, line) ==
  IF line = None THEN s ELSE Over([k \in Unfilled(s, line) |-> Chosen(line[k])], s)
MaterializeAncestors(s, t) == FillAncestors(s, Canonical(Selected(s), t))

(* One level: keep a valid selector, bind the only candidate, report that      *)
(* there is none, or wait for the user.                                        *)
Collapsed(s, k, candidates) ==
  IF s[k].st \in {"invalid", "conflict", "candidate"} \/ Val(s, k) # None THEN s
  ELSE IF candidates = {} THEN [s EXCEPT ![k] = Slot("invalid", None, "exhausted")]
  ELSE IF Cardinality(candidates) = 1
       THEN LET one == CHOOSE x \in candidates : TRUE
            IN  [s EXCEPT ![k] = Chosen(IF k = "class" THEN Label(one) ELSE one)]
  ELSE s

(* The next level is only looked at below a node of the domain.                *)
CollapseUnit(s, d, down) ==
  LET v == Val(s, "type")
  IN  IF v \notin d \/ FamilyOf[v] # Val(s, "family") THEN s
      ELSE Collapsed(s, "unit", FreeUnits(v, Val(s, "start") = "soon", down))

CollapseVariant(s, d, down) ==
  LET f == Val(s, "family")
  IN  IF f \notin FamiliesOf(d) \/ ClassOf[f] # ClassId(Val(s, "class")) THEN s
      ELSE CollapseUnit(Collapsed(s, "type", {v \in d : FamilyOf[v] = f}), d, down)

CollapseFamily(s, d, down) ==
  LET c == ClassId(Val(s, "class"))
  IN  IF c \notin ClassesOf(d) THEN s
      ELSE CollapseVariant(Collapsed(s, "family", {f \in FamiliesOf(d) : ClassOf[f] = c}),
                           d, down)

CollapseLevels(s, d, down) == CollapseFamily(Collapsed(s, "class", ClassesOf(d)), d, down)

(* The domain is that of the parameters on entry, a payload that is dropped    *)
(* on the way included.                                                        *)
AutoCollapse(s, t, down) ==
  IF t = None THEN s
  ELSE CollapseLevels(MaterializeAncestors(InvalidateStale(ResetRecomputed(s), t), t),
                      Domain(t, Need(s)), down)

(*************************** an explicit selection ***************************)
(* up is the partial function of the selectors the turn names.                 *)
Given(up, k) == IF k \in DOMAIN up THEN up[k] ELSE None

PutLine(s, ks, line, overwrite) ==
  Over([k \in {j \in ks : overwrite \/ Val(s, j) \in {None, line[j]}} |->
          Slot("valid", line[k], s[k].src)], s)

Contradicted(s, k, before) ==
  [s EXCEPT ![k] = Slot("conflict", before[k].val, before[k].src)]
Refused(s, k, before) ==
  IF Held(before, k) THEN Contradicted(s, k, before)
  ELSE [s EXCEPT ![k] = Slot("invalid", None, before[k].src)]

(* The state of a cascade: the copy, the parents that changed, the level that  *)
(* failed (None while all is well), and how it stands: it goes on, it skips    *)
(* the rest, a level was refused, or a level contradicts what is kept.         *)
Cascade(s, changed, failed, how) ==
  [s |-> s, changed |-> changed, failed |-> failed, how |-> how]
Underway(s, changed) == Cascade(s, changed, None, "going")
Finish(s, changed) == Cascade(s, changed, None, "done")
Stop(r, k, how) == Cascade(r.s, r.changed, k, how)
Running(r) == r.how = "going"

Emptied(s, k, st) == [s EXCEPT ![k] = Slot(st, None, s[k].src)]

Resolves(k, v, t) ==
  /\ v \notin {None, Unknown}
  /\ CASE k = "class" -> v \in ListRobotClasses(t)
       [] k = "family" -> Admits(t, v)
       [] OTHER -> Admits(t, LineOf(k, v).family)

(* Outside a settled task a selector may not move a value already held.        *)
Fenced(s, up, t) ==
  LET Against(k) ==
        /\ Given(up, k) \notin {None, Unknown}
        /\ k # "class" => Resolves(k, up[k], t)
        /\ k = "type" => Given(up, "unit") = None
        /\ Held(s, k)
        /\ k = "family" => Admits(t, s[k].val)
        /\ Node(k, s[k].val) # up[k]
      hit == {k \in Selectors : Against(k)}
  IN  IF hit = {} THEN None
      ELSE CHOOSE k \in hit : \A j \in hit : Depth[k] <= Depth[j]

ClassCascade(r, up, t, overwrite) ==
  LET c == Given(up, "class")
  IN  IF c = None \/ ~Running(r) THEN r
      ELSE IF ~Resolves("class", c, t) THEN Stop(r, "class", "refused")
      ELSE Underway(PutLine(r.s, {"class"}, LineOf("class", c), overwrite),
                    IF overwrite /\ Val(r.s, "class") \notin {None, c} THEN {"class"} ELSE {})

FamilyCascade(r, up, t, overwrite) ==
  LET f == Given(up, "family")
      active == ClassId(Val(r.s, "class"))
      moved == active # None /\ active # ClassOf[f]
      current == IF Val(r.s, "family") # None /\ Admits(t, Val(r.s, "family"))
                 THEN Val(r.s, "family") ELSE None
  IN  IF f = None \/ ~Running(r) THEN r
      ELSE IF ~Resolves("family", f, t) THEN Stop(r, "family", "refused")
      ELSE IF moved /\ Given(up, "class") # None
      THEN Underway(Emptied(r.s, "family", "invalid"), r.changed)
      ELSE IF moved /\ ~overwrite THEN Stop(r, "family", "against")
      ELSE Underway(PutLine(r.s, {"class", "family"}, LineOf("family", f), overwrite),
                    r.changed \cup (IF moved THEN {"class"} ELSE {})
                      \cup (IF overwrite /\ current \notin {None, f} THEN {"family"} ELSE {}))

VariantCascade(r, up, t, overwrite) ==
  LET v == Given(up, "type")
      line == LineOf("type", v)
      named == Given(up, "family")
      active == IF Val(r.s, "family") # None /\ Admits(t, Val(r.s, "family"))
                THEN Val(r.s, "family") ELSE None
  IN  IF v = None \/ ~Running(r) THEN r
      ELSE IF ~Resolves("type", v, t) THEN Stop(r, "type", "refused")
      ELSE IF named \notin {None, line.family}
      THEN Finish(Emptied(Emptied(r.s, "type", "invalid"), "unit", "missing"), r.changed)
      ELSE IF ~overwrite /\ active \notin {None, line.family} THEN Stop(r, "type", "against")
      ELSE Underway(PutLine(r.s, {"class", "family", "type"}, line, overwrite),
                    r.changed \cup (IF overwrite /\ Val(r.s, "type") \notin {None, v}
                                    THEN {"type"} ELSE {}))

UnitSelected(up, t) ==
  LET line == LineOf("unit", up["unit"])
  IN  /\ Resolves("unit", up["unit"], t)
      /\ \A k \in {"class", "family", "type"} : Given(up, k) \in {None, line[k]}

UnitCascade(r, up, before, t, overwrite) ==
  LET w == Given(up, "unit")
      line == LineOf("unit", w)
      static == ValidStatic(line.class, line.family, line.type, w, t)
  IN  IF w = None \/ ~Running(r) THEN r
      ELSE IF ~UnitSelected(up, t) THEN Underway(Refused(r.s, "unit", before), r.changed)
      ELSE IF ~static THEN Underway(Contradicted(r.s, "unit", before), r.changed)
      ELSE Underway(PutLine(r.s, Selectors, line, overwrite),
                    r.changed \cup (IF before["type"].val \notin {None, line.type}
                                    THEN {"type"} ELSE {}))

CascadeCommit(r, up) ==
  LET chosen == Given(up, "unit") # None /\ r.s["unit"].st = "valid"
      kept == DOMAIN up \cup (IF chosen THEN Selectors ELSE {})
  IN  IF r.how = "done" \/ r.changed = {} THEN r.s ELSE InvalidateDependents(r.s, r.changed, kept)

CascadeOutcome(r, up, before) ==
  CASE r.how = "against" -> Contradicted(before, r.failed, before)
    [] r.how = "refused" -> Refused(before, r.failed, before)
    [] OTHER -> CascadeCommit(r, up)

Cascaded(s, up, t, overwrite) ==
  LET c == ClassCascade(Underway(s, {}), up, t, overwrite)
      f == FamilyCascade(c, up, t, overwrite)
      v == VariantCascade(f, up, t, overwrite)
  IN  UnitCascade(v, up, s, t, overwrite)

HandleEquipmentUpdates(s, up, t, overwrite) ==
  LET fence == IF overwrite THEN None ELSE Fenced(s, up, t)
  IN  IF DOMAIN up \cap Selectors = {} THEN s
      ELSE IF fence # None THEN Contradicted(s, fence, s)
      ELSE CascadeOutcome(Cascaded(s, up, t, overwrite), up, s)
=============================================================================
