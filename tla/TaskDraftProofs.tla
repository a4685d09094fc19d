---------------------------- MODULE TaskDraftProofs ----------------------------
(* What is proved of a draft, for every fleet, every set of updates and any    *)
(* telemetry.  The argument is about the automatic choice, which ends every    *)
(* turn and runs at least twice in it.  Whatever it is given, it leaves every  *)
(* explicit selector admitted and in agreement with the selectors above it     *)
(* (Sound), because it has just checked them; what it filled in above a        *)
(* selector that it then dropped may be wrong, but is never followed by an     *)
(* explicit choice, so that the second run recomputes it.  Given a sound draft *)
(* it drops nothing that was told, and all it leaves fits (AllFit).            *)
EXTENDS TaskDraft, FiniteSetTheorems, TLAPS

Labels == {Label(c) : c \in Classes}
ClassValues == Classes \cup Labels \cup {None}

(****************************** the fleet ************************************)
LEMMA ClassIds ==
  /\ ClassId(None) = None /\ None \in ClassValues
  /\ \A c \in Classes : /\ ClassId(c) = c /\ c # None /\ c # Unknown
                        /\ ClassId(Label(c)) = c /\ Label(c) # None /\ Label(c) # Unknown
  /\ \A v \in ClassValues : /\ v # Unknown
                            /\ v # None => ClassId(v) \in Classes /\ ClassId(v) # None
<1>1. /\ ClassId(None) = None /\ None \in ClassValues
      /\ \A c \in Classes : ClassId(c) = c /\ c # None /\ c # Unknown
  BY NamesAreApart DEF ClassId, ClassValues
<1>2. \A c \in Classes : Label(c) # None /\ Label(c) # Unknown /\ Label(c).label = c
                         /\ Label(c) \notin Classes \cup {None, Unknown}
  BY NamesAreApart DEF Label
<1>3. \A c \in Classes : ClassId(Label(c)) = c
  BY <1>2 DEF ClassId
<1>4. \A v \in ClassValues : v \in Classes \/ v = None \/ \E c \in Classes : v = Label(c)
  BY DEF ClassValues, Labels
<1>5. None # Unknown
  BY NamesAreApart
<1> QED BY <1>1, <1>2, <1>3, <1>4, <1>5

LEMMA NodesAreNamed ==
  /\ \A f \in Families : f # None /\ f # Unknown /\ ClassOf[f] \in Classes
  /\ \A v \in Variants : v # None /\ v # Unknown /\ FamilyOf[v] \in Families
  /\ \A w \in Units : w # None /\ w # Unknown /\ VariantOf[w] \in Variants
  /\ \A c \in Classes : c # None /\ c # Unknown
BY NamesAreApart, FleetIsATree

LEMMA AdmittedDomain ==
  ASSUME NEW t \in Tasks, NEW need
  PROVE  /\ Domain(t, need) \subseteq Domain(t, NoNeed)
         /\ Domain(t, NoNeed) \subseteq Variants
         /\ \A v \in Domain(t, NoNeed) : /\ FamilyOf[v] \in FamiliesOf(Domain(t, NoNeed))
                                         /\ Admits(t, FamilyOf[v])
         /\ \A f \in FamiliesOf(Domain(t, NoNeed)) :
              /\ f \in Families /\ Admits(t, f)
              /\ ClassOf[f] \in ListRobotClasses(t)
         /\ \A c \in ListRobotClasses(t) : c \in Classes
<1>1. Domain(t, need) \subseteq Domain(t, NoNeed)
  BY DEF Domain, Eligible, NoNeed
<1>2. \A v \in Domain(t, NoNeed) : v \in Variants /\ Admits(t, FamilyOf[v])
  BY DEF Domain
<1>3. \A v \in Domain(t, NoNeed) : FamilyOf[v] \in FamiliesOf(Domain(t, NoNeed))
  BY DEF FamiliesOf
<1>4. \A f \in FamiliesOf(Domain(t, NoNeed)) : f \in Families /\ Admits(t, f)
  BY <1>2, FleetIsATree DEF FamiliesOf
<1>5. \A f \in FamiliesOf(Domain(t, NoNeed)) : ClassOf[f] \in ListRobotClasses(t)
  BY DEF ListRobotClasses, ClassesOf
<1>6. \A c \in ListRobotClasses(t) : c \in Classes
  BY <1>4, FleetIsATree DEF ListRobotClasses, ClassesOf
<1> QED BY <1>1, <1>2, <1>3, <1>4, <1>5, <1>6

(* What it means that a selector fits: the task admits it, and every valid     *)
(* selector above it is its ancestor.                                          *)
Open(t) == Domain(t, NoNeed)
ClassFits(t, c) == c # None => ClassId(c) \in ListRobotClasses(t)
FamilyFits(t, c, f) ==
  f # None => f \in FamiliesOf(Open(t)) /\ (c # None => ClassId(c) = ClassOf[f])
TypeFits(t, c, f, v) ==
  v # None => /\ v \in Open(t)
              /\ f # None => f = FamilyOf[v]
              /\ c # None => ClassId(c) = ClassOf[FamilyOf[v]]
UnitFits(t, c, f, v, w) ==
  w # None => /\ VariantOf[w] \in Open(t)
              /\ v # None => v = VariantOf[w]
              /\ f # None => f = FamilyOf[VariantOf[w]]
              /\ c # None => ClassId(c) = ClassOf[FamilyOf[VariantOf[w]]]

(* A line of the fleet that the task admits.                                   *)
OnFleet(line, t) ==
  /\ line.class \in ListRobotClasses(t)
  /\ line.family # None => line.family \in FamiliesOf(Open(t)) /\ line.class = ClassOf[line.family]
  /\ line.type # None => /\ line.type \in Open(t) /\ line.family # None
                         /\ line.family = FamilyOf[line.type]
  /\ line.unit # None => /\ line.unit \in Units /\ line.type # None
                         /\ line.type = VariantOf[line.unit]

(* The line of a set of selectors agrees with each of them and goes no deeper. *)
Covers(line, c, f, v, w) ==
  /\ c # None => ClassId(c) = line.class
  /\ f # None => f = line.family
  /\ v # None => v = line.type
  /\ w = line.unit
  /\ line.type # None => v # None \/ w # None
  /\ line.family # None => f # None \/ v # None \/ w # None
  /\ c # None \/ f # None \/ v # None \/ w # None

(* A selection whose deepest selector fits has a line.                         *)
LEMMA FittingHasALine ==
  ASSUME ListedAgrees, NEW t \in Tasks, NEW c \in ClassValues, NEW f \in Families \cup {None},
         NEW v \in Variants \cup {None}, NEW w \in Units \cup {None}
  PROVE  /\ w # None /\ UnitFits(t, c, f, v, w) => Canonical(Lineage(c, f, v, w), t) # None
         /\ w = None /\ v # None /\ TypeFits(t, c, f, v)
              => Canonical(Lineage(c, f, v, w), t) # None
         /\ w = None /\ v = None /\ f # None /\ FamilyFits(t, c, f)
              => Canonical(Lineage(c, f, v, w), t) # None
         /\ w = None /\ v = None /\ f = None /\ c # None /\ ClassFits(t, c)
              => Canonical(Lineage(c, f, v, w), t) # None
<1> DEFINE Sel == Lineage(c, f, v, w)
<1>0. /\ Sel.class = c /\ Sel.family = f /\ Sel.type = v /\ Sel.unit = w
      /\ Unknown \notin {Sel.unit, Sel.type, Sel.family}
  BY NodesAreNamed, NamesAreApart DEF Lineage
<1>1. \A x \in Open(t) : /\ x \in Variants /\ FamilyOf[x] \in Families
                         /\ Admits(t, FamilyOf[x])
                         /\ ClassOf[FamilyOf[x]] \in Listed[t]
                         /\ ClassOf[FamilyOf[x]] \in Classes
                         /\ x \in ListRobotVariants(ClassOf[FamilyOf[x]], FamilyOf[x], t)
  BY AdmittedDomain, NodesAreNamed DEF ListedAgrees, Open, ListRobotVariants
<1>2. ClassId(c) = None <=> c = None
  BY ClassIds
<1>3. ASSUME w # None, UnitFits(t, c, f, v, w) PROVE Canonical(Sel, t) # None
  <2>1. /\ Or(v, VariantOf[w]) = VariantOf[w]
        /\ Or(f, FamilyOf[VariantOf[w]]) = FamilyOf[VariantOf[w]]
        /\ Or(ClassId(c), ClassOf[FamilyOf[VariantOf[w]]]) = ClassOf[FamilyOf[VariantOf[w]]]
    BY <1>2, <1>3 DEF UnitFits, Or
  <2>2. ValidStatic(ClassOf[FamilyOf[VariantOf[w]]], FamilyOf[VariantOf[w]], VariantOf[w], w, t)
    BY <1>1, <1>3 DEF UnitFits, ValidStatic
  <2>3. Lineage(ClassOf[FamilyOf[VariantOf[w]]], FamilyOf[VariantOf[w]], VariantOf[w], w) # None
    BY <1>1, <1>3, LinesAreNotNone DEF UnitFits
  <2> QED BY <1>0, <1>1, <1>3, <2>1, <2>2, <2>3 DEF UnitFits, Canonical, UnitLine
<1>4. ASSUME w = None, v # None, TypeFits(t, c, f, v) PROVE Canonical(Sel, t) # None
  <2>1. /\ Or(f, FamilyOf[v]) = FamilyOf[v]
        /\ Or(ClassId(c), ClassOf[FamilyOf[v]]) = ClassOf[FamilyOf[v]]
    BY <1>2, <1>4 DEF TypeFits, Or
  <2>2. Lineage(ClassOf[FamilyOf[v]], FamilyOf[v], v, None) # None
    BY <1>1, <1>4, LinesAreNotNone DEF TypeFits
  <2> QED BY <1>0, <1>1, <1>4, <2>1, <2>2 DEF TypeFits, Canonical, VariantLine
<1>5. ASSUME w = None, v = None, f # None, FamilyFits(t, c, f) PROVE Canonical(Sel, t) # None
  <2>1. ClassId(c) \in {None, ClassOf[f]} /\ f \in ListRobotFamilies(ClassOf[f], t)
    BY <1>2, <1>5 DEF FamilyFits, ListRobotFamilies, Open
  <2>2. Lineage(ClassOf[f], f, None, None) # None
    BY <1>5, NodesAreNamed, LinesAreNotNone
  <2> QED BY <1>0, <1>5, <2>1, <2>2 DEF Canonical, FamilyLine
<1>6. ASSUME w = None, v = None, f = None, c # None, ClassFits(t, c) PROVE Canonical(Sel, t) # None
  <2>1. Lineage(ClassId(c), None, None, None) # None
    BY <1>6, ClassIds, LinesAreNotNone
  <2> QED BY <1>0, <1>6, <2>1 DEF Canonical, ClassFits, ClassLine
<1> QED BY <1>3, <1>4, <1>5, <1>6

(* And a line that was found is admitted and covers the selection.             *)
LEMMA LineTells ==
  ASSUME NEW t \in Tasks, NEW c \in ClassValues, NEW f \in Families \cup {None},
         NEW v \in Variants \cup {None}, NEW w \in Units \cup {None},
         Canonical(Lineage(c, f, v, w), t) # None
  PROVE  /\ OnFleet(Canonical(Lineage(c, f, v, w), t), t)
         /\ Covers(Canonical(Lineage(c, f, v, w), t), c, f, v, w)
<1> DEFINE Sel == Lineage(c, f, v, w)
           L == Canonical(Sel, t)
<1>0. /\ Sel.class = c /\ Sel.family = f /\ Sel.type = v /\ Sel.unit = w
      /\ Unknown \notin {Sel.unit, Sel.type, Sel.family}
  BY NodesAreNamed, NamesAreApart DEF Lineage
<1>1. \A C, F, x : x \in ListRobotVariants(C, F, t)
        => /\ x \in Open(t) /\ F = FamilyOf[x] /\ C = ClassOf[F] /\ x \in Variants /\ F \in Families
           /\ F \in FamiliesOf(Open(t)) /\ C \in ListRobotClasses(t)
  BY AdmittedDomain DEF ListRobotVariants, Open
<1>2. ClassId(c) = None <=> c = None
  BY ClassIds
<1>3. CASE w # None
  <2> DEFINE x == VariantOf[w]
  <2>1. /\ L = Lineage(ClassOf[FamilyOf[x]], FamilyOf[x], x, w)
        /\ ValidStatic(Or(ClassId(c), ClassOf[FamilyOf[x]]), Or(f, FamilyOf[x]), Or(v, x), w, t)
    BY <1>0, <1>3 DEF Canonical, UnitLine
  <2>2. /\ Or(v, x) = x /\ Or(f, FamilyOf[x]) = FamilyOf[x]
        /\ Or(ClassId(c), ClassOf[FamilyOf[x]]) = ClassOf[FamilyOf[x]]
        /\ x \in Open(t) /\ FamilyOf[x] \in FamiliesOf(Open(t))
        /\ ClassOf[FamilyOf[x]] \in ListRobotClasses(t)
    BY <1>1, <2>1 DEF ValidStatic
  <2>3. /\ L.class = ClassOf[FamilyOf[x]] /\ L.family = FamilyOf[x] /\ L.type = x /\ L.unit = w
    BY <2>1 DEF Lineage
  <2>4. Covers(L, c, f, v, w)
    BY <1>2, <1>3, <2>2, <2>3 DEF Covers, Or
  <2>5. OnFleet(L, t)
    BY <1>3, <2>2, <2>3, AdmittedDomain, NodesAreNamed DEF OnFleet, Open
  <2> QED BY <2>4, <2>5
<1>4. CASE w = None /\ v # None
  <2>1. /\ L = Lineage(ClassOf[FamilyOf[v]], FamilyOf[v], v, None)
        /\ v \in ListRobotVariants(Or(ClassId(c), ClassOf[FamilyOf[v]]), Or(f, FamilyOf[v]), t)
    BY <1>0, <1>4 DEF Canonical, VariantLine
  <2>2. /\ Or(f, FamilyOf[v]) = FamilyOf[v]
        /\ Or(ClassId(c), ClassOf[FamilyOf[v]]) = ClassOf[FamilyOf[v]]
        /\ v \in Open(t) /\ FamilyOf[v] \in FamiliesOf(Open(t))
        /\ ClassOf[FamilyOf[v]] \in ListRobotClasses(t)
    BY <1>1, <2>1
  <2>3. /\ L.class = ClassOf[FamilyOf[v]] /\ L.family = FamilyOf[v] /\ L.type = v /\ L.unit = None
    BY <2>1 DEF Lineage
  <2>4. Covers(L, c, f, v, w)
    BY <1>2, <1>4, <2>2, <2>3 DEF Covers, Or
  <2>5. OnFleet(L, t)
    BY <1>4, <2>2, <2>3, AdmittedDomain, NodesAreNamed DEF OnFleet, Open
  <2> QED BY <2>4, <2>5
<1>5. CASE w = None /\ v = None /\ f # None
  <2>1. /\ L = Lineage(ClassOf[f], f, None, None)
        /\ ClassId(c) \in {None, ClassOf[f]} /\ f \in ListRobotFamilies(ClassOf[f], t)
    BY <1>0, <1>5 DEF Canonical, FamilyLine
  <2>2. f \in FamiliesOf(Open(t)) /\ ClassOf[f] \in ListRobotClasses(t)
    BY <2>1, AdmittedDomain DEF ListRobotFamilies, Open
  <2>3. L.class = ClassOf[f] /\ L.family = f /\ L.type = None /\ L.unit = None
    BY <2>1 DEF Lineage
  <2> QED BY <1>2, <1>5, <2>1, <2>2, <2>3 DEF Covers, OnFleet
<1>6. CASE w = None /\ v = None /\ f = None
  <2>1. /\ c # None /\ L = Lineage(ClassId(c), None, None, None)
        /\ ClassId(c) \in ListRobotClasses(t)
    BY <1>0, <1>6 DEF Canonical, ClassLine
  <2>2. L.class = ClassId(c) /\ L.family = None /\ L.type = None /\ L.unit = None
    BY <2>1 DEF Lineage
  <2> QED BY <1>6, <2>1, <2>2 DEF Covers, OnFleet
<1> QED BY <1>3, <1>4, <1>5, <1>6

(******************************** the slots **********************************)
States == {"missing", "valid", "invalid", "conflict", "candidate"}

(* What may be in a slot.  A selector is never a candidate, has a value when   *)
(* it is valid or in conflict and keeps none otherwise, and only a class or a  *)
(* unit can have no candidates left.                                           *)
SlotOK(k, x) ==
  /\ x = Slot(x.st, x.val, x.src) /\ x.st \in States /\ x.src \in Sources
  /\ x.st = "missing" => x.val = None
  /\ x.st = "candidate" => k \notin Selectors /\ x.val # None
  /\ k \in Selectors => (x.st \in {"valid", "conflict"} <=> x.val # None)
  /\ k = "class" => x.val \in ClassValues
  /\ k = "family" => x.val \in Families \cup {None} /\ x.src # "exhausted"
  /\ k = "type" => x.val \in Variants \cup {None} /\ x.src # "exhausted"
  /\ k = "unit" => x.val \in Units \cup {None}

Good(s) == DOMAIN s = Keys /\ \A k \in Keys : SlotOK(k, s[k])

LEMMA KeysAre ==
  /\ Keys = {"class", "family", "type", "unit", "depth", "start", "payload"}
  /\ Selectors = {"class", "family", "type", "unit"}
  /\ Selectors \subseteq Keys /\ Fields \subseteq Keys
  /\ Depth["class"] = 1 /\ Depth["family"] = 2 /\ Depth["type"] = 3 /\ Depth["unit"] = 4
BY DEF Keys, Selectors, Fields, Depth

LEMMA MissingIsOK == \A k \in Keys : SlotOK(k, Missing)
BY ClassIds DEF SlotOK, Missing, Slot, States, Sources

LEMMA SlotParts ==
  \A st, val, src : LET x == Slot(st, val, src) IN x.st = st /\ x.val = val /\ x.src = src
BY DEF Slot

LEMMA OverPoint ==
  ASSUME NEW f, NEW s
  PROVE  /\ DOMAIN Over(f, s) = Keys
         /\ \A k \in Keys : Over(f, s)[k] = IF k \in DOMAIN f THEN f[k] ELSE s[k]
BY DEF Over, Keys, Selectors, Fields

LEMMA ClearPoint ==
  ASSUME NEW s, NEW ks, DOMAIN s = Keys
  PROVE  /\ DOMAIN Clear(s, ks) = Keys
         /\ \A k \in Keys : Clear(s, ks)[k] = IF k \in ks THEN Missing ELSE s[k]
BY OverPoint DEF Clear

LEMMA ClearGood ==
  ASSUME NEW s, NEW ks, Good(s)
  PROVE  Good(Clear(s, ks))
BY ClearPoint, MissingIsOK DEF Good

(* The values of a good draft.                                                 *)
LEMMA ValuesOK ==
  ASSUME NEW s, Good(s)
  PROVE  /\ Val(s, "class") \in ClassValues /\ Val(s, "family") \in Families \cup {None}
         /\ Val(s, "type") \in Variants \cup {None} /\ Val(s, "unit") \in Units \cup {None}
         /\ \A k \in Selectors : Val(s, k) # Unknown
<1>1. SlotOK("class", s["class"]) /\ SlotOK("family", s["family"])
      /\ SlotOK("type", s["type"]) /\ SlotOK("unit", s["unit"])
  BY KeysAre DEF Good
<1>2. /\ Val(s, "class") \in ClassValues /\ Val(s, "family") \in Families \cup {None}
      /\ Val(s, "type") \in Variants \cup {None} /\ Val(s, "unit") \in Units \cup {None}
  BY <1>1, ClassIds DEF SlotOK, Val
<1> QED BY <1>2, ClassIds, NodesAreNamed, NamesAreApart, KeysAre

LEMMA DependentsAre ==
  /\ Reached({"class"}, {}) = {"family", "type", "unit", "payload"}
  /\ Reached({"family"}, {}) = {"type", "unit", "payload"}
  /\ Reached({"type"}, {}) = {"unit", "payload"}
  /\ Reached({"unit"}, {}) = {}
<1> DEFINE Below(ks) == UNION {Dependents(k) : k \in ks} \ {}
<1>0. \A p, one, two : one = Below(p) /\ two = one \cup Below(one)
                        => Reached(p, {}) = two \cup Below(two)
  BY DEF Reached
<1>1. /\ Dependents("class") = {"family", "type", "unit"} /\ Dependents("family") = {"type", "unit"}
      /\ Dependents("type") = {"unit", "payload"} /\ Dependents("unit") = {}
      /\ Dependents("payload") = {}
  BY DEF Dependents
<1>2. Below({"class"}) = {"family", "type", "unit"} /\ Below({"family"}) = {"type", "unit"}
      /\ Below({"type"}) = {"unit", "payload"} /\ Below({"unit"}) = {}
      /\ Below({}) = {}
  BY <1>1
<1>3. Below({"family", "type", "unit"}) = {"type", "unit", "payload"}
      /\ Below({"type", "unit"}) = {"unit", "payload"}
      /\ Below({"unit", "payload"}) = {}
  BY <1>1
<1>4. Below({"family", "type", "unit", "payload"}) = {"type", "unit", "payload"}
      /\ Below({"type", "unit", "payload"}) = {"unit", "payload"}
  BY <1>1
<1> HIDE DEF Below
<1>5. Reached({"class"}, {}) = {"family", "type", "unit", "payload"}
  <2> DEFINE One == {"family", "type", "unit"}
             Two == {"family", "type", "unit", "payload"}
  <2>1. One = Below({"class"}) /\ Two = One \cup Below(One) /\ Two = Two \cup Below(Two)
    BY <1>2, <1>3, <1>4
  <2> HIDE DEF One, Two
  <2>2. Reached({"class"}, {}) = Two \cup Below(Two)
    BY <1>0, <2>1
  <2>3. Reached({"class"}, {}) = Two
    BY <2>1, <2>2
  <2> QED BY <2>3 DEF Two
<1>6. Reached({"family"}, {}) = {"type", "unit", "payload"}
  <2> DEFINE One == {"type", "unit"}
             Two == {"type", "unit", "payload"}
  <2>1. One = Below({"family"}) /\ Two = One \cup Below(One) /\ Two = Two \cup Below(Two)
    BY <1>2, <1>3, <1>4
  <2> HIDE DEF One, Two
  <2>2. Reached({"family"}, {}) = Two \cup Below(Two)
    BY <1>0, <2>1
  <2>3. Reached({"family"}, {}) = Two
    BY <2>1, <2>2
  <2> QED BY <2>3 DEF Two
<1>7. Reached({"type"}, {}) = {"unit", "payload"}
  <2>1. {"unit", "payload"} = {"unit", "payload"} \cup {}
    OBVIOUS
  <2>2. /\ {"unit", "payload"} = Below({"type"})
        /\ {"unit", "payload"} = {"unit", "payload"} \cup Below({"unit", "payload"})
    BY <1>2, <1>3, <2>1
  <2>3. Reached({"type"}, {}) = {"unit", "payload"} \cup Below({"unit", "payload"})
    BY <1>0, <2>2, Zenon
  <2> QED BY <1>3, <2>1, <2>3
<1>8. Reached({"unit"}, {}) = {}
  <2>1. {} = {} \cup {}
    OBVIOUS
  <2>2. {} = Below({"unit"}) /\ {} = {} \cup Below({})
    BY <1>2, <2>1
  <2>3. Reached({"unit"}, {}) = {} \cup Below({})
    BY <1>0, <2>2, Zenon
  <2> QED BY <1>2, <2>1, <2>3
<1> QED BY <1>5, <1>6, <1>7, <1>8

(*************************** what was told stays told ************************)
Explicit(s, k) == Val(s, k) # None /\ s[k].src # "auto"

(* A selector at or above an explicit one is not recomputed.                   *)
Firm(s, k) == \E j \in Selectors : Depth[k] <= Depth[j] /\ Explicit(s, j)

LEMMA DeepestIs ==
  ASSUME NEW s
  PROVE  \A k \in Selectors : Depth[k] > DeepestExplicit(s) <=> ~Firm(s, k)
<1> DEFINE E == {k \in Selectors : Val(s, k) # None /\ s[k].src # "auto"}
           Max(d) == d \in {Depth[k] : k \in E} /\ \A k \in E : Depth[k] <= d
<1>0. \A k \in Selectors : Depth[k] \in 1..4
  BY KeysAre
<1>1. CASE E = {}
  <2>1. DeepestExplicit(s) = 0
    BY <1>1 DEF DeepestExplicit
  <2> QED BY <1>0, <1>1, <2>1 DEF Firm, Explicit
<1>2. CASE E # {}
  <2>1. \E d : Max(d)
    <3>1. CASE "unit" \in E
      BY <3>1, KeysAre, Max(4)
    <3>2. CASE "unit" \notin E /\ "type" \in E
      BY <3>2, KeysAre, Max(3)
    <3>3. CASE "unit" \notin E /\ "type" \notin E /\ "family" \in E
      BY <3>3, KeysAre, Max(2)
    <3>4. CASE "unit" \notin E /\ "type" \notin E /\ "family" \notin E
      BY <1>2, <3>4, KeysAre, Max(1)
    <3> QED BY <3>1, <3>2, <3>3, <3>4
  <2>2. DeepestExplicit(s) = CHOOSE d \in {Depth[k] : k \in E} : \A k \in E : Depth[k] <= d
    BY <1>2 DEF DeepestExplicit
  <2>3. Max(DeepestExplicit(s))
    BY <2>1, <2>2
  <2>4. PICK j \in E : DeepestExplicit(s) = Depth[j]
    BY <2>3
  <2>5. \A k \in E : Depth[k] <= Depth[j]
    BY <2>3, <2>4
  <2>6. \A k \in Selectors : k \in E <=> Explicit(s, k)
    BY DEF Explicit
  <2> QED BY <1>0, <2>4, <2>5, <2>6 DEF Firm
<1> QED BY <1>1, <1>2

LEMMA ResetFacts ==
  ASSUME NEW s, Good(s)
  PROVE  LET r == ResetRecomputed(s)
         IN  /\ Good(r)
             /\ \A k \in Fields : r[k] = s[k]
             /\ \A k \in Selectors : Explicit(s, k) => r[k] = s[k]
             /\ \A k \in Selectors : Val(r, k) # None => r[k] = s[k] /\ Firm(s, k)
             /\ Val(r, "unit") # None /\ s["type"].st # "missing" => r["type"].st # "missing"
<1> DEFINE r == ResetRecomputed(s)
           Reset == {k \in Selectors : \/ s[k].st = "invalid" /\ s[k].src = "exhausted"
                                       \/ IsAuto(s, k) /\ Depth[k] > DeepestExplicit(s)}
<1>1. r = Clear(s, Reset)
  BY DEF ResetRecomputed
<1>2. Good(r)
  BY <1>1, ClearGood
<1>3. \A k \in Keys : r[k] = IF k \in Reset THEN Missing ELSE s[k]
  BY <1>1, ClearPoint DEF Good
<1>4. \A k \in Fields : r[k] = s[k]
  BY <1>3, KeysAre DEF Fields
<1>5. \A k \in Selectors : Explicit(s, k) => r[k] = s[k]
  <2>1. \A k \in Selectors : Explicit(s, k) => k \notin Reset
    BY DEF Explicit, Val, IsAuto
  <2> QED BY <1>3, <2>1, KeysAre
<1>6. \A k \in Selectors : Val(r, k) # None => r[k] = s[k] /\ Firm(s, k)
  <2> TAKE k \in Selectors
  <2> HAVE Val(r, k) # None
  <2>1. k \notin Reset /\ r[k] = s[k]
    BY <1>3, KeysAre, SlotParts DEF Val, Missing
  <2>2. s[k].st = "valid" /\ Val(s, k) # None
    BY <2>1 DEF Val
  <2>3. CASE s[k].src = "auto"
    <3>1. ~(Depth[k] > DeepestExplicit(s))
      BY <2>1, <2>2, <2>3 DEF IsAuto
    <3> QED BY <2>1, <3>1, DeepestIs
  <2>4. CASE s[k].src # "auto"
    BY <2>1, <2>2, <2>4, KeysAre DEF Firm, Explicit
  <2> QED BY <2>3, <2>4
<1>7. Val(r, "unit") # None /\ s["type"].st # "missing" => r["type"].st # "missing"
  <2> HAVE Val(r, "unit") # None /\ s["type"].st # "missing"
  <2>1. Firm(s, "unit")
    BY <1>6, KeysAre
  <2>2. Firm(s, "type")
    BY <2>1, KeysAre DEF Firm
  <2>3. ~(Depth["type"] > DeepestExplicit(s))
    BY <2>2, DeepestIs, KeysAre
  <2>4. s["type"].src # "exhausted"
    BY KeysAre DEF Good, SlotOK
  <2>5. "type" \notin Reset
    BY <2>3, <2>4
  <2> QED BY <1>3, <2>5, KeysAre
<1> QED BY <1>2, <1>4, <1>5, <1>6, <1>7

LEMMA SameSlot ==
  ASSUME NEW x, NEW y, NEW k, x[k] = y[k]
  PROVE  /\ Val(x, k) = Val(y, k) /\ (Occupied(x, k) <=> Occupied(y, k))
         /\ Explicit(x, k) <=> Explicit(y, k)
         /\ Held(x, k) <=> Held(y, k)
BY DEF Val, Occupied, Explicit, Held

LEMMA GoneSlot ==
  ASSUME NEW x, NEW k, x[k] = Missing
  PROVE  Val(x, k) = None /\ ~Occupied(x, k) /\ ~Explicit(x, k) /\ ~Held(x, k)
BY SlotParts DEF Val, Occupied, Explicit, Held, Missing

(*********************** the check of the selectors **************************)
(* What the automatic choice may do to a slot: leave it, empty it, put a value *)
(* of its own into it, or note that nothing is left to choose.                 *)
Exhausted == Slot("invalid", None, "exhausted")
Altered(r, q) ==
  /\ \A k \in Selectors : q[k] = r[k] \/ q[k] = Missing \/ q[k] = Exhausted \/ IsAuto(q, k)
  /\ q["depth"] = r["depth"] /\ q["start"] = r["start"]
  /\ q["payload"] = r["payload"] \/ q["payload"] = Missing

(* And what it does to a draft in which everything fits: it only fills in      *)
(* selectors above a valid one, and the type only when it is missing.          *)
Extended(r, q) ==
  /\ \A k \in Fields : q[k] = r[k]
  /\ \A k \in Selectors : Val(r, k) # None => q[k] = r[k]
  /\ \A k \in Selectors : Val(q, k) # None /\ Val(r, k) = None
       => IsAuto(q, k) /\ \E j \in Selectors : Depth[k] <= Depth[j] /\ Val(r, j) # None
  /\ r["type"].st # "missing" => q["type"] = r["type"]

AllFit(s, t) ==
  /\ ClassFits(t, Val(s, "class"))
  /\ FamilyFits(t, Val(s, "class"), Val(s, "family"))
  /\ TypeFits(t, Val(s, "class"), Val(s, "family"), Val(s, "type"))
  /\ UnitFits(t, Val(s, "class"), Val(s, "family"), Val(s, "type"), Val(s, "unit"))

Sound(s, t) ==
  /\ Explicit(s, "class") => ClassFits(t, Val(s, "class"))
  /\ Explicit(s, "family") => FamilyFits(t, Val(s, "class"), Val(s, "family"))
  /\ Explicit(s, "type") => TypeFits(t, Val(s, "class"), Val(s, "family"), Val(s, "type"))
  /\ Explicit(s, "unit")
       => UnitFits(t, Val(s, "class"), Val(s, "family"), Val(s, "type"), Val(s, "unit"))

LEMMA AlteredTwice ==
  ASSUME NEW p, NEW q, NEW r, Altered(p, q), Altered(q, r)
  PROVE  Altered(p, r)
<1>1. \A k \in Selectors : r[k] = p[k] \/ r[k] = Missing \/ r[k] = Exhausted \/ IsAuto(r, k)
  BY DEF Altered, IsAuto
<1> QED BY <1>1 DEF Altered

LEMMA ExtendedTwice ==
  ASSUME NEW p, NEW q, NEW r, Extended(p, q), Extended(q, r)
  PROVE  Extended(p, r)
<1>1. /\ \A k \in Fields : r[k] = p[k]
      /\ \A k \in Selectors : Val(p, k) # None => r[k] = p[k]
      /\ p["type"].st # "missing" => r["type"] = p["type"]
  BY DEF Extended, Val
<1>2. ASSUME NEW k \in Selectors, Val(r, k) # None, Val(p, k) = None
      PROVE  IsAuto(r, k) /\ \E j \in Selectors : Depth[k] <= Depth[j] /\ Val(p, j) # None
  <2>1. CASE Val(q, k) # None
    <3>1. r[k] = q[k]
      BY <2>1 DEF Extended
    <3> QED BY <1>2, <2>1, <3>1 DEF Extended, IsAuto
  <2>2. CASE Val(q, k) = None
    <3>1. IsAuto(r, k) /\ \E j \in Selectors : Depth[k] <= Depth[j] /\ Val(q, j) # None
      BY <1>2, <2>2 DEF Extended
    <3>2. PICK j \in Selectors : Depth[k] <= Depth[j] /\ Val(q, j) # None
      BY <3>1
    <3>3. CASE Val(p, j) # None
      BY <3>1, <3>2, <3>3
    <3>4. CASE Val(p, j) = None
      <4>1. PICK i \in Selectors : Depth[j] <= Depth[i] /\ Val(p, i) # None
        BY <3>2, <3>4 DEF Extended
      <4>2. Depth[k] \in Nat /\ Depth[j] \in Nat /\ Depth[i] \in Nat
        BY KeysAre
      <4>3. Depth[k] <= Depth[i]
        BY <3>2, <4>1, <4>2
      <4> QED BY <3>1, <4>1, <4>3
    <3> QED BY <3>3, <3>4
  <2> QED BY <2>1, <2>2
<1> QED BY <1>1, <1>2 DEF Extended

(* An explicit selector was one before, and the same.                          *)
LEMMA AlteredExplicit ==
  ASSUME NEW r, NEW q, Altered(r, q)
  PROVE  \A k \in Selectors : Explicit(q, k) => q[k] = r[k] /\ Explicit(r, k)
BY SlotParts DEF Altered, Explicit, IsAuto, Val, Missing, Exhausted

LEMMA FillPoint ==
  ASSUME NEW s, Good(s), NEW k \in {"class", "family"}, NEW val,
         k = "class" => val \in Classes, k = "family" => val \in Families
  PROVE  LET x == FillFrom(s, k, val)
         IN  /\ Good(x)
             /\ \A j \in Keys : j # k => x[j] = s[j]
             /\ Occupied(s, k) => x = s
             /\ ~Occupied(s, k) => x[k] = Chosen(val)
             /\ Occupied(x, k)
<1> DEFINE x == FillFrom(s, k, val)
<1>0. k \in Keys /\ val # None /\ DOMAIN s = Keys
  BY KeysAre, NodesAreNamed DEF Good
<1>1. Occupied(s, k) => x = s
  BY DEF FillFrom
<1>2. ~Occupied(s, k) => x = [s EXCEPT ![k] = Chosen(val)]
  BY <1>0 DEF FillFrom
<1>3. \A j \in Keys : j # k => x[j] = s[j]
  BY <1>0, <1>1, <1>2
<1>4. ~Occupied(s, k) => x[k] = Chosen(val) /\ DOMAIN x = Keys
  BY <1>0, <1>2
<1>5. SlotOK(k, Chosen(val))
  <2>1. k = "class" => val \in ClassValues
    BY DEF ClassValues
  <2> QED BY <1>0, <2>1, SlotParts DEF Chosen, SlotOK, States, Sources
<1>6. Good(x)
  BY <1>1, <1>3, <1>4, <1>5 DEF Good
<1>7. Occupied(x, k)
  BY <1>0, <1>1, <1>4, SlotParts DEF Occupied, Chosen
<1> QED BY <1>1, <1>3, <1>4, <1>6, <1>7

LEMMA UnseatIs ==
  ASSUME NEW s, Good(s)
  PROVE  /\ Unseat(s, "class") = Clear(s, {"class", "family", "type", "unit", "payload"})
         /\ Unseat(s, "family") = Clear(s, {"family", "type", "unit", "payload"})
         /\ Unseat(s, "type") = Clear(s, {"type", "unit", "payload"})
         /\ Unseat(s, "unit") = Clear(s, {"unit"})
<1>1. /\ {"class"} \cup {"family", "type", "unit", "payload"}
            = {"class", "family", "type", "unit", "payload"}
      /\ {"family"} \cup {"type", "unit", "payload"} = {"family", "type", "unit", "payload"}
      /\ {"type"} \cup {"unit", "payload"} = {"type", "unit", "payload"}
      /\ {"unit"} \cup {} = {"unit"}
  OBVIOUS
<1> QED BY <1>1, DependentsAre DEF Unseat

LEMMA UnseatFacts ==
  ASSUME NEW s, Good(s), NEW k \in Selectors
  PROVE  LET u == Unseat(s, k)
         IN  /\ Good(u) /\ Altered(s, u)
             /\ \A j \in Selectors : u[j] = IF Depth[k] <= Depth[j] THEN Missing ELSE s[j]
<1>1. PICK ks : /\ Unseat(s, k) = Clear(s, ks) /\ ks \subseteq Selectors \cup {"payload"}
                /\ \A j \in Selectors : j \in ks <=> Depth[k] <= Depth[j]
  BY UnseatIs, KeysAre
<1>2. \A j \in Keys : Unseat(s, k)[j] = IF j \in ks THEN Missing ELSE s[j]
  BY <1>1, ClearPoint DEF Good
<1>3. "depth" \notin ks /\ "start" \notin ks
  BY <1>1, KeysAre
<1>4. Altered(s, Unseat(s, k))
  BY <1>2, <1>3, KeysAre DEF Altered
<1> QED BY <1>1, <1>2, <1>4, ClearGood, KeysAre

LEMMA LinesAre ==
  ASSUME NEW s, Good(s)
  PROVE  /\ Val(s, "class") # None
              => LineOf("class", s["class"].val).class = ClassId(Val(s, "class"))
         /\ Val(s, "family") # None
              => LET line == LineOf("family", s["family"].val)
                 IN  line.class = ClassOf[Val(s, "family")] /\ line.family = Val(s, "family")
         /\ Val(s, "type") # None
              => LET line == LineOf("type", s["type"].val)
                 IN  /\ line.class = ClassOf[FamilyOf[Val(s, "type")]]
                     /\ line.family = FamilyOf[Val(s, "type")] /\ line.type = Val(s, "type")
         /\ Val(s, "unit") # None
              => LET line == LineOf("unit", s["unit"].val)
                 IN  /\ line.class = ClassOf[FamilyOf[VariantOf[Val(s, "unit")]]]
                     /\ line.family = FamilyOf[VariantOf[Val(s, "unit")]]
                     /\ line.type = VariantOf[Val(s, "unit")] /\ line.unit = Val(s, "unit")
<1>1. \A k \in Selectors : Val(s, k) # None => s[k].val = Val(s, k) /\ s[k].val # Unknown
  BY ValuesOK DEF Val
<1>2. \A c, f, v, w : LET l == Lineage(c, f, v, w)
                      IN  l.class = c /\ l.family = f /\ l.type = v /\ l.unit = w
  BY DEF Lineage
<1>3. \A v : v # Unknown => LineOf("class", v) = Lineage(ClassId(v), None, None, None)
  BY DEF LineOf
<1>4. \A v : v # Unknown => LineOf("family", v) = Lineage(ClassOf[v], v, None, None)
  BY DEF LineOf
<1>5. \A v : v # Unknown
        => LineOf("type", v) = Lineage(ClassOf[FamilyOf[v]], FamilyOf[v], v, None)
  BY DEF LineOf
<1>6. \A v : v # Unknown
        => LineOf("unit", v) = Lineage(ClassOf[FamilyOf[VariantOf[v]]], FamilyOf[VariantOf[v]],
                                       VariantOf[v], v)
  BY DEF LineOf
<1> QED BY <1>1, <1>2, <1>3, <1>4, <1>5, <1>6, KeysAre

(* The selectors above a level, one by one.                                    *)
LEMMA AgreesIs ==
  ASSUME NEW s, NEW line
  PROVE  /\ Agrees(s, "class", line)
         /\ Agrees(s, "family", line)
              <=> (Val(s, "class") # None => ClassId(Val(s, "class")) = line["class"])
         /\ Agrees(s, "type", line)
              <=> /\ Val(s, "class") # None => ClassId(Val(s, "class")) = line["class"]
                  /\ Val(s, "family") # None => Val(s, "family") = line["family"]
         /\ Agrees(s, "unit", line)
              <=> /\ Val(s, "class") # None => ClassId(Val(s, "class")) = line["class"]
                  /\ Val(s, "family") # None => Val(s, "family") = line["family"]
                  /\ Val(s, "type") # None => Val(s, "type") = line["type"]
<1>1. \A k \in Selectors : Val(s, k) # None => s[k].val = Val(s, k)
  BY DEF Val
<1>2. /\ Above(s, "class") = {}
      /\ Above(s, "family") = {a \in {"class"} : Val(s, a) # None}
      /\ Above(s, "type") = {a \in {"class", "family"} : Val(s, a) # None}
      /\ Above(s, "unit") = {a \in {"class", "family", "type"} : Val(s, a) # None}
  BY KeysAre DEF Above
<1> QED BY <1>1, <1>2, KeysAre DEF Agrees, Node

LEMMA RetainedIs ==
  ASSUME NEW s, NEW k, NEW v, NEW t
  PROVE  Retained(s, k, v, t)
           = IF Admitted(k, v, t) /\ Agrees(s, k, LineOf(k, v)) THEN s ELSE Unseat(s, k)
BY DEF Retained

LEMMA WithAncestorsIs ==
  ASSUME NEW s, NEW line
  PROVE  /\ WithAncestors(s, "class", line) = s
         /\ WithAncestors(s, "unit", line) = s
         /\ WithAncestors(s, "family", line) = FillFrom(s, "class", line.class)
         /\ WithAncestors(s, "type", line)
              = FillFrom(FillFrom(s, "family", line.family), "class", line.class)
<1>1. \A x, k : FillFrom(x, k, None) = x
  BY DEF FillFrom
<1> QED BY <1>1 DEF WithAncestors

LEMMA CheckedClass ==
  ASSUME NEW s, Good(s), NEW t
  PROVE  Checked(s, "class", t)
           = IF ClassFits(t, Val(s, "class")) THEN s ELSE Unseat(s, "class")
<1>1. CASE Val(s, "class") = None
  BY <1>1 DEF Checked, ClassFits
<1>2. CASE Val(s, "class") # None
  <2>1. s["class"].val = Val(s, "class")
    BY <1>2 DEF Val
  <2>2. Admitted("class", Val(s, "class"), t) <=> ClassFits(t, Val(s, "class"))
    BY <1>2 DEF Admitted, ClassFits
  <2>3. Checked(s, "class", t) = Retained(s, "class", Val(s, "class"), t)
    BY <1>2, <2>1, WithAncestorsIs DEF Checked
  <2> QED BY <1>2, <2>2, <2>3, AgreesIs, RetainedIs
<1> QED BY <1>1, <1>2

LEMMA CheckedFamily ==
  ASSUME NEW s, Good(s), NEW t
  PROVE  LET c == FillFrom(s, "class", ClassOf[Val(s, "family")])
         IN  Checked(s, "family", t)
               = IF Val(s, "family") = None THEN s
                 ELSE IF FamilyFits(t, Val(c, "class"), Val(s, "family")) THEN c
                 ELSE Unseat(c, "family")
<1>1. CASE Val(s, "family") = None
  BY <1>1 DEF Checked
<1>2. CASE Val(s, "family") # None
  <2> DEFINE c == FillFrom(s, "class", ClassOf[Val(s, "family")])
             line == LineOf("family", Val(s, "family"))
  <2>1. s["family"].val = Val(s, "family")
    BY <1>2 DEF Val
  <2>2. line.class = ClassOf[Val(s, "family")] /\ line["class"] = line.class
    BY <1>2, <2>1, LinesAre
  <2>3. Admitted("family", Val(s, "family"), t) <=> Val(s, "family") \in FamiliesOf(Open(t))
    BY DEF Admitted, Open
  <2>4. Admitted("family", Val(s, "family"), t) /\ Agrees(c, "family", line)
          <=> FamilyFits(t, Val(c, "class"), Val(s, "family"))
    BY <1>2, <2>2, <2>3, AgreesIs DEF FamilyFits
  <2>5. Checked(s, "family", t) = Retained(c, "family", Val(s, "family"), t)
    BY <1>2, <2>1, <2>2, WithAncestorsIs DEF Checked
  <2> QED BY <1>2, <2>4, <2>5, RetainedIs
<1> QED BY <1>1, <1>2

LEMMA CheckedType ==
  ASSUME NEW s, Good(s), NEW t
  PROVE  LET f == FillFrom(s, "family", FamilyOf[Val(s, "type")])
             c == FillFrom(f, "class", ClassOf[FamilyOf[Val(s, "type")]])
         IN  Checked(s, "type", t)
               = IF Val(s, "type") = None THEN s
                 ELSE IF TypeFits(t, Val(c, "class"), Val(c, "family"), Val(s, "type")) THEN c
                 ELSE Unseat(c, "type")
<1>1. CASE Val(s, "type") = None
  BY <1>1 DEF Checked
<1>2. CASE Val(s, "type") # None
  <2> DEFINE f == FillFrom(s, "family", FamilyOf[Val(s, "type")])
             c == FillFrom(f, "class", ClassOf[FamilyOf[Val(s, "type")]])
             line == LineOf("type", Val(s, "type"))
  <2>1. s["type"].val = Val(s, "type")
    BY <1>2 DEF Val
  <2>2. /\ line.class = ClassOf[FamilyOf[Val(s, "type")]] /\ line.family = FamilyOf[Val(s, "type")]
        /\ line["class"] = line.class /\ line["family"] = line.family
    BY <1>2, <2>1, LinesAre
  <2>3. Admitted("type", Val(s, "type"), t) <=> Val(s, "type") \in Open(t)
    BY DEF Admitted, Open
  <2>4. Admitted("type", Val(s, "type"), t) /\ Agrees(c, "type", line)
          <=> TypeFits(t, Val(c, "class"), Val(c, "family"), Val(s, "type"))
    BY <1>2, <2>2, <2>3, AgreesIs DEF TypeFits
  <2>5. Checked(s, "type", t) = Retained(c, "type", Val(s, "type"), t)
    BY <1>2, <2>1, <2>2, WithAncestorsIs DEF Checked
  <2> QED BY <1>2, <2>4, <2>5, RetainedIs
<1> QED BY <1>1, <1>2

LEMMA CheckedUnit ==
  ASSUME NEW s, Good(s), NEW t
  PROVE  Checked(s, "unit", t)
           = IF UnitFits(t, Val(s, "class"), Val(s, "family"), Val(s, "type"), Val(s, "unit"))
             THEN s ELSE Unseat(s, "unit")
<1>1. CASE Val(s, "unit") = None
  BY <1>1 DEF Checked, UnitFits
<1>2. CASE Val(s, "unit") # None
  <2> DEFINE line == LineOf("unit", Val(s, "unit"))
  <2>1. s["unit"].val = Val(s, "unit")
    BY <1>2 DEF Val
  <2>2. /\ line["class"] = ClassOf[FamilyOf[VariantOf[Val(s, "unit")]]]
        /\ line["family"] = FamilyOf[VariantOf[Val(s, "unit")]]
        /\ line["type"] = VariantOf[Val(s, "unit")]
    BY <1>2, <2>1, LinesAre
  <2>3. Admitted("unit", Val(s, "unit"), t) <=> VariantOf[Val(s, "unit")] \in Open(t)
    BY DEF Admitted, Open
  <2>4. Admitted("unit", Val(s, "unit"), t) /\ Agrees(s, "unit", line)
          <=> UnitFits(t, Val(s, "class"), Val(s, "family"), Val(s, "type"), Val(s, "unit"))
    BY <1>2, <2>2, <2>3, AgreesIs DEF UnitFits
  <2>5. Checked(s, "unit", t) = Retained(s, "unit", Val(s, "unit"), t)
    BY <1>2, <2>1, WithAncestorsIs DEF Checked
  <2> QED BY <1>2, <2>4, <2>5, RetainedIs
<1> QED BY <1>1, <1>2

(* An ancestor that is filled in above a selector that fits, fits.             *)
LEMMA FillClassFits ==
  ASSUME NEW s, Good(s), NEW t \in Tasks, AllFit(s, t), NEW f \in FamiliesOf(Open(t)),
         Val(s, "family") # None => Val(s, "family") = f,
         Val(s, "type") # None => FamilyOf[Val(s, "type")] = f,
         Val(s, "unit") # None => FamilyOf[VariantOf[Val(s, "unit")]] = f,
         Val(s, "family") # None \/ Val(s, "type") # None
  PROVE  LET x == FillFrom(s, "class", ClassOf[f])
         IN  AllFit(x, t) /\ Extended(s, x) /\ (Val(x, "class") # None => ClassId(Val(x, "class")) = ClassOf[f])
<1> DEFINE x == FillFrom(s, "class", ClassOf[f])
<1>1. f \in Families /\ ClassOf[f] \in Classes /\ ClassOf[f] \in ListRobotClasses(t)
  BY AdmittedDomain, NodesAreNamed DEF Open
<1>2. /\ \A j \in Keys : j # "class" => x[j] = s[j]
      /\ Occupied(s, "class") => x = s
      /\ ~Occupied(s, "class") => x["class"] = Chosen(ClassOf[f])
  BY <1>1, FillPoint
<1>3. \A k \in {"family", "type", "unit"} : Val(x, k) = Val(s, k) /\ x[k] = s[k]
  BY <1>2, KeysAre DEF Val
<1>4. CASE Occupied(s, "class")
  <2>1. x = s
    BY <1>2, <1>4
  <2>2. Val(s, "class") # None => ClassId(Val(s, "class")) = ClassOf[f]
    BY DEF AllFit, FamilyFits, TypeFits
  <2>3. Extended(s, s)
    BY DEF Extended
  <2> QED BY <2>1, <2>2, <2>3
<1>5. CASE ~Occupied(s, "class")
  <2>1. Val(x, "class") = ClassOf[f] /\ ClassId(Val(x, "class")) = ClassOf[f] /\ IsAuto(x, "class")
    BY <1>1, <1>2, <1>5, SlotParts, ClassIds DEF Val, Chosen, IsAuto
  <2>2. AllFit(x, t)
    <3>1. ClassFits(t, Val(x, "class"))
      BY <1>1, <2>1 DEF ClassFits
    <3>2. FamilyFits(t, Val(x, "class"), Val(x, "family"))
      BY <1>3, <2>1 DEF AllFit, FamilyFits
    <3>3. TypeFits(t, Val(x, "class"), Val(x, "family"), Val(x, "type"))
      BY <1>3, <2>1 DEF AllFit, TypeFits
    <3>4. UnitFits(t, Val(x, "class"), Val(x, "family"), Val(x, "type"), Val(x, "unit"))
      BY <1>3, <2>1 DEF AllFit, UnitFits
    <3> QED BY <3>1, <3>2, <3>3, <3>4 DEF AllFit
  <2>3. Val(s, "class") = None
    BY <1>5 DEF Occupied, Val
  <2>4. Extended(s, x)
    <3>1. \A k \in Fields : x[k] = s[k]
      BY <1>2, KeysAre DEF Fields
    <3>2. \E j \in Selectors : Depth["class"] <= Depth[j] /\ Val(s, j) # None
      BY KeysAre
    <3>3. x["type"] = s["type"]
      BY <1>3
    <3> QED BY <1>3, <2>1, <2>3, <3>1, <3>2, <3>3, KeysAre DEF Extended
  <2> QED BY <2>1, <2>2, <2>4
<1> QED BY <1>4, <1>5

LEMMA FillFamilyFits ==
  ASSUME NEW s, Good(s), NEW t \in Tasks, AllFit(s, t), Val(s, "type") # None
  PROVE  LET x == FillFrom(s, "family", FamilyOf[Val(s, "type")])
         IN  /\ AllFit(x, t) /\ Extended(s, x) /\ Good(x)
             /\ Val(x, "type") = Val(s, "type") /\ Val(x, "class") = Val(s, "class")
             /\ Val(x, "family") # None => Val(x, "family") = FamilyOf[Val(s, "type")]
<1> DEFINE f == FamilyOf[Val(s, "type")]
           x == FillFrom(s, "family", f)
<1>1. f \in Families /\ f \in FamiliesOf(Open(t)) /\ f # None
  BY AdmittedDomain, NodesAreNamed DEF Open, AllFit, TypeFits
<1>2. /\ \A j \in Keys : j # "family" => x[j] = s[j]
      /\ Occupied(s, "family") => x = s
      /\ ~Occupied(s, "family") => x["family"] = Chosen(f)
      /\ Good(x)
  BY <1>1, FillPoint
<1>3. \A k \in {"class", "type", "unit"} : Val(x, k) = Val(s, k) /\ x[k] = s[k]
  BY <1>2, KeysAre DEF Val
<1>4. CASE Occupied(s, "family")
  <2>1. x = s
    BY <1>2, <1>4
  <2>2. Val(s, "family") # None => Val(s, "family") = f
    BY DEF AllFit, TypeFits
  <2>3. Extended(s, s)
    BY DEF Extended
  <2> QED BY <2>1, <2>2, <2>3
<1>5. CASE ~Occupied(s, "family")
  <2>1. Val(x, "family") = f /\ IsAuto(x, "family")
    BY <1>1, <1>2, <1>5, SlotParts DEF Val, Chosen, IsAuto
  <2>2. AllFit(x, t)
    <3>1. ClassFits(t, Val(x, "class"))
      BY <1>3 DEF AllFit
    <3>2. FamilyFits(t, Val(x, "class"), Val(x, "family"))
      BY <1>1, <1>3, <2>1 DEF AllFit, FamilyFits, TypeFits
    <3>3. TypeFits(t, Val(x, "class"), Val(x, "family"), Val(x, "type"))
      BY <1>3, <2>1 DEF AllFit, TypeFits
    <3>4. UnitFits(t, Val(x, "class"), Val(x, "family"), Val(x, "type"), Val(x, "unit"))
      BY <1>3, <2>1 DEF AllFit, UnitFits
    <3> QED BY <3>1, <3>2, <3>3, <3>4 DEF AllFit
  <2>3. Val(s, "family") = None
    BY <1>5 DEF Occupied, Val
  <2>4. Extended(s, x)
    <3>1. \A k \in Fields : x[k] = s[k]
      BY <1>2, KeysAre DEF Fields
    <3>2. \E j \in Selectors : Depth["family"] <= Depth[j] /\ Val(s, j) # None
      BY KeysAre
    <3>3. x["type"] = s["type"]
      BY <1>3
    <3> QED BY <1>3, <2>1, <2>3, <3>1, <3>2, <3>3, KeysAre DEF Extended
  <2> QED BY <1>2, <1>3, <2>1, <2>2, <2>4
<1> QED BY <1>4, <1>5

(* What each level of the check leaves, in full for the last one.              *)
ClassStage(s, t) == Good(s) /\ ClassFits(t, Val(s, "class"))
FamilyStage(s, t) ==
  /\ Good(s)
  /\ Explicit(s, "class") => ClassFits(t, Val(s, "class"))
  /\ FamilyFits(t, Val(s, "class"), Val(s, "family"))
  /\ Val(s, "family") # None => Occupied(s, "class")
TypeStage(s, t) ==
  /\ Good(s)
  /\ Explicit(s, "class") => ClassFits(t, Val(s, "class"))
  /\ Explicit(s, "family") => FamilyFits(t, Val(s, "class"), Val(s, "family"))
  /\ TypeFits(t, Val(s, "class"), Val(s, "family"), Val(s, "type"))
  /\ Val(s, "family") # None => Occupied(s, "class")
  /\ Val(s, "type") # None => Occupied(s, "family") /\ Occupied(s, "class")

LEMMA FillAltered ==
  ASSUME NEW s, Good(s), NEW k \in {"class", "family"}, NEW val,
         k = "class" => val \in Classes, k = "family" => val \in Families
  PROVE  Altered(s, FillFrom(s, k, val))
<1> DEFINE x == FillFrom(s, k, val)
<1>1. /\ \A j \in Keys : j # k => x[j] = s[j]
      /\ Occupied(s, k) => x = s
      /\ ~Occupied(s, k) => x[k] = Chosen(val)
  BY FillPoint
<1>2. x[k] = s[k] \/ IsAuto(x, k)
  BY <1>1, SlotParts DEF IsAuto, Chosen
<1> QED BY <1>1, <1>2, KeysAre DEF Altered

LEMMA FirstStage ==
  ASSUME NEW s, Good(s), NEW t \in Tasks
  PROVE  LET x == Checked(s, "class", t)
         IN  /\ ClassStage(x, t) /\ Altered(s, x)
             /\ AllFit(s, t) => x = s
<1> DEFINE x == Checked(s, "class", t)
<1>1. CASE ClassFits(t, Val(s, "class"))
  <2>1. x = s
    BY <1>1, CheckedClass
  <2>2. Altered(s, s)
    BY DEF Altered
  <2> QED BY <1>1, <2>1, <2>2 DEF ClassStage
<1>2. CASE ~ClassFits(t, Val(s, "class"))
  <2>1. x = Unseat(s, "class") /\ ~AllFit(s, t)
    BY <1>2, CheckedClass DEF AllFit
  <2>2. Good(x) /\ Altered(s, x) /\ x["class"] = Missing
    BY <2>1, UnseatFacts, KeysAre
  <2>3. ClassFits(t, Val(x, "class"))
    BY <2>2, SlotParts DEF ClassFits, Val, Missing
  <2> QED BY <2>1, <2>2, <2>3 DEF ClassStage
<1> QED BY <1>1, <1>2

LEMMA SecondStage ==
  ASSUME NEW t \in Tasks, NEW s, ClassStage(s, t)
  PROVE  LET x == Checked(s, "family", t)
         IN  /\ FamilyStage(x, t) /\ Altered(s, x)
             /\ AllFit(s, t) => AllFit(x, t) /\ Extended(s, x)
<1> DEFINE f == Val(s, "family")
           c == FillFrom(s, "class", ClassOf[f])
           x == Checked(s, "family", t)
<1>0. Good(s) /\ ClassFits(t, Val(s, "class"))
  BY DEF ClassStage
<1>1. CASE f = None
  <2>1. x = s
    BY <1>0, <1>1, CheckedFamily
  <2>2. Altered(s, s) /\ Extended(s, s)
    BY DEF Altered, Extended
  <2> QED BY <1>0, <1>1, <2>1, <2>2 DEF FamilyStage, FamilyFits
<1>2. CASE f # None
  <2>1. f \in Families /\ ClassOf[f] \in Classes
    BY <1>0, <1>2, ValuesOK, NodesAreNamed
  <2>2. /\ Good(c) /\ Occupied(c, "class")
        /\ \A j \in Keys : j # "class" => c[j] = s[j]
        /\ Altered(s, c)
    BY <1>0, <2>1, FillPoint, FillAltered
  <2>3. Val(c, "family") = f
    BY <2>2, KeysAre DEF Val
  <2>4. Explicit(c, "class") => ClassFits(t, Val(c, "class"))
    <3>1. Explicit(c, "class") => c["class"] = s["class"]
      BY <2>2, AlteredExplicit, KeysAre
    <3> QED BY <1>0, <3>1 DEF Val
  <2>5. CASE FamilyFits(t, Val(c, "class"), f)
    <3>1. x = c
      BY <1>0, <1>2, <2>5, CheckedFamily
    <3>2. FamilyStage(c, t)
      BY <2>2, <2>3, <2>4, <2>5 DEF FamilyStage
    <3>3. ASSUME AllFit(s, t) PROVE AllFit(c, t) /\ Extended(s, c)
      <4>1. /\ f \in FamiliesOf(Open(t))
            /\ Val(s, "type") # None => FamilyOf[Val(s, "type")] = f
            /\ Val(s, "unit") # None => FamilyOf[VariantOf[Val(s, "unit")]] = f
        BY <1>2, <3>3 DEF AllFit, FamilyFits, TypeFits, UnitFits
      <4> QED BY <1>0, <1>2, <3>3, <4>1, FillClassFits
    <3> QED BY <2>2, <3>1, <3>2, <3>3
  <2>6. CASE ~FamilyFits(t, Val(c, "class"), f)
    <3>1. x = Unseat(c, "family")
      BY <1>0, <1>2, <2>6, CheckedFamily
    <3>2. /\ Good(x) /\ Altered(c, x)
          /\ x["family"] = Missing /\ x["class"] = c["class"]
      BY <2>2, <3>1, UnseatFacts, KeysAre
    <3>3. Val(x, "family") = None /\ Val(x, "class") = Val(c, "class")
      BY <3>2, SlotParts DEF Val, Missing
    <3>4. Explicit(x, "class") => Explicit(c, "class")
      BY <3>2 DEF Explicit, Val
    <3>5. FamilyStage(x, t)
      BY <2>4, <3>2, <3>3, <3>4 DEF FamilyStage, FamilyFits
    <3>6. ~AllFit(s, t)
      <4>1. SUFFICES ASSUME AllFit(s, t) PROVE FALSE
        OBVIOUS
      <4>2. /\ f \in FamiliesOf(Open(t))
            /\ Val(s, "type") # None => FamilyOf[Val(s, "type")] = f
            /\ Val(s, "unit") # None => FamilyOf[VariantOf[Val(s, "unit")]] = f
        BY <1>2, <4>1 DEF AllFit, FamilyFits, TypeFits, UnitFits
      <4>3. AllFit(c, t)
        BY <1>0, <1>2, <4>1, <4>2, FillClassFits
      <4> QED BY <2>3, <2>6, <4>3 DEF AllFit
    <3>7. Altered(s, x)
      BY <2>2, <3>2, AlteredTwice
    <3> QED BY <2>2, <3>2, <3>5, <3>6, <3>7
  <2> QED BY <2>5, <2>6
<1> QED BY <1>1, <1>2

LEMMA ThirdStage ==
  ASSUME NEW t \in Tasks, NEW s, FamilyStage(s, t)
  PROVE  LET x == Checked(s, "type", t)
         IN  /\ TypeStage(x, t) /\ Altered(s, x)
             /\ AllFit(s, t) => AllFit(x, t) /\ Extended(s, x)
<1> DEFINE v == Val(s, "type")
           f == FillFrom(s, "family", FamilyOf[v])
           c == FillFrom(f, "class", ClassOf[FamilyOf[v]])
           x == Checked(s, "type", t)
<1>0. /\ Good(s) /\ FamilyFits(t, Val(s, "class"), Val(s, "family"))
      /\ Explicit(s, "class") => ClassFits(t, Val(s, "class"))
      /\ Val(s, "family") # None => Occupied(s, "class")
  BY DEF FamilyStage
<1>1. CASE v = None
  <2>1. x = s
    BY <1>0, <1>1, CheckedType
  <2>2. Altered(s, s) /\ Extended(s, s)
    BY DEF Altered, Extended
  <2> QED BY <1>0, <1>1, <2>1, <2>2 DEF TypeStage, TypeFits
<1>2. CASE v # None
  <2>1. FamilyOf[v] \in Families /\ ClassOf[FamilyOf[v]] \in Classes
    BY <1>0, <1>2, ValuesOK, NodesAreNamed
  <2>2. /\ Good(f) /\ Occupied(f, "family")
        /\ \A j \in Keys : j # "family" => f[j] = s[j]
        /\ Occupied(s, "family") => f = s
        /\ Altered(s, f)
    BY <1>0, <2>1, FillPoint, FillAltered
  <2>3. /\ Good(c) /\ Occupied(c, "class")
        /\ \A j \in Keys : j # "class" => c[j] = f[j]
        /\ Occupied(f, "class") => c = f
        /\ Altered(f, c)
    BY <2>1, <2>2, FillPoint, FillAltered
  <2>4. /\ Good(c) /\ Altered(s, c)
        /\ Occupied(c, "class") /\ Occupied(c, "family")
        /\ Val(c, "type") = v /\ c["type"] = s["type"]
    <3>1. Altered(s, c)
      BY <2>2, <2>3, AlteredTwice
    <3>2. c["family"] = f["family"] /\ c["type"] = s["type"]
      BY <2>2, <2>3, KeysAre
    <3>3. Occupied(c, "family") /\ Val(c, "type") = v
      BY <2>2, <3>2, SameSlot
    <3> QED BY <2>2, <2>3, <3>1, <3>2, <3>3
  <2>5. Explicit(c, "class") => ClassFits(t, Val(c, "class"))
    <3>1. Explicit(c, "class") => c["class"] = s["class"] /\ Explicit(s, "class")
      BY <2>4, AlteredExplicit, KeysAre
    <3> QED BY <1>0, <3>1 DEF Val
  <2>6. Explicit(c, "family") => FamilyFits(t, Val(c, "class"), Val(c, "family"))
    <3> HAVE Explicit(c, "family")
    <3>1. c["family"] = s["family"] /\ Explicit(s, "family")
      BY <2>4, AlteredExplicit, KeysAre
    <3>2. Occupied(s, "class") /\ Occupied(s, "family")
      BY <1>0, <3>1 DEF Explicit, Val, Occupied
    <3>3. f = s
      BY <2>2, <3>2
    <3>4. c = s
      BY <2>3, <3>2, <3>3
    <3> QED BY <1>0, <3>4
  <2>7. CASE TypeFits(t, Val(c, "class"), Val(c, "family"), v)
    <3>1. x = c
      BY <1>0, <1>2, <2>7, CheckedType
    <3>2. TypeStage(c, t)
      BY <2>4, <2>5, <2>6, <2>7 DEF TypeStage
    <3>3. ASSUME AllFit(s, t) PROVE AllFit(c, t) /\ Extended(s, c)
      <4>1. /\ AllFit(f, t) /\ Extended(s, f) /\ Val(f, "type") = v
            /\ Val(f, "family") # None => Val(f, "family") = FamilyOf[v]
        BY <1>0, <1>2, <3>3, FillFamilyFits
      <4>2. FamilyOf[v] \in FamiliesOf(Open(t))
            /\ (Val(f, "unit") # None => FamilyOf[VariantOf[Val(f, "unit")]] = FamilyOf[v])
        BY <1>2, <4>1, AdmittedDomain DEF AllFit, TypeFits, UnitFits, Open
      <4>3. AllFit(c, t) /\ Extended(f, c)
        BY <1>2, <2>2, <4>1, <4>2, FillClassFits
      <4> QED BY <4>1, <4>3, ExtendedTwice
    <3> QED BY <2>4, <3>1, <3>2, <3>3
  <2>8. CASE ~TypeFits(t, Val(c, "class"), Val(c, "family"), v)
    <3>1. x = Unseat(c, "type")
      BY <1>0, <1>2, <2>8, CheckedType
    <3>2. /\ Good(x) /\ Altered(c, x)
          /\ x["type"] = Missing /\ x["family"] = c["family"] /\ x["class"] = c["class"]
      BY <2>4, <3>1, UnseatFacts, KeysAre
    <3>3. /\ Val(x, "type") = None /\ Val(x, "family") = Val(c, "family")
          /\ Val(x, "class") = Val(c, "class")
          /\ Explicit(x, "class") <=> Explicit(c, "class")
          /\ Explicit(x, "family") <=> Explicit(c, "family")
          /\ Occupied(x, "class")
      BY <2>4, <3>2, SameSlot, GoneSlot
    <3>5. TypeStage(x, t)
      BY <2>5, <2>6, <3>2, <3>3 DEF TypeStage, TypeFits
    <3>6. ~AllFit(s, t)
      <4>1. SUFFICES ASSUME AllFit(s, t) PROVE FALSE
        OBVIOUS
      <4>2. /\ AllFit(f, t) /\ Val(f, "type") = v
            /\ Val(f, "family") # None => Val(f, "family") = FamilyOf[v]
        BY <1>0, <1>2, <4>1, FillFamilyFits
      <4>3. FamilyOf[v] \in FamiliesOf(Open(t))
            /\ (Val(f, "unit") # None => FamilyOf[VariantOf[Val(f, "unit")]] = FamilyOf[v])
        BY <1>2, <4>2, AdmittedDomain DEF AllFit, TypeFits, UnitFits, Open
      <4>4. AllFit(c, t)
        BY <1>2, <2>2, <4>2, <4>3, FillClassFits
      <4> QED BY <2>4, <2>8, <4>4 DEF AllFit
    <3>7. Altered(s, x)
      BY <2>4, <3>2, AlteredTwice
    <3> QED BY <2>4, <3>2, <3>5, <3>6, <3>7
  <2> QED BY <2>7, <2>8
<1> QED BY <1>1, <1>2

(* After the check the type and the unit fit, and what was told fits.          *)
Purged(s, t) ==
  /\ TypeStage(s, t)
  /\ UnitFits(t, Val(s, "class"), Val(s, "family"), Val(s, "type"), Val(s, "unit"))

LEMMA LastStage ==
  ASSUME NEW t \in Tasks, NEW s, TypeStage(s, t)
  PROVE  LET x == Checked(s, "unit", t)
         IN  /\ Purged(x, t) /\ Altered(s, x)
             /\ AllFit(s, t) => x = s
<1> DEFINE x == Checked(s, "unit", t)
<1>0. Good(s)
  BY DEF TypeStage
<1>1. CASE UnitFits(t, Val(s, "class"), Val(s, "family"), Val(s, "type"), Val(s, "unit"))
  <2>1. x = s
    BY <1>0, <1>1, CheckedUnit
  <2>2. Altered(s, s)
    BY DEF Altered
  <2> QED BY <1>1, <2>1, <2>2 DEF Purged
<1>2. CASE ~UnitFits(t, Val(s, "class"), Val(s, "family"), Val(s, "type"), Val(s, "unit"))
  <2>1. x = Unseat(s, "unit") /\ ~AllFit(s, t)
    BY <1>0, <1>2, CheckedUnit DEF AllFit
  <2>2. /\ Good(x) /\ Altered(s, x) /\ x["unit"] = Missing
        /\ \A k \in {"class", "family", "type"} : x[k] = s[k]
    BY <1>0, <2>1, UnseatFacts, KeysAre
  <2>3. /\ Val(x, "unit") = None
        /\ \A k \in {"class", "family", "type"} :
             /\ Val(x, k) = Val(s, k) /\ (Explicit(x, k) <=> Explicit(s, k))
             /\ Occupied(x, k) <=> Occupied(s, k)
    BY <2>2, SameSlot, GoneSlot
  <2>4. TypeStage(x, t)
    BY <2>2, <2>3 DEF TypeStage
  <2>5. UnitFits(t, Val(x, "class"), Val(x, "family"), Val(x, "type"), Val(x, "unit"))
    BY <2>3 DEF UnitFits
  <2> QED BY <2>1, <2>2, <2>4, <2>5 DEF Purged
<1> QED BY <1>1, <1>2

LEMMA InvalidateFacts ==
  ASSUME NEW s, Good(s), NEW t \in Tasks
  PROVE  LET x == InvalidateStale(s, t)
         IN  /\ Purged(x, t) /\ Altered(s, x)
             /\ AllFit(s, t) => AllFit(x, t) /\ Extended(s, x)
<1> DEFINE a == Checked(s, "class", t)
           b == Checked(a, "family", t)
           c == Checked(b, "type", t)
           d == Checked(c, "unit", t)
<1>1. /\ ClassStage(a, t) /\ Altered(s, a)
      /\ AllFit(s, t) => a = s
  BY FirstStage
<1>2. /\ FamilyStage(b, t) /\ Altered(a, b)
      /\ AllFit(a, t) => AllFit(b, t) /\ Extended(a, b)
  BY <1>1, SecondStage
<1>3. /\ TypeStage(c, t) /\ Altered(b, c)
      /\ AllFit(b, t) => AllFit(c, t) /\ Extended(b, c)
  BY <1>2, ThirdStage
<1>4. /\ Purged(d, t) /\ Altered(c, d)
      /\ AllFit(c, t) => d = c
  BY <1>3, LastStage
<1>5. Altered(s, b)
  BY <1>1, <1>2, AlteredTwice
<1>6. Altered(s, c)
  BY <1>3, <1>5, AlteredTwice
<1>7. Altered(s, d)
  BY <1>4, <1>6, AlteredTwice
<1>8. AllFit(s, t) => AllFit(d, t) /\ Extended(s, d)
  <2> HAVE AllFit(s, t)
  <2>1. a = s /\ AllFit(b, t) /\ Extended(s, b)
    BY <1>1, <1>2
  <2>2. AllFit(c, t) /\ Extended(b, c)
    BY <1>3, <2>1
  <2> QED BY <1>4, <2>1, <2>2, ExtendedTwice
<1>9. InvalidateStale(s, t) = d
  BY DEF InvalidateStale
<1> QED BY <1>1, <1>2, <1>3, <1>4, <1>7, <1>8, <1>9

(*********************** filling in the ancestors ****************************)
(* The automatic choice leaves a settled selector alone; there is no gap when  *)
(* every selector above a valid one is settled.                                *)
Settled(s, k) == s[k].st \in {"invalid", "conflict"} \/ Val(s, k) # None
NoGap(s) ==
  \A j, k \in Selectors : Depth[j] < Depth[k] /\ Val(s, k) # None => Settled(s, j)

LEMMA ChosenSlot ==
  ASSUME NEW x, NEW k, NEW val, x[k] = Chosen(val), val # None
  PROVE  /\ Val(x, k) = val /\ IsAuto(x, k) /\ Settled(x, k)
         /\ ~Explicit(x, k) /\ Occupied(x, k)
BY SlotParts DEF Val, IsAuto, Settled, Explicit, Occupied, Chosen

LEMMA MaterialPoint ==
  ASSUME NEW s, Good(s), NEW line, line # None
  PROVE  LET m == FillAncestors(s, line)
         IN  /\ DOMAIN m = Keys
             /\ \A k \in {"class", "family", "type"} :
                  m[k] = IF s[k].st = "missing" /\ line[k] # None THEN Chosen(line[k]) ELSE s[k]
             /\ \A k \in {"unit", "depth", "start", "payload"} : m[k] = s[k]
<1> DEFINE f == [k \in Unfilled(s, line) |-> Chosen(line[k])]
           m == FillAncestors(s, line)
<1>1. m = Over(f, s)
  BY DEF FillAncestors
<1>2. DOMAIN m = Keys /\ \A k \in Keys : m[k] = IF k \in DOMAIN f THEN f[k] ELSE s[k]
  BY <1>1, OverPoint DEF Good
<1>3. \A k \in DOMAIN f : f[k] = Chosen(line[k])
  OBVIOUS
<1>4. \A k : k \in DOMAIN f <=> /\ k \in {"class", "family", "type"} /\ s[k].st = "missing"
                                /\ s[k].val = None /\ line[k] # None
  BY DEF Unfilled
<1>5. \A k \in {"class", "family", "type"} : s[k].st = "missing" => s[k].val = None
  BY KeysAre DEF Good, SlotOK
<1> HIDE DEF f, m
<1>6. \A k \in {"class", "family", "type"} :
         m[k] = IF s[k].st = "missing" /\ line[k] # None THEN Chosen(line[k]) ELSE s[k]
  BY <1>2, <1>3, <1>4, <1>5, KeysAre
<1>7. \A k \in {"unit", "depth", "start", "payload"} : m[k] = s[k]
  BY <1>2, <1>4, KeysAre
<1> QED BY <1>2, <1>6, <1>7 DEF m

LEMMA MaterializeFacts ==
  ASSUME ListedAgrees, NEW t \in Tasks, NEW s, Purged(s, t)
  PROVE  LET m == MaterializeAncestors(s, t)
         IN  /\ Good(m) /\ Altered(s, m) /\ Sound(m, t) /\ NoGap(m)
             /\ AllFit(s, t) => AllFit(m, t) /\ Extended(s, m)
<1> DEFINE c == Val(s, "class")
           f == Val(s, "family")
           v == Val(s, "type")
           w == Val(s, "unit")
           L == Canonical(Lineage(c, f, v, w), t)
           m == MaterializeAncestors(s, t)
<1>1. /\ Good(s) /\ TypeFits(t, c, f, v) /\ UnitFits(t, c, f, v, w)
      /\ Explicit(s, "class") => ClassFits(t, c)
      /\ Explicit(s, "family") => FamilyFits(t, c, f)
      /\ f # None => Occupied(s, "class")
      /\ v # None => Occupied(s, "family") /\ Occupied(s, "class")
  BY DEF Purged, TypeStage
<1>2. /\ c \in ClassValues /\ f \in Families \cup {None}
      /\ v \in Variants \cup {None} /\ w \in Units \cup {None}
  BY <1>1, ValuesOK
<1>3. m = FillAncestors(s, L)
  BY DEF MaterializeAncestors, Selected
<1>4. CASE L = None
  <2>1. m = s
    BY <1>3, <1>4 DEF FillAncestors
  <2>2. w = None /\ v = None
    BY <1>1, <1>2, <1>4, FittingHasALine
  <2>3. Sound(s, t)
    BY <1>1 DEF Sound
  <2>4. NoGap(s)
    <3>1. Occupied(s, "class") => Settled(s, "class")
      <4>1. s["class"].st # "candidate"
        BY <1>1, KeysAre DEF Good, SlotOK
      <4> QED BY <4>1 DEF Occupied, Settled, Val
    <3>2. \A j, k \in Selectors : Depth[j] < Depth[k] /\ Val(s, k) # None => j = "class" /\ k = "family"
      BY <2>2, KeysAre
    <3> QED BY <1>1, <3>1, <3>2 DEF NoGap
  <2>5. Altered(s, s) /\ Extended(s, s)
    BY DEF Altered, Extended
  <2> QED BY <1>1, <2>1, <2>3, <2>4, <2>5
<1>5. CASE L # None
  <2>1. OnFleet(L, t) /\ Covers(L, c, f, v, w)
    BY <1>2, <1>5, LineTells
  <2> HIDE DEF L
  <2>2. /\ DOMAIN m = Keys
        /\ \A k \in {"class", "family", "type"} :
             m[k] = IF s[k].st = "missing" /\ L[k] # None THEN Chosen(L[k]) ELSE s[k]
        /\ \A k \in {"unit", "depth", "start", "payload"} : m[k] = s[k]
    BY <1>1, <1>3, <1>5, MaterialPoint
  <2> HIDE DEF m
  <2>3. /\ L["class"] = L.class /\ L["family"] = L.family /\ L["type"] = L.type
        /\ L.class \in Classes /\ L.class # None
        /\ L.family # None => L.family \in Families
        /\ L.type # None => L.type \in Variants
    BY <2>1, AdmittedDomain, NodesAreNamed DEF OnFleet, Open
  <2>4. \A k \in {"class", "family", "type"} :
          /\ m[k] = s[k] \/ (m[k] = Chosen(L[k]) /\ L[k] # None /\ s[k].st = "missing")
          /\ L[k] # None => Settled(m, k)
    <3> TAKE k \in {"class", "family", "type"}
    <3>1. m[k] = s[k] \/ (m[k] = Chosen(L[k]) /\ L[k] # None /\ s[k].st = "missing")
      BY <2>2
    <3>2. ASSUME L[k] # None PROVE Settled(m, k)
      <4>1. CASE s[k].st = "missing"
        BY <2>2, <3>2, <4>1, ChosenSlot
      <4>2. CASE s[k].st = "valid"
        <5>1. Val(s, k) # None /\ m[k] = s[k]
          BY <1>1, <2>2, <4>2, KeysAre DEF Good, SlotOK, Val
        <5> QED BY <5>1, SameSlot DEF Settled
      <4>3. CASE s[k].st \in {"invalid", "conflict"}
        <5>1. m[k] = s[k]
          BY <2>2, <4>3
        <5> QED BY <4>3, <5>1 DEF Settled
      <4>4. s[k].st \in {"missing", "valid", "invalid", "conflict"}
        BY <1>1, KeysAre DEF Good, SlotOK, States
      <4> QED BY <4>1, <4>2, <4>3, <4>4
    <3> QED BY <3>1, <3>2
  <2>5. Good(m)
    <3>1. SlotOK("class", Chosen(L.class))
      BY <2>3, SlotParts DEF SlotOK, Chosen, States, Sources, ClassValues
    <3>2. L.family # None => SlotOK("family", Chosen(L.family))
      BY <2>3, SlotParts DEF SlotOK, Chosen, States, Sources
    <3>3. L.type # None => SlotOK("type", Chosen(L.type))
      BY <2>3, SlotParts DEF SlotOK, Chosen, States, Sources
    <3>4. \A k \in {"class", "family", "type"} : SlotOK(k, m[k])
      BY <1>1, <2>3, <2>4, <3>1, <3>2, <3>3, KeysAre DEF Good
    <3> QED BY <1>1, <2>2, <3>4, KeysAre DEF Good
  <2>8. Altered(s, m)
    <3>1. \A k \in Selectors : m[k] = s[k] \/ IsAuto(m, k)
      BY <2>2, <2>4, ChosenSlot, KeysAre
    <3> QED BY <2>2, <3>1 DEF Altered
  <2>9. /\ Val(m, "class") # None => ClassId(Val(m, "class")) = L.class
        /\ Val(m, "family") # None => Val(m, "family") = L.family
        /\ Val(m, "type") # None => Val(m, "type") = L.type
        /\ Val(m, "unit") = L.unit
    <3>1. ClassId(L.class) = L.class
      BY <2>3, ClassIds
    <3>2. \A k \in {"class", "family", "type"} : Val(m, k) = Val(s, k) \/ Val(m, k) = L[k]
      BY <2>4, SameSlot, ChosenSlot
    <3>3. Val(m, "unit") = w
      BY <2>2, SameSlot
    <3>4. /\ c # None => ClassId(c) = L.class
          /\ f # None => f = L.family
          /\ v # None => v = L.type
          /\ w = L.unit
      BY <2>1 DEF Covers
    <3> QED BY <2>3, <3>1, <3>2, <3>3, <3>4
  <2>10. AllFit(m, t)
    <3>1. ClassFits(t, Val(m, "class"))
      BY <2>1, <2>9 DEF ClassFits, OnFleet
    <3>2. FamilyFits(t, Val(m, "class"), Val(m, "family"))
      BY <2>1, <2>9 DEF FamilyFits, OnFleet
    <3>3. TypeFits(t, Val(m, "class"), Val(m, "family"), Val(m, "type"))
      BY <2>1, <2>9 DEF TypeFits, OnFleet
    <3>4. UnitFits(t, Val(m, "class"), Val(m, "family"), Val(m, "type"), Val(m, "unit"))
      BY <2>1, <2>9 DEF UnitFits, OnFleet
    <3> QED BY <3>1, <3>2, <3>3, <3>4 DEF AllFit
  <2>11. Sound(m, t)
    BY <2>10 DEF AllFit, Sound
  <2>12. NoGap(m)
    <3>2. Settled(m, "class")
      BY <2>3, <2>4
    <3>5. Val(m, "type") # None => Settled(m, "family")
      <4> HAVE Val(m, "type") # None
      <4>1. L.type # None /\ L.family # None
        BY <2>1, <2>9 DEF OnFleet
      <4> QED BY <2>3, <2>4, <4>1
    <3>6. Val(m, "unit") # None => Settled(m, "family") /\ Settled(m, "type")
      <4> HAVE Val(m, "unit") # None
      <4>1. L.unit # None /\ L.type # None /\ L.family # None
        BY <2>1, <2>9 DEF OnFleet
      <4> QED BY <2>3, <2>4, <4>1
    <3> QED BY <3>2, <3>5, <3>6, KeysAre DEF NoGap
  <2>13. Extended(s, m)
    <3>1. \A k \in Fields : m[k] = s[k]
      BY <2>2 DEF Fields
    <3>2. \A k \in Selectors : Val(s, k) # None => m[k] = s[k]
      <4>1. \A k : Val(s, k) # None => s[k].st # "missing"
        BY DEF Val
      <4> QED BY <2>2, <2>4, <4>1, KeysAre
    <3>3. ASSUME NEW k \in Selectors, Val(m, k) # None, Val(s, k) = None
          PROVE  IsAuto(m, k) /\ \E j \in Selectors : Depth[k] <= Depth[j] /\ Val(s, j) # None
      <4>1. m[k] # s[k]
        BY <3>3, SameSlot
      <4>2. k \in {"class", "family", "type"} /\ m[k] = Chosen(L[k]) /\ L[k] # None
        BY <2>2, <2>4, <4>1, KeysAre
      <4>3. IsAuto(m, k)
        BY <4>2, ChosenSlot
      <4>4. CASE k = "class"
        <5>1. c # None \/ f # None \/ v # None \/ w # None
          BY <2>1 DEF Covers
        <5> QED BY <4>3, <4>4, <5>1, KeysAre
      <4>5. CASE k = "family"
        <5>1. f # None \/ v # None \/ w # None
          BY <2>1, <2>3, <4>2, <4>5 DEF Covers
        <5> QED BY <4>3, <4>5, <5>1, KeysAre
      <4>6. CASE k = "type"
        <5>1. v # None \/ w # None
          BY <2>1, <2>3, <4>2, <4>6 DEF Covers
        <5> QED BY <4>3, <4>6, <5>1, KeysAre
      <4> QED BY <4>2, <4>4, <4>5, <4>6
    <3>4. s["type"].st # "missing" => m["type"] = s["type"]
      BY <2>2
    <3> QED BY <3>1, <3>2, <3>3, <3>4 DEF Extended
  <2> QED BY <2>5, <2>8, <2>10, <2>11, <2>12, <2>13 DEF m
<1> QED BY <1>4, <1>5

(************************ one candidate, one robot ***************************)
(* A selector the automatic choice binds was the only one its domain d left.   *)
Bound(s, k, d, dn) ==
  CASE k = "class" -> ClassesOf(d) = {ClassId(Val(s, "class"))}
    [] k = "family" -> {f \in FamiliesOf(d) : ClassOf[f] = ClassId(Val(s, "class"))}
                         = {Val(s, "family")}
    [] k = "type" -> /\ {v \in d : FamilyOf[v] = Val(s, "family")} = {Val(s, "type")}
                     /\ ClassOf[Val(s, "family")] = ClassId(Val(s, "class"))
    [] OTHER -> /\ FreeUnits(Val(s, "type"), Val(s, "start") = "soon", dn) = {Val(s, "unit")}
                /\ Val(s, "type") \in d /\ FamilyOf[Val(s, "type")] = Val(s, "family")
                /\ ClassOf[Val(s, "family")] = ClassId(Val(s, "class"))

LEMMA BoundIs ==
  ASSUME NEW s, NEW d, NEW dn
  PROVE  /\ Bound(s, "class", d, dn) <=> ClassesOf(d) = {ClassId(Val(s, "class"))}
         /\ Bound(s, "family", d, dn)
              <=> {f \in FamiliesOf(d) : ClassOf[f] = ClassId(Val(s, "class"))} = {Val(s, "family")}
         /\ Bound(s, "type", d, dn)
              <=> /\ {v \in d : FamilyOf[v] = Val(s, "family")} = {Val(s, "type")}
                  /\ ClassOf[Val(s, "family")] = ClassId(Val(s, "class"))
         /\ Bound(s, "unit", d, dn)
              <=> /\ FreeUnits(Val(s, "type"), Val(s, "start") = "soon", dn) = {Val(s, "unit")}
                  /\ Val(s, "type") \in d /\ FamilyOf[Val(s, "type")] = Val(s, "family")
                  /\ ClassOf[Val(s, "family")] = ClassId(Val(s, "class"))
BY DEF Bound

(* o is m with its open selectors bound, marked as exhausted or left open.     *)
Closed(m, o, d, dn) ==
  /\ Good(o)
  /\ \A k \in Fields : o[k] = m[k]
  /\ \A k \in Selectors :
       o[k] = m[k] \/ (~Settled(m, k) /\ (o[k] = Exhausted \/ (IsAuto(o, k) /\ Bound(o, k, d, dn))))

(* What may be a candidate of a level.                                         *)
CandidatesOK(k, C) ==
  /\ IsFiniteSet(C)
  /\ k = "class" => C \subseteq Classes
  /\ k = "family" => C \subseteq Families /\ C # {}
  /\ k = "type" => C \subseteq Variants /\ C # {}
  /\ k = "unit" => C \subseteq Units

LEMMA CollapsedIs ==
  ASSUME NEW s, Good(s), NEW k \in Selectors, NEW C, CandidatesOK(k, C)
  PROVE  LET x == Collapsed(s, k, C)
         IN  /\ Good(x) /\ \A j \in Keys : j # k => x[j] = s[j]
             /\ \/ x[k] = s[k]
                \/ ~Settled(s, k) /\ x[k] = Exhausted
                \/ ~Settled(s, k) /\ IsAuto(x, k) /\ C = {Node(k, Val(x, k))}
<1> DEFINE x == Collapsed(s, k, C)
           Name(one) == IF k = "class" THEN Label(one) ELSE one
<1>0. k \in Keys /\ DOMAIN s = Keys
  BY KeysAre DEF Good
<1>1. CASE Settled(s, k)
  <2>1. x = s
    BY <1>1 DEF Settled, Collapsed
  <2> QED BY <2>1
<1>2. CASE ~Settled(s, k) /\ C = {}
  <2>0. s[k].st \notin {"invalid", "conflict", "candidate"} /\ Val(s, k) = None
    BY <1>0, <1>2 DEF Settled, Good, SlotOK
  <2>1. x = [s EXCEPT ![k] = Exhausted]
    BY <1>2, <2>0 DEF Collapsed, Exhausted
  <2>2. DOMAIN x = Keys /\ x[k] = Exhausted /\ \A j \in Keys : j # k => x[j] = s[j]
    BY <1>0, <2>1
  <2>3. SlotOK(k, Exhausted)
    <3>1. k = "class" \/ k = "unit"
      BY <1>2, KeysAre DEF CandidatesOK
    <3> QED BY <3>1, SlotParts, ClassIds DEF SlotOK, Exhausted, States, Sources
  <2>4. Good(x)
    BY <2>2, <2>3 DEF Good
  <2> QED BY <1>2, <2>2, <2>4
<1>3. CASE ~Settled(s, k) /\ C # {} /\ Cardinality(C) = 1
  <2>0. s[k].st \notin {"invalid", "conflict", "candidate"} /\ Val(s, k) = None
    BY <1>0, <1>3 DEF Settled, Good, SlotOK
  <2>1. PICK one : C = {one}
    BY <1>3, FS_Singleton DEF CandidatesOK
  <2>2. one = CHOOSE y \in C : TRUE
    BY <2>1
  <2>3. x = [s EXCEPT ![k] = Chosen(Name(one))]
    BY <1>3, <2>0, <2>2 DEF Collapsed
  <2>4. DOMAIN x = Keys /\ x[k] = Chosen(Name(one)) /\ \A j \in Keys : j # k => x[j] = s[j]
    BY <1>0, <2>3
  <2>5. Name(one) # None /\ Node(k, Name(one)) = one /\ SlotOK(k, Chosen(Name(one)))
    <3>1. CASE k = "class"
      <4>1. one \in Classes /\ Name(one) = Label(one)
        BY <2>1, <3>1 DEF CandidatesOK
      <4>2. Name(one) # None /\ Node(k, Name(one)) = one /\ Name(one) \in ClassValues
        BY <3>1, <4>1, ClassIds DEF Node, ClassValues, Labels
      <4> QED BY <3>1, <4>2, SlotParts DEF SlotOK, Chosen, States, Sources
    <3>2. CASE k # "class"
      <4>1. /\ Name(one) = one /\ Node(k, Name(one)) = one
            /\ k = "family" => one \in Families
            /\ k = "type" => one \in Variants
            /\ k = "unit" => one \in Units
        BY <2>1, <3>2 DEF CandidatesOK, Node
      <4>2. one # None
        BY <3>2, <4>1, KeysAre, NodesAreNamed
      <4> QED BY <3>2, <4>1, <4>2, SlotParts DEF SlotOK, Chosen, States, Sources
    <3> QED BY <3>1, <3>2
  <2> HIDE DEF x, Name
  <2>6. IsAuto(x, k) /\ C = {Node(k, Val(x, k))}
    BY <2>1, <2>4, <2>5, ChosenSlot
  <2>7. Good(x)
    BY <2>4, <2>5 DEF Good
  <2> QED BY <1>3, <2>4, <2>6, <2>7 DEF x
<1>4. CASE ~Settled(s, k) /\ C # {} /\ Cardinality(C) # 1
  <2>0. s[k].st \notin {"invalid", "conflict", "candidate"} /\ Val(s, k) = None
    BY <1>0, <1>4 DEF Settled, Good, SlotOK
  <2>1. x = s
    BY <1>4, <2>0 DEF Collapsed
  <2> QED BY <2>1
<1> QED BY <1>1, <1>2, <1>3, <1>4

LEMMA BoundStays ==
  ASSUME NEW x, NEW y, NEW k \in Selectors, NEW d, NEW dn, x["start"] = y["start"],
         \A j \in Selectors : Depth[j] <= Depth[k] => y[j] = x[j], Bound(x, k, d, dn)
  PROVE  Bound(y, k, d, dn)
<1>1. \A j \in Selectors : Depth[j] <= Depth[k] => Val(y, j) = Val(x, j)
  BY SameSlot
<1>2. Val(y, "start") = Val(x, "start")
  BY SameSlot
<1>3. CASE k = "class"
  <2>1. Val(y, "class") = Val(x, "class")
    BY <1>1, <1>3, KeysAre
  <2> QED BY <1>3, <2>1, BoundIs
<1>4. CASE k = "family"
  <2>1. Val(y, "class") = Val(x, "class") /\ Val(y, "family") = Val(x, "family")
    BY <1>1, <1>4, KeysAre
  <2> QED BY <1>4, <2>1, BoundIs
<1>5. CASE k = "type"
  <2>1. /\ Val(y, "class") = Val(x, "class") /\ Val(y, "family") = Val(x, "family")
        /\ Val(y, "type") = Val(x, "type")
    BY <1>1, <1>5, KeysAre
  <2> QED BY <1>5, <2>1, BoundIs
<1>6. CASE k = "unit"
  <2>1. /\ Val(y, "class") = Val(x, "class") /\ Val(y, "family") = Val(x, "family")
        /\ Val(y, "type") = Val(x, "type") /\ Val(y, "unit") = Val(x, "unit")
    BY <1>1, <1>6, KeysAre
  <2> QED BY <1>2, <1>6, <2>1, BoundIs
<1> QED BY <1>3, <1>4, <1>5, <1>6, KeysAre

LEMMA NextLevel ==
  ASSUME NEW m, NEW s, NEW d, NEW dn, Closed(m, s, d, dn), NEW k \in Selectors,
         \A j \in Selectors : Depth[k] <= Depth[j] => s[j] = m[j],
         NEW C, CandidatesOK(k, C),
         \A x : /\ x = Collapsed(s, k, C)
                /\ \A j \in Keys : j # k => x[j] = s[j]
                /\ C = {Node(k, Val(x, k))}
                => Bound(x, k, d, dn)
  PROVE  LET x == Collapsed(s, k, C)
         IN  /\ Closed(m, x, d, dn)
             /\ \A j \in Selectors : Depth[k] < Depth[j] => x[j] = m[j]
<1> DEFINE x == Collapsed(s, k, C)
<1>1. Good(s) /\ \A j \in Fields : s[j] = m[j]
  BY DEF Closed
<1>2. /\ Good(x) /\ \A j \in Keys : j # k => x[j] = s[j]
      /\ \/ x[k] = s[k]
         \/ ~Settled(s, k) /\ x[k] = Exhausted
         \/ ~Settled(s, k) /\ IsAuto(x, k) /\ C = {Node(k, Val(x, k))}
  BY <1>1, CollapsedIs
<1>3. C = {Node(k, Val(x, k))} => Bound(x, k, d, dn)
  BY <1>2
<1> HIDE DEF x
<1>4. \A j \in Selectors : Depth[k] < Depth[j] => x[j] = m[j]
  <2>1. \A j \in Selectors : Depth[k] < Depth[j] => j # k /\ Depth[k] <= Depth[j]
    BY KeysAre
  <2> QED BY <1>2, <2>1, KeysAre
<1>5. s[k] = m[k] /\ (Settled(s, k) <=> Settled(m, k))
  <2>1. Depth[k] <= Depth[k]
    BY KeysAre
  <2> QED BY <2>1, SameSlot DEF Settled
<1>6. \A j \in Fields : x[j] = m[j]
  BY <1>1, <1>2, KeysAre DEF Fields
<1>7. ASSUME NEW j \in Selectors
      PROVE  x[j] = m[j] \/ (~Settled(m, j) /\ (x[j] = Exhausted \/ (IsAuto(x, j) /\ Bound(x, j, d, dn))))
  <2>1. CASE j = k
    BY <1>2, <1>3, <1>5, <2>1
  <2>2. CASE j # k
    <3>1. x[j] = s[j]
      BY <1>2, <2>2, KeysAre
    <3>2. CASE s[j] = m[j]
      BY <3>1, <3>2
    <3>3. CASE s[j] # m[j]
      <4>1. ~Settled(m, j) /\ (s[j] = Exhausted \/ (IsAuto(s, j) /\ Bound(s, j, d, dn)))
        BY <3>3 DEF Closed
      <4>2. \A i \in Selectors : Depth[i] <= Depth[j] => x[i] = s[i]
        <5>1. Depth[j] < Depth[k]
          BY <3>3, KeysAre
        <5>2. \A i \in Selectors : Depth[i] <= Depth[j] => i # k
          BY <5>1, KeysAre
        <5> QED BY <1>2, <5>2, KeysAre
      <4>3. s["start"] = x["start"]
        BY <1>2, KeysAre
      <4>4. Bound(s, j, d, dn) => Bound(x, j, d, dn)
        BY <4>2, <4>3, BoundStays
      <4>5. IsAuto(s, j) => IsAuto(x, j)
        BY <3>1 DEF IsAuto
      <4> QED BY <3>1, <4>1, <4>4, <4>5
    <3> QED BY <3>2, <3>3
  <2> QED BY <2>1, <2>2
<1>8. Closed(m, x, d, dn)
  BY <1>2, <1>6, <1>7 DEF Closed
<1> QED BY <1>4, <1>8 DEF x

LEMMA CandidatesAre ==
  ASSUME NEW d, d \subseteq Variants, NEW s, NEW dn
  PROVE  /\ CandidatesOK("class", ClassesOf(d))
         /\ LET c == ClassId(Val(s, "class"))
            IN  c \in ClassesOf(d)
                  => CandidatesOK("family", {f \in FamiliesOf(d) : ClassOf[f] = c})
         /\ LET f == Val(s, "family")
            IN  f \in FamiliesOf(d) => CandidatesOK("type", {v \in d : FamilyOf[v] = f})
         /\ LET v == Val(s, "type")
            IN  CandidatesOK("unit", FreeUnits(v, Val(s, "start") = "soon", dn))
<1>1. FamiliesOf(d) \subseteq Families /\ ClassesOf(d) \subseteq Classes
  BY FleetIsATree DEF FamiliesOf, ClassesOf
<1>2. /\ \A S : S \subseteq Classes => IsFiniteSet(S)
      /\ \A S : S \subseteq Families => IsFiniteSet(S)
      /\ \A S : S \subseteq Variants => IsFiniteSet(S)
      /\ \A S : S \subseteq Units => IsFiniteSet(S)
  <2>1. IsFiniteSet(Classes) /\ IsFiniteSet(Families) /\ IsFiniteSet(Variants) /\ IsFiniteSet(Units)
    BY FleetIsATree
  <2> QED BY <2>1, FS_Subset
<1>3. CandidatesOK("class", ClassesOf(d))
  BY <1>1, <1>2 DEF CandidatesOK
<1>4. ASSUME NEW c, c \in ClassesOf(d)
      PROVE  CandidatesOK("family", {f \in FamiliesOf(d) : ClassOf[f] = c})
  <2>1. \E f \in FamiliesOf(d) : ClassOf[f] = c
    BY <1>4 DEF ClassesOf
  <2>2. {f \in FamiliesOf(d) : ClassOf[f] = c} \subseteq Families
    BY <1>1
  <2>3. {f \in FamiliesOf(d) : ClassOf[f] = c} # {}
    BY <2>1
  <2> QED BY <1>2, <2>2, <2>3 DEF CandidatesOK
<1>5. ASSUME NEW f, f \in FamiliesOf(d) PROVE CandidatesOK("type", {v \in d : FamilyOf[v] = f})
  <2>1. \E v \in d : FamilyOf[v] = f
    BY <1>5 DEF FamiliesOf
  <2>2. {v \in d : FamilyOf[v] = f} \subseteq Variants /\ {v \in d : FamilyOf[v] = f} # {}
    BY <2>1
  <2> QED BY <1>2, <2>2 DEF CandidatesOK
<1>6. ASSUME NEW v, NEW soon PROVE CandidatesOK("unit", FreeUnits(v, soon, dn))
  <2>1. FreeUnits(v, soon, dn) \subseteq Units
    BY DEF FreeUnits
  <2> QED BY <1>2, <2>1 DEF CandidatesOK
<1> QED BY <1>3, <1>4, <1>5, <1>6

LEMMA CollapseIs ==
  ASSUME NEW m, Good(m), NEW d, d \subseteq Variants, NEW dn
  PROVE  Closed(m, CollapseLevels(m, d, dn), d, dn)
<1>1. Closed(m, m, d, dn)
  BY DEF Closed
<1> DEFINE a == Collapsed(m, "class", ClassesOf(d))
<1>2. Closed(m, a, d, dn) /\ a["family"] = m["family"] /\ a["type"] = m["type"] /\ a["unit"] = m["unit"]
  <2>1. CandidatesOK("class", ClassesOf(d))
    BY CandidatesAre
  <2>2. \A x : ClassesOf(d) = {Node("class", Val(x, "class"))} => Bound(x, "class", d, dn)
    BY BoundIs DEF Node
  <2>3. Closed(m, a, d, dn) /\ \A j \in Selectors : Depth["class"] < Depth[j] => a[j] = m[j]
    BY <1>1, <2>1, <2>2, NextLevel, KeysAre
  <2> QED BY <2>3, KeysAre
<1> DEFINE c == ClassId(Val(a, "class"))
           F == {f \in FamiliesOf(d) : ClassOf[f] = c}
           b == Collapsed(a, "family", F)
<1>3. ASSUME c \in ClassesOf(d)
      PROVE  /\ Closed(m, b, d, dn) /\ b["type"] = m["type"] /\ b["unit"] = m["unit"]
             /\ b["class"] = a["class"]
  <2>1. CandidatesOK("family", F)
    BY <1>3, CandidatesAre
  <2>2. ASSUME NEW x, \A j \in Keys : j # "family" => x[j] = a[j],
               F = {Node("family", Val(x, "family"))}
        PROVE  Bound(x, "family", d, dn)
    <3>1. Val(x, "class") = Val(a, "class")
      BY <2>2, KeysAre, SameSlot
    <3> QED BY <2>2, <3>1, BoundIs DEF Node
  <2>3. \A j \in Selectors : Depth["family"] <= Depth[j] => a[j] = m[j]
    BY <1>2, KeysAre
  <2> HIDE DEF a, c, F
  <2>4. Closed(m, b, d, dn) /\ \A j \in Selectors : Depth["family"] < Depth[j] => b[j] = m[j]
    BY <1>2, <2>1, <2>2, <2>3, NextLevel, KeysAre
  <2>5. b["class"] = a["class"]
    BY <1>2, <2>1, CollapsedIs, KeysAre DEF Closed
  <2> QED BY <2>4, <2>5, KeysAre
<1> DEFINE f == Val(b, "family")
           V == {v \in d : FamilyOf[v] = f}
           e == Collapsed(b, "type", V)
<1>4. ASSUME c \in ClassesOf(d), f \in FamiliesOf(d), ClassOf[f] = ClassId(Val(b, "class"))
      PROVE  /\ Closed(m, e, d, dn) /\ e["unit"] = m["unit"]
             /\ e["class"] = b["class"] /\ e["family"] = b["family"]
  <2>0. Closed(m, b, d, dn) /\ b["type"] = m["type"] /\ b["unit"] = m["unit"]
    BY <1>3, <1>4
  <2>1. CandidatesOK("type", V)
    BY <1>4, CandidatesAre
  <2>2. ASSUME NEW x, \A j \in Keys : j # "type" => x[j] = b[j],
               V = {Node("type", Val(x, "type"))}
        PROVE  Bound(x, "type", d, dn)
    <3>1. Val(x, "class") = Val(b, "class") /\ Val(x, "family") = f
      BY <2>2, KeysAre, SameSlot
    <3> QED BY <1>4, <2>2, <3>1, BoundIs DEF Node
  <2>3. \A j \in Selectors : Depth["type"] <= Depth[j] => b[j] = m[j]
    BY <2>0, KeysAre
  <2> HIDE DEF a, c, F, b, f, V
  <2>4. Closed(m, e, d, dn) /\ \A j \in Selectors : Depth["type"] < Depth[j] => e[j] = m[j]
    BY <2>0, <2>1, <2>2, <2>3, NextLevel, KeysAre
  <2>5. e["class"] = b["class"] /\ e["family"] = b["family"]
    BY <2>0, <2>1, CollapsedIs, KeysAre DEF Closed
  <2> QED BY <2>4, <2>5, KeysAre
<1> DEFINE v == Val(e, "type")
           W == FreeUnits(v, Val(e, "start") = "soon", dn)
           u == Collapsed(e, "unit", W)
<1>5. ASSUME c \in ClassesOf(d), f \in FamiliesOf(d), ClassOf[f] = ClassId(Val(b, "class")),
             v \in d, FamilyOf[v] = Val(e, "family")
      PROVE  Closed(m, u, d, dn)
  <2>0. Closed(m, e, d, dn) /\ e["unit"] = m["unit"]
        /\ ClassOf[Val(e, "family")] = ClassId(Val(e, "class"))
    <3>1. /\ Closed(m, e, d, dn) /\ e["unit"] = m["unit"]
          /\ e["class"] = b["class"] /\ e["family"] = b["family"]
      BY <1>4, <1>5
    <3> QED BY <1>5, <3>1, SameSlot
  <2>1. CandidatesOK("unit", W)
    BY CandidatesAre
  <2> HIDE DEF a, c, F, b, f, V, e
  <2>2. ASSUME NEW x, \A j \in Keys : j # "unit" => x[j] = e[j],
               W = {Node("unit", Val(x, "unit"))}
        PROVE  Bound(x, "unit", d, dn)
    <3>1. /\ Val(x, "class") = Val(e, "class") /\ Val(x, "family") = Val(e, "family")
          /\ Val(x, "type") = v /\ Val(x, "start") = Val(e, "start")
      BY <2>2, KeysAre, SameSlot
    <3> QED BY <1>5, <2>0, <2>2, <3>1, BoundIs DEF Node
  <2>3. \A j \in Selectors : Depth["unit"] <= Depth[j] => e[j] = m[j]
    BY <2>0, KeysAre
  <2> HIDE DEF v, W
  <2> QED BY <2>0, <2>1, <2>2, <2>3, NextLevel, KeysAre
<1>6. CollapseLevels(m, d, dn) = CollapseFamily(a, d, dn)
  BY DEF CollapseLevels
<1>7. CollapseFamily(a, d, dn) = IF c \notin ClassesOf(d) THEN a ELSE CollapseVariant(b, d, dn)
  BY DEF CollapseFamily
<1>8. CollapseVariant(b, d, dn)
        = IF f \notin FamiliesOf(d) \/ ClassOf[f] # ClassId(Val(b, "class")) THEN b
          ELSE CollapseUnit(e, d, dn)
  BY DEF CollapseVariant
<1>9. CollapseUnit(e, d, dn) = IF v \notin d \/ FamilyOf[v] # Val(e, "family") THEN e ELSE u
  BY DEF CollapseUnit
<1> HIDE DEF a, c, F, b, f, V, e, v, W, u
<1> QED BY <1>2, <1>3, <1>4, <1>5, <1>6, <1>7, <1>8, <1>9

LEMMA DomainShrinks ==
  ASSUME NEW t \in Tasks, NEW d, d \subseteq Open(t)
  PROVE  /\ d \subseteq Variants /\ FamiliesOf(d) \subseteq FamiliesOf(Open(t))
         /\ ClassesOf(d) \subseteq ListRobotClasses(t)
         /\ FamiliesOf(d) \subseteq Families /\ ClassesOf(d) \subseteq Classes
<1>1. d \subseteq Variants /\ FamiliesOf(d) \subseteq FamiliesOf(Open(t))
  BY DEF Open, Domain, FamiliesOf
<1>2. ClassesOf(d) \subseteq ListRobotClasses(t)
  BY <1>1 DEF ClassesOf, ListRobotClasses, Open
<1>3. FamiliesOf(d) \subseteq Families /\ ClassesOf(d) \subseteq Classes
  BY <1>1, FleetIsATree DEF FamiliesOf, ClassesOf
<1> QED BY <1>1, <1>2, <1>3

(* A selector that was bound fits, and so does what is above it.               *)
LEMMA BoundFits ==
  ASSUME NEW t \in Tasks, NEW d, d \subseteq Open(t), NEW o, NEW dn, NEW k \in Selectors,
         Bound(o, k, d, dn)
  PROVE  /\ \A j \in Selectors : Depth[j] < Depth[k] => Val(o, j) # None
         /\ k = "class" => ClassFits(t, Val(o, "class"))
         /\ k = "family" => FamilyFits(t, Val(o, "class"), Val(o, "family"))
         /\ k = "type" => /\ TypeFits(t, Val(o, "class"), Val(o, "family"), Val(o, "type"))
                          /\ Val(o, "type") \in d
         /\ k = "unit" => UnitFits(t, Val(o, "class"), Val(o, "family"), Val(o, "type"), Val(o, "unit"))
<1> DEFINE c == Val(o, "class")
           f == Val(o, "family")
           v == Val(o, "type")
           w == Val(o, "unit")
<1>0. c = None => ClassId(c) \notin Classes
  BY ClassIds, NodesAreNamed
<1>1. CASE k = "class"
  <2>1. ClassId(c) \in ClassesOf(d)
    BY <1>1, BoundIs
  <2>2. ClassFits(t, c)
    BY <2>1, DomainShrinks DEF ClassFits
  <2> QED BY <1>1, <2>2, KeysAre
<1>2. CASE k = "family"
  <2>1. f \in FamiliesOf(d) /\ ClassOf[f] = ClassId(c)
    BY <1>2, BoundIs
  <2>2. FamilyFits(t, c, f) /\ c # None
    BY <1>0, <2>1, DomainShrinks, NodesAreNamed DEF FamilyFits
  <2> QED BY <1>2, <2>2, KeysAre
<1>3. CASE k = "type"
  <2>1. v \in d /\ FamilyOf[v] = f /\ ClassOf[f] = ClassId(c)
    BY <1>3, BoundIs
  <2>2. TypeFits(t, c, f, v) /\ f # None /\ c # None
    BY <1>0, <2>1, DomainShrinks, NodesAreNamed DEF TypeFits
  <2> QED BY <1>3, <2>1, <2>2, KeysAre
<1>4. CASE k = "unit"
  <2>1. /\ w \in FreeUnits(v, Val(o, "start") = "soon", dn)
        /\ v \in d /\ FamilyOf[v] = f /\ ClassOf[f] = ClassId(c)
    BY <1>4, BoundIs
  <2>2. w \in Units /\ VariantOf[w] = v
    BY <2>1 DEF FreeUnits
  <2>3. UnitFits(t, c, f, v, w) /\ v # None /\ f # None /\ c # None
    BY <1>0, <2>1, <2>2, DomainShrinks, NodesAreNamed DEF UnitFits
  <2> QED BY <1>4, <2>3, KeysAre
<1> QED BY <1>1, <1>2, <1>3, <1>4, KeysAre

LEMMA ExhaustedSlot ==
  ASSUME NEW x, NEW k, x[k] = Exhausted
  PROVE  Val(x, k) = None /\ ~Held(x, k) /\ ~Explicit(x, k) /\ Settled(x, k)
BY SlotParts DEF Exhausted, Val, Held, Explicit, Settled

LEMMA ClosedFacts ==
  ASSUME NEW t \in Tasks, NEW d, d \subseteq Open(t), NEW m, Good(m), NoGap(m),
         NEW o, NEW dn, Closed(m, o, d, dn)
  PROVE  /\ Good(o) /\ NoGap(o) /\ Altered(m, o)
         /\ \A k \in Selectors : Val(m, k) # None => o[k] = m[k]
         /\ \A k \in Selectors : Val(o, k) # None => Val(o, k) = Val(m, k) \/ Bound(o, k, d, dn)
         /\ Sound(m, t) => Sound(o, t)
         /\ AllFit(m, t) => AllFit(o, t)
<1>1. /\ Good(o) /\ \A k \in Fields : o[k] = m[k]
      /\ \A k \in Selectors :
           o[k] = m[k] \/ (~Settled(m, k) /\ (o[k] = Exhausted \/ (IsAuto(o, k) /\ Bound(o, k, d, dn))))
  BY DEF Closed
<1>2. \A k \in Selectors : Settled(m, k) => o[k] = m[k]
  BY <1>1
<1>3. \A k \in Selectors : Val(m, k) # None => o[k] = m[k]
  BY <1>2 DEF Settled
<1>4. ASSUME NEW k \in Selectors, Val(o, k) # None
      PROVE  o[k] = m[k] \/ (IsAuto(o, k) /\ Bound(o, k, d, dn))
  BY <1>1, <1>4, ExhaustedSlot
<1>5. Altered(m, o)
  <2>1. \A k \in Selectors : o[k] = m[k] \/ o[k] = Exhausted \/ IsAuto(o, k)
    BY <1>1
  <2> QED BY <1>1, <2>1 DEF Altered, Fields
<1>6. \A k \in Selectors : Bound(o, k, d, dn)
        => \A j \in Selectors : Depth[j] < Depth[k] => Val(o, j) # None
  BY BoundFits
<1>7. ASSUME NEW k \in Selectors, Val(o, k) # None, o[k] = m[k], NEW j \in Selectors, Depth[j] < Depth[k]
      PROVE  o[j] = m[j]
  <2>1. Val(m, k) # None
    BY <1>7, SameSlot
  <2> QED BY <1>2, <1>7, <2>1 DEF NoGap
<1>8. NoGap(o)
  <2> SUFFICES ASSUME NEW k \in Selectors, Val(o, k) # None, NEW j \in Selectors, Depth[j] < Depth[k]
               PROVE  Settled(o, j)
    BY DEF NoGap
  <2>1. CASE o[k] = m[k]
    <3>1. o[j] = m[j] /\ Val(m, k) # None
      BY <1>7, <2>1, SameSlot
    <3>2. Settled(m, j)
      BY <3>1 DEF NoGap
    <3> QED BY <3>1, <3>2, SameSlot DEF Settled
  <2>2. CASE Bound(o, k, d, dn)
    BY <1>6, <2>2 DEF Settled
  <2> QED BY <1>4, <2>1, <2>2
<1>10. Sound(m, t) => Sound(o, t)
  <2> HAVE Sound(m, t)
  <2>1. ASSUME NEW k \in Selectors, Explicit(o, k)
        PROVE  o[k] = m[k] /\ Explicit(m, k)
    BY <1>5, <2>1, AlteredExplicit
  <2>2. ASSUME NEW k \in Selectors, Explicit(o, k)
        PROVE  \A j \in Selectors : Depth[j] <= Depth[k] => Val(o, j) = Val(m, j)
    <3>1. o[k] = m[k] /\ Val(o, k) # None
      BY <2>1, <2>2 DEF Explicit
    <3> TAKE j \in Selectors
    <3> HAVE Depth[j] <= Depth[k]
    <3>2. j = k \/ Depth[j] < Depth[k]
      BY KeysAre
    <3>3. o[j] = m[j]
      BY <1>7, <3>1, <3>2
    <3> QED BY <3>3, SameSlot
  <2> QED BY <2>1, <2>2, KeysAre DEF Sound
<1>11. AllFit(m, t) => AllFit(o, t)
  <2> HAVE AllFit(m, t)
  <2>1. ASSUME NEW k \in Selectors, Val(o, k) # None, o[k] = m[k]
        PROVE  \A j \in Selectors : Depth[j] <= Depth[k] => Val(o, j) = Val(m, j)
    <3> TAKE j \in Selectors
    <3> HAVE Depth[j] <= Depth[k]
    <3>2. j = k \/ Depth[j] < Depth[k]
      BY KeysAre
    <3>3. o[j] = m[j]
      BY <1>7, <2>1, <3>2
    <3> QED BY <3>3, SameSlot
  <2>2. ClassFits(t, Val(o, "class"))
    <3>1. CASE Val(o, "class") # None /\ o["class"] = m["class"]
      BY <2>1, <3>1, KeysAre DEF AllFit
    <3>2. CASE Bound(o, "class", d, dn)
      BY <3>2, BoundFits, KeysAre
    <3> QED BY <1>4, <3>1, <3>2, KeysAre DEF ClassFits
  <2>3. FamilyFits(t, Val(o, "class"), Val(o, "family"))
    <3>1. CASE Val(o, "family") # None /\ o["family"] = m["family"]
      BY <2>1, <3>1, KeysAre DEF AllFit
    <3>2. CASE Bound(o, "family", d, dn)
      BY <3>2, BoundFits, KeysAre
    <3> QED BY <1>4, <3>1, <3>2, KeysAre DEF FamilyFits
  <2>4. TypeFits(t, Val(o, "class"), Val(o, "family"), Val(o, "type"))
    <3>1. CASE Val(o, "type") # None /\ o["type"] = m["type"]
      BY <2>1, <3>1, KeysAre DEF AllFit
    <3>2. CASE Bound(o, "type", d, dn)
      BY <3>2, BoundFits, KeysAre
    <3> QED BY <1>4, <3>1, <3>2, KeysAre DEF TypeFits
  <2>5. UnitFits(t, Val(o, "class"), Val(o, "family"), Val(o, "type"), Val(o, "unit"))
    <3>1. CASE Val(o, "unit") # None /\ o["unit"] = m["unit"]
      BY <2>1, <3>1, KeysAre DEF AllFit
    <3>2. CASE Bound(o, "unit", d, dn)
      BY <3>2, BoundFits, KeysAre
    <3> QED BY <1>4, <3>1, <3>2, KeysAre DEF UnitFits
  <2> QED BY <2>2, <2>3, <2>4, <2>5 DEF AllFit
<1>12. \A k \in Selectors : Val(o, k) # None => Val(o, k) = Val(m, k) \/ Bound(o, k, d, dn)
  BY <1>4, SameSlot
<1> QED BY <1>1, <1>3, <1>5, <1>8, <1>10, <1>11, <1>12

(********************** the automatic choice as a whole **********************)
LEMMA ResetAltered ==
  ASSUME NEW s, Good(s)
  PROVE  Altered(s, ResetRecomputed(s))
<1> DEFINE Reset == {k \in Selectors : \/ s[k].st = "invalid" /\ s[k].src = "exhausted"
                                       \/ IsAuto(s, k) /\ Depth[k] > DeepestExplicit(s)}
           r == ResetRecomputed(s)
<1>1. r = Clear(s, Reset)
  BY DEF ResetRecomputed
<1>2. \A k \in Keys : r[k] = IF k \in Reset THEN Missing ELSE s[k]
  BY <1>1, ClearPoint DEF Good
<1>3. \A k \in Fields : k \notin Reset /\ k \in Keys
  BY KeysAre DEF Fields
<1> HIDE DEF r, Reset
<1>4. \A k \in Selectors : r[k] = s[k] \/ r[k] = Missing
  BY <1>2, KeysAre
<1>5. \A k \in Fields : r[k] = s[k]
  BY <1>2, <1>3
<1> QED BY <1>4, <1>5 DEF Altered, Fields, r

(* Whatever draft it is given, what was told and is still there fits.          *)
LEMMA CollapseSound ==
  ASSUME ListedAgrees, NEW t \in Tasks, NEW s, Good(s), NEW dn
  PROVE  LET o == AutoCollapse(s, t, dn)
         IN  Good(o) /\ NoGap(o) /\ Altered(s, o) /\ Sound(o, t)
<1> DEFINE r == ResetRecomputed(s)
           q == InvalidateStale(r, t)
           m == MaterializeAncestors(q, t)
           d == Domain(t, Need(s))
           o == CollapseLevels(m, d, dn)
<1>1. Good(r) /\ Altered(s, r)
  BY ResetFacts, ResetAltered
<1>2. Purged(q, t) /\ Altered(r, q)
  BY <1>1, InvalidateFacts
<1>3. Good(m) /\ Altered(q, m) /\ Sound(m, t) /\ NoGap(m)
  BY <1>2, MaterializeFacts
<1>4. d \subseteq Open(t) /\ d \subseteq Variants
  BY AdmittedDomain DEF Open
<1>5. Closed(m, o, d, dn)
  BY <1>3, <1>4, CollapseIs
<1>6. Good(o) /\ NoGap(o) /\ Altered(m, o) /\ Sound(o, t)
  BY <1>3, <1>4, <1>5, ClosedFacts
<1>7. Altered(s, q)
  BY <1>1, <1>2, AlteredTwice
<1>8. Altered(s, m)
  BY <1>3, <1>7, AlteredTwice
<1>9. Altered(s, o)
  BY <1>6, <1>8, AlteredTwice
<1>10. AutoCollapse(s, t, dn) = o
  BY NamesAreApart DEF AutoCollapse
<1> QED BY <1>6, <1>9, <1>10

(* What is kept from a sound draft is at or above an explicit selector that    *)
(* fits, and so all of it fits.                                                *)
LEMMA SoundReset ==
  ASSUME NEW t \in Tasks, NEW s, Good(s), Sound(s, t)
  PROVE  AllFit(ResetRecomputed(s), t)
<1> DEFINE r == ResetRecomputed(s)
           c == Val(r, "class")
           f == Val(r, "family")
           v == Val(r, "type")
           w == Val(r, "unit")
<1>1. /\ \A k \in Selectors : Explicit(s, k) => r[k] = s[k]
      /\ \A k \in Selectors : Val(r, k) # None => r[k] = s[k] /\ Firm(s, k)
      /\ Good(r)
  BY ResetFacts
<1> HIDE DEF r
<1>2. \A k \in Selectors : Val(r, k) # None => Val(s, k) = Val(r, k)
  BY <1>1, SameSlot
<1>3. \A k \in Selectors : Explicit(s, k) => Val(r, k) = Val(s, k)
  BY <1>1, SameSlot
<1>4. /\ Explicit(s, "class") => ClassFits(t, c)
      /\ Explicit(s, "family") => FamilyFits(t, c, f) /\ f # None
      /\ Explicit(s, "type") => TypeFits(t, c, f, v) /\ v # None
      /\ Explicit(s, "unit") => UnitFits(t, c, f, v, w) /\ w # None
  <2>1. \A k \in Selectors : Explicit(s, k) => Val(r, k) # None
    BY <1>3 DEF Explicit
  <2>2. /\ c # None => Val(s, "class") = c
        /\ f # None => Val(s, "family") = f
        /\ v # None => Val(s, "type") = v
        /\ w # None => Val(s, "unit") = w
    BY <1>2, KeysAre
  <2>3. Explicit(s, "class") => ClassFits(t, c)
    BY <1>3, KeysAre DEF Sound
  <2>4. Explicit(s, "family") => FamilyFits(t, c, f) /\ f # None
    BY <2>1, <2>2, KeysAre DEF Sound, FamilyFits
  <2>5. Explicit(s, "type") => TypeFits(t, c, f, v) /\ v # None
    BY <2>1, <2>2, KeysAre DEF Sound, TypeFits
  <2>6. Explicit(s, "unit") => UnitFits(t, c, f, v, w) /\ w # None
    BY <2>1, <2>2, KeysAre DEF Sound, UnitFits
  <2> QED BY <2>3, <2>4, <2>5, <2>6
<1>5. /\ v \in Open(t) => FamilyOf[v] \in FamiliesOf(Open(t))
      /\ w # None /\ VariantOf[w] \in Open(t) => FamilyOf[VariantOf[w]] \in FamiliesOf(Open(t))
      /\ \A g \in FamiliesOf(Open(t)) : ClassOf[g] \in ListRobotClasses(t)
  BY AdmittedDomain DEF Open
<1>6. ASSUME w # None PROVE UnitFits(t, c, f, v, w)
  <2>1. Firm(s, "unit")
    BY <1>1, <1>6, KeysAre
  <2>2. Explicit(s, "unit")
    BY <2>1, KeysAre DEF Firm
  <2> QED BY <1>4, <2>2
<1>7. ASSUME v # None PROVE TypeFits(t, c, f, v)
  <2>1. Firm(s, "type")
    BY <1>1, <1>7, KeysAre
  <2>2. Explicit(s, "type") \/ Explicit(s, "unit")
    BY <2>1, KeysAre DEF Firm
  <2>3. UnitFits(t, c, f, v, w) /\ w # None => TypeFits(t, c, f, v)
    BY <1>7 DEF UnitFits, TypeFits
  <2> QED BY <1>4, <2>2, <2>3
<1>8. ASSUME f # None PROVE FamilyFits(t, c, f)
  <2>1. Firm(s, "family")
    BY <1>1, <1>8, KeysAre
  <2>2. Explicit(s, "family") \/ Explicit(s, "type") \/ Explicit(s, "unit")
    BY <2>1, KeysAre DEF Firm
  <2>3. UnitFits(t, c, f, v, w) /\ w # None => FamilyFits(t, c, f)
    BY <1>5, <1>8 DEF UnitFits, FamilyFits
  <2>4. TypeFits(t, c, f, v) /\ v # None => FamilyFits(t, c, f)
    BY <1>5, <1>8 DEF TypeFits, FamilyFits
  <2> QED BY <1>4, <2>2, <2>3, <2>4
<1>9. ASSUME c # None PROVE ClassFits(t, c)
  <2>1. Firm(s, "class")
    BY <1>1, <1>9, KeysAre
  <2>2. Explicit(s, "class") \/ Explicit(s, "family") \/ Explicit(s, "type") \/ Explicit(s, "unit")
    BY <2>1, KeysAre DEF Firm
  <2>3. UnitFits(t, c, f, v, w) /\ w # None => ClassFits(t, c)
    BY <1>5, <1>9 DEF UnitFits, ClassFits
  <2>4. TypeFits(t, c, f, v) /\ v # None => ClassFits(t, c)
    BY <1>5, <1>9 DEF TypeFits, ClassFits
  <2>5. FamilyFits(t, c, f) /\ f # None => ClassFits(t, c)
    BY <1>5, <1>9 DEF FamilyFits, ClassFits
  <2> QED BY <1>4, <2>2, <2>3, <2>4, <2>5
<1> QED BY <1>6, <1>7, <1>8, <1>9 DEF AllFit, UnitFits, TypeFits, FamilyFits, ClassFits, r

(* Given a sound draft it drops nothing that was told, all it leaves fits, and *)
(* what it binds below the deepest explicit selector it was forced to.         *)
LEMMA CollapseFits ==
  ASSUME ListedAgrees, NEW t \in Tasks, NEW s, Good(s), Sound(s, t), NEW dn
  PROVE  LET o == AutoCollapse(s, t, dn)
             d == Domain(t, Need(s))
         IN  /\ AllFit(o, t)
             /\ \A k \in Fields : o[k] = s[k]
             /\ \A k \in Selectors : Explicit(s, k) => o[k] = s[k]
             /\ \A k \in Selectors :
                  IsAuto(o, k) /\ Val(o, k) # None /\ ~Firm(o, k) => Bound(o, k, d, dn)
             /\ NoGap(s) /\ Val(o, "type") # None
                  => Val(o, "type") = Val(s, "type") \/ Val(o, "type") \in d
<1> DEFINE r == ResetRecomputed(s)
           q == InvalidateStale(r, t)
           m == MaterializeAncestors(q, t)
           d == Domain(t, Need(s))
           o == CollapseLevels(m, d, dn)
<1>1. /\ Good(r) /\ AllFit(r, t)
      /\ \A k \in Fields : r[k] = s[k]
      /\ \A k \in Selectors : Explicit(s, k) => r[k] = s[k]
      /\ \A k \in Selectors : Val(r, k) # None => r[k] = s[k] /\ Firm(s, k)
      /\ Val(r, "unit") # None /\ s["type"].st # "missing" => r["type"].st # "missing"
  BY ResetFacts, SoundReset
<1>2. Purged(q, t) /\ AllFit(q, t) /\ Extended(r, q)
  BY <1>1, InvalidateFacts
<1>3. Good(m) /\ NoGap(m) /\ AllFit(m, t) /\ Extended(q, m)
  BY <1>2, MaterializeFacts
<1>4. d \subseteq Open(t) /\ d \subseteq Variants
  BY AdmittedDomain DEF Open
<1>5. Closed(m, o, d, dn)
  BY <1>3, <1>4, CollapseIs
<1>6. /\ AllFit(o, t)
      /\ \A k \in Selectors : Val(m, k) # None => o[k] = m[k]
      /\ \A k \in Selectors : Val(o, k) # None => Val(o, k) = Val(m, k) \/ Bound(o, k, d, dn)
      /\ \A k \in Fields : o[k] = m[k]
  BY <1>3, <1>4, <1>5, ClosedFacts DEF Closed
<1>7. Extended(r, m)
  BY <1>2, <1>3, ExtendedTwice
<1>8. AutoCollapse(s, t, dn) = o
  BY NamesAreApart DEF AutoCollapse
<1> HIDE DEF r, q, m, d, o
<1>9. \A k \in Fields : o[k] = s[k]
  BY <1>1, <1>6, <1>7 DEF Extended
<1>10. \A k \in Selectors : Explicit(s, k) => o[k] = s[k]
  <2> TAKE k \in Selectors
  <2> HAVE Explicit(s, k)
  <2>1. r[k] = s[k] /\ Val(r, k) # None
    <3>1. r[k] = s[k]
      BY <1>1
    <3> QED BY <3>1, SameSlot DEF Explicit
  <2>2. m[k] = r[k] /\ Val(m, k) # None
    <3>1. m[k] = r[k]
      BY <1>7, <2>1 DEF Extended
    <3> QED BY <2>1, <3>1, SameSlot
  <2> QED BY <1>6, <2>1, <2>2
<1>11. \A k \in Selectors : Firm(s, k) => Firm(o, k)
  <2>1. \A j \in Selectors : Explicit(s, j) => Explicit(o, j)
    BY <1>10, SameSlot
  <2> QED BY <2>1 DEF Firm
<1>12. \A k \in Selectors : Val(m, k) # None => Firm(s, k)
  <2> TAKE k \in Selectors
  <2> HAVE Val(m, k) # None
  <2>1. CASE Val(r, k) # None
    BY <1>1, <2>1
  <2>2. CASE Val(r, k) = None
    <3>1. PICK j \in Selectors : Depth[k] <= Depth[j] /\ Val(r, j) # None
      BY <1>7, <2>2 DEF Extended
    <3>2. PICK i \in Selectors : Depth[j] <= Depth[i] /\ Explicit(s, i)
      BY <1>1, <3>1 DEF Firm
    <3>3. Depth[k] <= Depth[i]
      BY <3>1, <3>2, KeysAre
    <3> QED BY <3>2, <3>3 DEF Firm
  <2> QED BY <2>1, <2>2
<1>13. ASSUME NEW k \in Selectors, IsAuto(o, k), Val(o, k) # None, ~Firm(o, k)
       PROVE  Bound(o, k, d, dn)
  <2>1. Val(m, k) = None
    BY <1>11, <1>12, <1>13
  <2> QED BY <1>6, <1>13, <2>1
<1>14. ASSUME NoGap(s), Val(o, "type") # None
       PROVE  Val(o, "type") = Val(s, "type") \/ Val(o, "type") \in d
  <2>1. CASE Bound(o, "type", d, dn)
    BY <2>1, BoundIs
  <2>2. CASE Val(o, "type") = Val(m, "type")
    <3>1. Val(m, "type") # None
      BY <1>14, <2>2
    <3>2. CASE Val(r, "type") # None
      <4>1. m["type"] = r["type"] /\ r["type"] = s["type"]
        BY <1>1, <1>7, <3>2, KeysAre DEF Extended
      <4> QED BY <2>2, <4>1, SameSlot
    <3>3. CASE Val(r, "type") = None
      <4>1. PICK j \in Selectors : Depth["type"] <= Depth[j] /\ Val(r, j) # None
        BY <1>7, <3>1, <3>3, KeysAre DEF Extended
      <4>2. Val(r, "unit") # None
        BY <3>3, <4>1, KeysAre
      <4>3. Val(s, "unit") # None
        <5>1. r["unit"] = s["unit"]
          BY <1>1, <4>2, KeysAre
        <5> QED BY <4>2, <5>1, SameSlot
      <4>4. s["type"].st # "missing"
        <5>1. Settled(s, "type")
          BY <1>14, <4>3, KeysAre DEF NoGap
        <5> QED BY <5>1 DEF Settled, Val
      <4>5. r["type"].st # "missing"
        BY <1>1, <4>2, <4>4
      <4>6. m["type"] = r["type"]
        BY <1>7, <4>5 DEF Extended
      <4>7. Val(m, "type") = None
        BY <3>3, <4>6, SameSlot
      <4> QED BY <3>1, <4>7
    <3> QED BY <3>2, <3>3
  <2> QED BY <1>6, <1>14, <2>1, <2>2, KeysAre
<1> QED BY <1>6, <1>8, <1>9, <1>10, <1>13, <1>14 DEF d

(************************** the updates of a turn ****************************)
(* What a message may hand over, and what is left of it once its payload edit  *)
(* is evaluated.                                                               *)
Grounded(up) ==
  /\ DOMAIN up \subseteq Keys \cup {"task"}
  /\ "task" \in DOMAIN up => up["task"] \in Tasks
  /\ "class" \in DOMAIN up => up["class"] \in Classes \cup {Unknown}
  /\ "family" \in DOMAIN up => up["family"] \in Families \cup {Unknown}
  /\ "type" \in DOMAIN up => up["type"] \in Variants \cup {Unknown}
  /\ "unit" \in DOMAIN up => up["unit"] \in Units \cup {Unknown}
  /\ \A k \in {"depth", "start"} \cap DOMAIN up : up[k] # None
Evaluated(up) == Grounded(up) /\ ("payload" \in DOMAIN up => up["payload"] # None)

LEMMA WrittenFacts ==
  ASSUME NEW s, Good(s), NEW up, Evaluated(up), NEW normal, NEW ow
  PROVE  LET x == FieldsWritten(s, up, normal, ow)
         IN  /\ Good(x)
             /\ \A k \in Selectors : x[k] = s[k]
             /\ \A k \in Fields : k \notin DOMAIN up => x[k] = s[k]
<1> DEFINE f == [k \in DOMAIN up \cap Fields |->
                   IF k \in normal THEN Written(s, k, up[k], ow) ELSE NotNormal(s, k)]
           x == FieldsWritten(s, up, normal, ow)
<1>1. x = Over(f, s)
  BY DEF FieldsWritten
<1>2. DOMAIN x = Keys /\ \A k \in Keys : x[k] = IF k \in DOMAIN f THEN f[k] ELSE s[k]
  BY <1>1, OverPoint DEF Good
<1>3. /\ DOMAIN f = DOMAIN up \cap Fields
      /\ \A k \in DOMAIN f : f[k] = Written(s, k, up[k], ow) \/ f[k] = NotNormal(s, k)
  OBVIOUS
<1> HIDE DEF f, x
<1>4. /\ \A k \in Selectors : x[k] = s[k]
      /\ \A k \in Fields : k \notin DOMAIN up => x[k] = s[k]
  BY <1>2, <1>3, KeysAre DEF Fields
<1>5. \A k \in DOMAIN f : up[k] # None /\ k \in Fields
  BY <1>3 DEF Evaluated, Grounded, Fields
<1>6. \A k \in Fields : k \in Keys /\ k \notin Selectors /\ s[k].src \in Sources
  BY KeysAre DEF Fields, Good, SlotOK
<1>7. ASSUME NEW k \in Fields, NEW val, val # None
      PROVE  SlotOK(k, Written(s, k, val, ow)) /\ SlotOK(k, NotNormal(s, k))
  <2>1. k \notin Selectors /\ k \notin {"class", "family", "type", "unit"}
    BY KeysAre DEF Fields
  <2>2. ASSUME NEW st \in {"conflict", "candidate", "invalid"}, NEW y, st = "candidate" => y # None
        PROVE  SlotOK(k, Slot(st, y, "user"))
    BY <2>1, <2>2, SlotParts DEF SlotOK, States, Sources
  <2> QED BY <1>7, <2>2 DEF Written, NotNormal
<1>8. Good(x)
  BY <1>2, <1>3, <1>5, <1>7 DEF Good
<1> QED BY <1>4, <1>8 DEF x

LEMMA TaskTypeFacts ==
  ASSUME ListedAgrees, NEW t \in Tasks, NEW s, Good(s), NEW old
  PROVE  LET x == HandleTaskType(s, t, old) IN Good(x) /\ Altered(s, x)
<1> DEFINE loose == {k \in Selectors : s[k].st \in {"candidate", "conflict", "invalid"}}
           first == CHOOSE k \in loose : \A j \in loose : Depth[k] <= Depth[j]
           free == IF t # old /\ loose # {} THEN Unseat(s, first) ELSE s
<1>1. loose # {} => first \in Selectors
  <2> HAVE loose # {}
  <2>1. \E k \in loose : \A j \in loose : Depth[k] <= Depth[j]
    <3>0. loose \subseteq {"class", "family", "type", "unit"}
      BY KeysAre
    <3>1. CASE "class" \in loose
      BY <3>0, <3>1, KeysAre
    <3>2. CASE "class" \notin loose /\ "family" \in loose
      BY <3>0, <3>2, KeysAre
    <3>3. CASE "class" \notin loose /\ "family" \notin loose /\ "type" \in loose
      BY <3>0, <3>3, KeysAre
    <3>4. CASE "class" \notin loose /\ "family" \notin loose /\ "type" \notin loose
      BY <3>0, <3>4, KeysAre
    <3> QED BY <3>1, <3>2, <3>3, <3>4
  <2>2. first \in loose
    BY <2>1
  <2> QED BY <2>2
<1>2. Good(free) /\ Altered(s, free)
  <2>1. Altered(s, s)
    BY DEF Altered
  <2>2. loose # {} => Good(Unseat(s, first)) /\ Altered(s, Unseat(s, first))
    BY <1>1, UnseatFacts
  <2> QED BY <2>1, <2>2
<1>3. HandleTaskType(s, t, old) = AutoCollapse(free, t, down)
  BY DEF HandleTaskType
<1> HIDE DEF free
<1>4. Good(AutoCollapse(free, t, down)) /\ Altered(free, AutoCollapse(free, t, down))
  BY <1>2, CollapseSound
<1> QED BY <1>2, <1>3, <1>4, AlteredTwice

LEMMA NamedFacts ==
  ASSUME NEW s, Good(s), NEW up
  PROVE  LET x == Named(s, up)
         IN  /\ Good(x)
             /\ \A k \in Keys : k \notin DOMAIN up \cap Selectors => x[k] = s[k]
<1> DEFINE f == [k \in DOMAIN up \cap Selectors |-> Slot(s[k].st, s[k].val, "user")]
           x == Named(s, up)
<1>1. x = Over(f, s)
  BY DEF Named
<1>2. DOMAIN x = Keys /\ \A k \in Keys : x[k] = IF k \in DOMAIN f THEN f[k] ELSE s[k]
  BY <1>1, OverPoint DEF Good
<1>3. /\ DOMAIN f = DOMAIN up \cap Selectors
      /\ \A k \in DOMAIN f : f[k] = Slot(s[k].st, s[k].val, "user")
  OBVIOUS
<1> HIDE DEF f, x
<1>4. ASSUME NEW k \in Keys, SlotOK(k, s[k]) PROVE SlotOK(k, Slot(s[k].st, s[k].val, "user"))
  BY <1>4, SlotParts DEF SlotOK, Sources
<1>5. Good(x)
  BY <1>2, <1>3, <1>4 DEF Good
<1> QED BY <1>2, <1>3, <1>5 DEF x

(************************** an explicit selection ****************************)
LineOK(ks, line) ==
  /\ "class" \in ks => line["class"] \in Classes
  /\ "family" \in ks => line["family"] \in Families
  /\ "type" \in ks => line["type"] \in Variants
  /\ "unit" \in ks => line["unit"] \in Units

LEMMA PutFacts ==
  ASSUME NEW s, Good(s), NEW ks, ks \subseteq Selectors, NEW line, LineOK(ks, line), NEW ow
  PROVE  LET x == PutLine(s, ks, line, ow)
         IN  /\ Good(x)
             /\ \A k \in Keys : k \notin ks => x[k] = s[k]
             /\ \A k \in ks : x[k] = s[k] \/ Val(x, k) = line[k]
<1> DEFINE js == {j \in ks : ow \/ Val(s, j) \in {None, line[j]}}
           f == [k \in js |-> Slot("valid", line[k], s[k].src)]
           x == PutLine(s, ks, line, ow)
<1>1. x = Over(f, s)
  BY DEF PutLine
<1>2. DOMAIN x = Keys /\ \A k \in Keys : x[k] = IF k \in DOMAIN f THEN f[k] ELSE s[k]
  BY <1>1, OverPoint DEF Good
<1>3. /\ DOMAIN f \subseteq ks
      /\ \A k \in DOMAIN f : f[k] = Slot("valid", line[k], s[k].src)
  OBVIOUS
<1> HIDE DEF js, f, x
<1>4. ASSUME NEW k \in ks PROVE SlotOK(k, Slot("valid", line[k], s[k].src))
  <2>1. k \in Keys /\ k \in Selectors /\ SlotOK(k, s[k])
    BY <1>4, KeysAre DEF Good
  <2>2. /\ k = "class" => line[k] \in Classes
        /\ k = "family" => line[k] \in Families
        /\ k = "type" => line[k] \in Variants
        /\ k = "unit" => line[k] \in Units
    BY <1>4 DEF LineOK
  <2>3. line[k] # None
    BY <2>1, <2>2, KeysAre, NodesAreNamed
  <2> QED BY <2>1, <2>2, <2>3, SlotParts DEF SlotOK, States, ClassValues
<1>5. Good(x)
  BY <1>2, <1>3, <1>4 DEF Good
<1>6. \A k \in ks : x[k] = s[k] \/ Val(x, k) = line[k]
  BY <1>2, <1>3, SlotParts, KeysAre DEF Val
<1>7. \A k \in Keys : k \notin ks => x[k] = s[k]
  BY <1>2, <1>3
<1> QED BY <1>5, <1>6, <1>7 DEF x

LEMMA EmptiedFacts ==
  ASSUME NEW s, Good(s), NEW k \in Selectors, NEW st \in {"invalid", "missing"}
  PROVE  LET x == Emptied(s, k, st)
         IN  Good(x) /\ Val(x, k) = None /\ \A j \in Keys : j # k => x[j] = s[j]
<1> DEFINE x == Emptied(s, k, st)
<1>1. k \in Keys /\ DOMAIN s = Keys /\ SlotOK(k, s[k])
  BY KeysAre DEF Good
<1>2. x = [s EXCEPT ![k] = Slot(st, None, s[k].src)]
  BY DEF Emptied
<1>3. DOMAIN x = Keys /\ x[k] = Slot(st, None, s[k].src) /\ \A j \in Keys : j # k => x[j] = s[j]
  BY <1>1, <1>2
<1> HIDE DEF x
<1>4. SlotOK(k, Slot(st, None, s[k].src))
  BY <1>1, SlotParts, ClassIds DEF SlotOK, States
<1>5. Val(x, k) = None
  BY <1>3, SlotParts DEF Val
<1>6. Good(x)
  BY <1>3, <1>4 DEF Good
<1> QED BY <1>3, <1>5, <1>6 DEF x

LEMMA ContradictedFacts ==
  ASSUME NEW s, Good(s), NEW b, Good(b), NEW k \in Selectors, Held(b, k)
  PROVE  LET x == Contradicted(s, k, b)
         IN  Good(x) /\ \A j \in Keys : j # k => x[j] = s[j]
<1> DEFINE x == Contradicted(s, k, b)
<1>1. k \in Keys /\ DOMAIN s = Keys /\ SlotOK(k, b[k])
  BY KeysAre DEF Good
<1>2. DOMAIN x = Keys /\ x[k] = Slot("conflict", b[k].val, b[k].src)
      /\ \A j \in Keys : j # k => x[j] = s[j]
  BY <1>1 DEF Contradicted
<1> HIDE DEF x
<1>3. SlotOK(k, Slot("conflict", b[k].val, b[k].src))
  BY <1>1, SlotParts DEF SlotOK, States, Held
<1>4. Good(x)
  BY <1>2, <1>3 DEF Good
<1> QED BY <1>2, <1>4 DEF x

LEMMA RefusedFacts ==
  ASSUME NEW s, Good(s), NEW b, Good(b), NEW k \in Selectors
  PROVE  LET x == Refused(s, k, b)
         IN  Good(x) /\ \A j \in Keys : j # k => x[j] = s[j]
<1>1. CASE Held(b, k)
  BY <1>1, ContradictedFacts DEF Refused
<1>2. CASE ~Held(b, k)
  <2> DEFINE x == Refused(s, k, b)
  <2>1. k \in Keys /\ DOMAIN s = Keys /\ SlotOK(k, b[k])
    BY KeysAre DEF Good
  <2>2. DOMAIN x = Keys /\ x[k] = Slot("invalid", None, b[k].src)
        /\ \A j \in Keys : j # k => x[j] = s[j]
    BY <1>2, <2>1 DEF Refused
  <2> HIDE DEF x
  <2>3. SlotOK(k, Slot("invalid", None, b[k].src))
    BY <2>1, SlotParts, ClassIds DEF SlotOK, States
  <2>4. Good(x)
    BY <2>2, <2>3 DEF Good
  <2> QED BY <2>2, <2>4 DEF x
<1> QED BY <1>1, <1>2

LEMMA GivenIs ==
  ASSUME NEW up, Grounded(up)
  PROVE  /\ Given(up, "class") \in Classes \cup {Unknown, None}
         /\ Given(up, "family") \in Families \cup {Unknown, None}
         /\ Given(up, "type") \in Variants \cup {Unknown, None}
         /\ Given(up, "unit") \in Units \cup {Unknown, None}
         /\ \A k \in Selectors : Given(up, k) # None <=> k \in DOMAIN up
         /\ \A k \in Selectors : Given(up, k) # None => Given(up, k) = up[k]
<1>1. /\ \A x \in Classes \cup {Unknown} : x # None
      /\ \A x \in Families \cup {Unknown} : x # None
      /\ \A x \in Variants \cup {Unknown} : x # None
      /\ \A x \in Units \cup {Unknown} : x # None
  BY NodesAreNamed, NamesAreApart
<1> QED BY <1>1, KeysAre DEF Grounded, Given

(* The line of a node.                                                         *)
LEMMA NodeLines ==
  /\ \A c \in Classes : LineOf("class", c)["class"] = c /\ LineOf("class", c).class = c
  /\ \A f \in Families : LET l == LineOf("family", f)
                         IN  /\ l["class"] = ClassOf[f] /\ l["family"] = f
                             /\ l.class = ClassOf[f] /\ l.family = f
  /\ \A v \in Variants : LET l == LineOf("type", v)
                         IN  /\ l["class"] = ClassOf[FamilyOf[v]] /\ l["family"] = FamilyOf[v]
                             /\ l["type"] = v /\ l.family = FamilyOf[v] /\ l.type = v
  /\ \A w \in Units : LET l == LineOf("unit", w)
                      IN  /\ l["class"] = ClassOf[FamilyOf[VariantOf[w]]]
                          /\ l["family"] = FamilyOf[VariantOf[w]]
                          /\ l["type"] = VariantOf[w] /\ l["unit"] = w
                          /\ l.class = ClassOf[FamilyOf[VariantOf[w]]]
                          /\ l.family = FamilyOf[VariantOf[w]] /\ l.type = VariantOf[w]
<1>2. \A c, f, v, w : LET l == Lineage(c, f, v, w)
                      IN  /\ l.class = c /\ l.family = f /\ l.type = v /\ l.unit = w
                          /\ l["class"] = c /\ l["family"] = f /\ l["type"] = v /\ l["unit"] = w
  BY DEF Lineage
<1>3. \A v : v # Unknown => LineOf("class", v) = Lineage(ClassId(v), None, None, None)
  BY DEF LineOf
<1>4. \A v : v # Unknown => LineOf("family", v) = Lineage(ClassOf[v], v, None, None)
  BY DEF LineOf
<1>5. \A v : v # Unknown
        => LineOf("type", v) = Lineage(ClassOf[FamilyOf[v]], FamilyOf[v], v, None)
  BY DEF LineOf
<1>6. \A v : v # Unknown
        => LineOf("unit", v) = Lineage(ClassOf[FamilyOf[VariantOf[v]]], FamilyOf[VariantOf[v]],
                                       VariantOf[v], v)
  BY DEF LineOf
<1>7. \A c \in Classes : ClassId(c) = c
  BY ClassIds
<1> QED BY <1>2, <1>3, <1>4, <1>5, <1>6, <1>7, NodesAreNamed

LEMMA ResolvesIs ==
  ASSUME NEW up, Grounded(up), NEW t
  PROVE  /\ Given(up, "class") # None /\ Resolves("class", Given(up, "class"), t)
              => Given(up, "class") \in Classes
         /\ Given(up, "family") # None /\ Resolves("family", Given(up, "family"), t)
              => Given(up, "family") \in Families /\ Admits(t, Given(up, "family"))
         /\ Given(up, "type") # None /\ Resolves("type", Given(up, "type"), t)
              => /\ Given(up, "type") \in Variants
                 /\ Admits(t, FamilyOf[Given(up, "type")])
         /\ Given(up, "unit") # None /\ Resolves("unit", Given(up, "unit"), t)
              => /\ Given(up, "unit") \in Units
                 /\ Admits(t, FamilyOf[VariantOf[Given(up, "unit")]])
<1>1. \A k, v : Resolves(k, v, t) => v \notin {None, Unknown}
  BY DEF Resolves
<1>2. \A v : Resolves("family", v, t) => Admits(t, v)
  BY DEF Resolves
<1>3. \A v : Resolves("type", v, t) => Admits(t, LineOf("type", v).family)
  BY DEF Resolves
<1>4. \A v : Resolves("unit", v, t) => Admits(t, LineOf("unit", v).family)
  BY DEF Resolves
<1> QED BY <1>1, <1>2, <1>3, <1>4, GivenIs, NodeLines

(* A draft whose class and family are the only ones the task admits: without   *)
(* leave to overwrite, a selection then contradicts none of them.              *)
Narrow(s, t) ==
  /\ Val(s, "class") # None => ClassesOf(Open(t)) \subseteq {ClassId(Val(s, "class"))}
  /\ Val(s, "family") # None => FamiliesOf(Open(t)) \subseteq {Val(s, "family")}

(* A cascade under way over the draft b.                                       *)
Tame(r, b) ==
  /\ Good(r.s) /\ \A k \in Fields : r.s[k] = b[k]
  /\ r.how \in {"going", "done", "refused"} /\ (r.how = "refused" => r.failed \in Selectors)

LEMMA RunParts ==
  /\ \A s, changed : /\ Underway(s, changed).s = s /\ Underway(s, changed).failed = None
                     /\ Underway(s, changed).changed = changed
                     /\ Underway(s, changed).how = "going"
  /\ \A s, changed : /\ Finish(s, changed).s = s /\ Finish(s, changed).failed = None
                     /\ Finish(s, changed).changed = changed
                     /\ Finish(s, changed).how = "done"
  /\ \A r, k, how : /\ Stop(r, k, how).s = r.s /\ Stop(r, k, how).failed = k
                    /\ Stop(r, k, how).how = how
BY DEF Underway, Finish, Stop, Cascade

LEMMA TameRuns ==
  ASSUME NEW b, NEW r, Tame(r, b)
  PROVE  /\ \A k \in Selectors : Tame(Stop(r, k, "refused"), b)
         /\ \A s, changed : Good(s) /\ (\A k \in Fields : s[k] = r.s[k])
              => Tame(Underway(s, changed), b) /\ Tame(Finish(s, changed), b)
BY RunParts DEF Tame

LEMMA ClassRuns ==
  ASSUME NEW t \in Tasks, NEW up, Grounded(up), NEW b, NEW r, Tame(r, b), NEW ow
  PROVE  LET x == ClassCascade(r, up, t, ow)
         IN  /\ Tame(x, b) /\ x.s["family"] = r.s["family"]
             /\ Given(up, "class") = None => x = r
<1> DEFINE c == Given(up, "class")
           p == PutLine(r.s, {"class"}, LineOf("class", c), ow)
           ch == IF ow /\ Val(r.s, "class") \notin {None, c} THEN {"class"} ELSE {}
           x == ClassCascade(r, up, t, ow)
<1>1. x = IF c = None \/ ~Running(r) THEN r
          ELSE IF ~Resolves("class", c, t) THEN Stop(r, "class", "refused")
          ELSE Underway(p, ch)
  BY DEF ClassCascade
<1> HIDE DEF x, ch
<1>2. c # None /\ Resolves("class", c, t)
        => /\ Good(p) /\ p["family"] = r.s["family"]
           /\ \A k \in Fields : p[k] = r.s[k]
  <2> HAVE c # None /\ Resolves("class", c, t)
  <2>1. LineOK({"class"}, LineOf("class", c))
    BY ResolvesIs, NodeLines DEF LineOK
  <2>2. Good(p) /\ \A k \in Keys : k \notin {"class"} => p[k] = r.s[k]
    BY <2>1, PutFacts, KeysAre DEF Tame
  <2> QED BY <2>2, KeysAre DEF Fields
<1> HIDE DEF p
<1>3. CASE c = None \/ ~Running(r)
  BY <1>1, <1>3 DEF x
<1>4. CASE c # None /\ Running(r) /\ ~Resolves("class", c, t)
  <2>1. x = Stop(r, "class", "refused") /\ "class" \in Selectors
    BY <1>1, <1>4, KeysAre
  <2>2. Tame(x, b) /\ x.s = r.s
    BY <2>1, TameRuns, RunParts
  <2> QED BY <1>4, <2>2 DEF x
<1>5. CASE c # None /\ Running(r) /\ Resolves("class", c, t)
  BY <1>1, <1>2, <1>5, TameRuns, RunParts DEF x
<1> QED BY <1>3, <1>4, <1>5 DEF x

LEMMA FamilyRuns ==
  ASSUME HasVariants, NEW t \in Tasks, NEW up, Grounded(up), NEW b, NEW r, Tame(r, b), NEW ow,
         ow \/ Narrow(b, t), Given(up, "class") = None => r.s["class"] = b["class"]
  PROVE  LET x == FamilyCascade(r, up, t, ow)
         IN  /\ Tame(x, b)
             /\ Val(x.s, "family") \in {None, Val(r.s, "family"), Given(up, "family")}
<1> DEFINE f == Given(up, "family")
           active == ClassId(Val(r.s, "class"))
           moved == active # None /\ active # ClassOf[f]
           current == IF Val(r.s, "family") # None /\ Admits(t, Val(r.s, "family"))
                      THEN Val(r.s, "family") ELSE None
           e == Emptied(r.s, "family", "invalid")
           p == PutLine(r.s, {"class", "family"}, LineOf("family", f), ow)
           ch == r.changed \cup (IF moved THEN {"class"} ELSE {})
                   \cup (IF ow /\ current \notin {None, f} THEN {"family"} ELSE {})
           x == FamilyCascade(r, up, t, ow)
<1>1. x = IF f = None \/ ~Running(r) THEN r
          ELSE IF ~Resolves("family", f, t) THEN Stop(r, "family", "refused")
          ELSE IF moved /\ Given(up, "class") # None THEN Underway(e, r.changed)
          ELSE IF moved /\ ~ow THEN Stop(r, "family", "against")
          ELSE Underway(p, ch)
  BY DEF FamilyCascade
<1> HIDE DEF x, ch
<1>2. f # None /\ Resolves("family", f, t)
        => /\ Good(p) /\ \A k \in Fields : p[k] = r.s[k]
           /\ Val(p, "family") \in {Val(r.s, "family"), f}
  <2> HAVE f # None /\ Resolves("family", f, t)
  <2>0. f \in Families
    BY ResolvesIs
  <2>1. LineOK({"class", "family"}, LineOf("family", f)) /\ LineOf("family", f)["family"] = f
    BY <2>0, NodeLines, NodesAreNamed DEF LineOK
  <2>2. /\ Good(p) /\ \A k \in Keys : k \notin {"class", "family"} => p[k] = r.s[k]
        /\ p["family"] = r.s["family"] \/ Val(p, "family") = f
    BY <2>1, PutFacts, KeysAre DEF Tame
  <2> QED BY <2>2, SameSlot, KeysAre DEF Fields
<1>3. Good(e) /\ Val(e, "family") = None /\ \A k \in Fields : e[k] = r.s[k]
  BY EmptiedFacts, KeysAre DEF Tame, Fields
<1>4. ~(f # None /\ Resolves("family", f, t) /\ moved /\ Given(up, "class") = None /\ ~ow)
  <2> SUFFICES ASSUME f # None, Resolves("family", f, t), moved, Given(up, "class") = None, ~ow
               PROVE  FALSE
    OBVIOUS
  <2>1. f \in Families /\ Admits(t, f)
    BY ResolvesIs
  <2>2. PICK v \in Variants : FamilyOf[v] = f
    BY <2>1 DEF HasVariants
  <2>3. v \in Open(t)
    BY <2>1, <2>2 DEF Open, Domain, Eligible, NoNeed
  <2>4. ClassOf[f] \in ClassesOf(Open(t))
    BY <2>2, <2>3 DEF ClassesOf, FamiliesOf
  <2>5. Val(r.s, "class") = Val(b, "class")
    BY SameSlot
  <2>6. Val(b, "class") # None
    BY <2>5, ClassIds
  <2> QED BY <2>4, <2>5, <2>6 DEF Narrow
<1> HIDE DEF p, e, moved
<1>5. CASE f = None \/ ~Running(r)
  BY <1>1, <1>5 DEF x
<1>6. CASE f # None /\ Running(r) /\ ~Resolves("family", f, t)
  <2>1. x = Stop(r, "family", "refused") /\ "family" \in Selectors
    BY <1>1, <1>6, KeysAre
  <2>2. Tame(x, b) /\ x.s = r.s
    BY <2>1, TameRuns, RunParts
  <2> QED BY <2>2 DEF x
<1>7. CASE f # None /\ Running(r) /\ Resolves("family", f, t) /\ moved /\ Given(up, "class") # None
  BY <1>1, <1>3, <1>7, TameRuns, RunParts DEF x
<1>8. CASE f # None /\ Running(r) /\ Resolves("family", f, t) /\ ~(moved /\ Given(up, "class") # None)
  <2>1. x = Underway(p, ch)
    BY <1>1, <1>4, <1>8
  <2> QED BY <1>2, <1>8, <2>1, TameRuns, RunParts DEF x
<1> QED BY <1>5, <1>6, <1>7, <1>8 DEF x

LEMMA VariantRuns ==
  ASSUME NEW t \in Tasks, NEW up, Grounded(up), NEW b, NEW r, Tame(r, b), NEW ow,
         ow \/ Narrow(b, t),
         Val(r.s, "family") \in {None, Val(b, "family"), Given(up, "family")}
  PROVE  Tame(VariantCascade(r, up, t, ow), b)
<1> DEFINE v == Given(up, "type")
           line == LineOf("type", v)
           named == Given(up, "family")
           active == IF Val(r.s, "family") # None /\ Admits(t, Val(r.s, "family"))
                     THEN Val(r.s, "family") ELSE None
           e == Emptied(r.s, "type", "invalid")
           e2 == Emptied(e, "unit", "missing")
           p == PutLine(r.s, {"class", "family", "type"}, line, ow)
           ch == r.changed \cup (IF ow /\ Val(r.s, "type") \notin {None, v}
                                 THEN {"type"} ELSE {})
           x == VariantCascade(r, up, t, ow)
<1>1. x = IF v = None \/ ~Running(r) THEN r
          ELSE IF ~Resolves("type", v, t) THEN Stop(r, "type", "refused")
          ELSE IF named \notin {None, line.family} THEN Finish(e2, r.changed)
          ELSE IF ~ow /\ active \notin {None, line.family} THEN Stop(r, "type", "against")
          ELSE Underway(p, ch)
  BY DEF VariantCascade
<1> HIDE DEF x, ch
<1>2. v # None /\ Resolves("type", v, t) => Good(p) /\ \A k \in Fields : p[k] = r.s[k]
  <2> HAVE v # None /\ Resolves("type", v, t)
  <2>0. v \in Variants
    BY ResolvesIs
  <2>1. LineOK({"class", "family", "type"}, line)
    BY <2>0, NodeLines, NodesAreNamed DEF LineOK
  <2>2. Good(p) /\ \A k \in Keys : k \notin {"class", "family", "type"} => p[k] = r.s[k]
    BY <2>1, PutFacts, KeysAre DEF Tame
  <2> QED BY <2>2, KeysAre DEF Fields
<1>3. Good(e2) /\ \A k \in Fields : e2[k] = r.s[k]
  <2>1. Good(e) /\ \A k \in Keys : k # "type" => e[k] = r.s[k]
    BY EmptiedFacts, KeysAre DEF Tame
  <2>2. Good(e2) /\ \A k \in Keys : k # "unit" => e2[k] = e[k]
    BY <2>1, EmptiedFacts, KeysAre
  <2> HIDE DEF e, e2
  <2> QED BY <2>1, <2>2, KeysAre DEF Fields
<1>4. ~(/\ v # None /\ Resolves("type", v, t) /\ named \in {None, line.family}
        /\ ~ow /\ active \notin {None, line.family})
  <2> SUFFICES ASSUME v # None, Resolves("type", v, t), named \in {None, line.family}, ~ow,
                      active \notin {None, line.family}
               PROVE  FALSE
    OBVIOUS
  <2>1. v \in Variants /\ Admits(t, FamilyOf[v])
    BY ResolvesIs
  <2>2. line.family = FamilyOf[v]
    BY <2>1, NodeLines
  <2>3. v \in Open(t)
    BY <2>1 DEF Open, Domain, Eligible, NoNeed
  <2>4. FamilyOf[v] \in FamiliesOf(Open(t))
    BY <2>3 DEF FamiliesOf
  <2>5. active = Val(b, "family") /\ active # None
    <3>1. active = Val(r.s, "family") /\ active # None
      OBVIOUS
    <3> QED BY <3>1
  <2> HIDE DEF active
  <2> QED BY <2>2, <2>4, <2>5 DEF Narrow
<1> HIDE DEF p, e, e2, active
<1>5. CASE v = None \/ ~Running(r)
  BY <1>1, <1>5 DEF x
<1>6. CASE v # None /\ Running(r) /\ ~Resolves("type", v, t)
  <2>1. x = Stop(r, "type", "refused") /\ "type" \in Selectors
    BY <1>1, <1>6, KeysAre
  <2> QED BY <2>1, TameRuns DEF x
<1>7. CASE v # None /\ Running(r) /\ Resolves("type", v, t) /\ named \notin {None, line.family}
  BY <1>1, <1>3, <1>7, TameRuns DEF x
<1>8. CASE v # None /\ Running(r) /\ Resolves("type", v, t) /\ named \in {None, line.family}
  <2>1. x = Underway(p, ch)
    BY <1>1, <1>4, <1>8
  <2> QED BY <1>2, <1>8, <2>1, TameRuns DEF x
<1> QED BY <1>5, <1>6, <1>7, <1>8

LEMMA UnitRuns ==
  ASSUME ListedAgrees, NEW t \in Tasks, NEW up, Grounded(up), NEW b, Good(b),
         NEW r, Tame(r, b), NEW ow
  PROVE  Tame(UnitCascade(r, up, b, t, ow), b)
<1> DEFINE w == Given(up, "unit")
           line == LineOf("unit", w)
           static == ValidStatic(line.class, line.family, line.type, w, t)
           x == UnitCascade(r, up, b, t, ow)
           p == PutLine(r.s, Selectors, line, ow)
           ch == r.changed \cup (IF b["type"].val \notin {None, line.type} THEN {"type"} ELSE {})
<1>1. x = IF w = None \/ ~Running(r) THEN r
          ELSE IF ~UnitSelected(up, t) THEN Underway(Refused(r.s, "unit", b), r.changed)
          ELSE IF ~static THEN Underway(Contradicted(r.s, "unit", b), r.changed)
          ELSE Underway(p, ch)
  BY DEF UnitCascade
<1> HIDE DEF x, ch
<1>2. w # None /\ UnitSelected(up, t) => w \in Units /\ static
  <2> HAVE w # None /\ UnitSelected(up, t)
  <2>1. up["unit"] = w
    BY GivenIs, KeysAre
  <2>2. Resolves("unit", w, t)
    BY <2>1 DEF UnitSelected
  <2>3. w \in Units /\ Admits(t, FamilyOf[VariantOf[w]])
    BY <2>2, ResolvesIs
  <2>4. /\ line.class = ClassOf[FamilyOf[VariantOf[w]]] /\ line.family = FamilyOf[VariantOf[w]]
        /\ line.type = VariantOf[w]
    BY <2>3, NodeLines
  <2>5. VariantOf[w] \in Variants /\ FamilyOf[VariantOf[w]] \in Families
    BY <2>3, NodesAreNamed
  <2>6. VariantOf[w] \in Domain(t, NoNeed)
    BY <2>3, <2>5 DEF Domain, Eligible, NoNeed
  <2>7. line.class \in Listed[t]
    BY <2>3, <2>4, <2>5 DEF ListedAgrees
  <2>8. line.type \in ListRobotVariants(line.class, line.family, t)
    BY <2>4, <2>5, <2>6, <2>7 DEF ListRobotVariants
  <2> HIDE DEF line
  <2> QED BY <2>3, <2>4, <2>8 DEF ValidStatic
<1>3. CASE w = None \/ ~Running(r)
  BY <1>1, <1>3 DEF x
<1>4. CASE w # None /\ Running(r) /\ ~UnitSelected(up, t)
  <2> DEFINE n == Refused(r.s, "unit", b)
  <2>1. x = Underway(n, r.changed) /\ "unit" \in Selectors
    BY <1>1, <1>4, KeysAre
  <2>2. Good(n) /\ \A k \in Keys : k # "unit" => n[k] = r.s[k]
    BY RefusedFacts, KeysAre DEF Tame
  <2> HIDE DEF n
  <2>3. \A k \in Fields : n[k] = r.s[k]
    BY <2>2, KeysAre DEF Fields
  <2> QED BY <2>1, <2>2, <2>3, TameRuns DEF x
<1>5. CASE w # None /\ Running(r) /\ UnitSelected(up, t)
  <2>1. x = Underway(p, ch) /\ w \in Units
    BY <1>1, <1>2, <1>5
  <2>2. LineOK(Selectors, line)
    BY <2>1, NodeLines, NodesAreNamed DEF LineOK
  <2>3. Good(p) /\ \A k \in Keys : k \notin Selectors => p[k] = r.s[k]
    BY <2>2, PutFacts DEF Tame
  <2>4. \A k \in Fields : p[k] = r.s[k]
    BY <2>3, KeysAre DEF Fields
  <2> HIDE DEF p
  <2> QED BY <2>1, <2>3, <2>4, TameRuns DEF x
<1> QED BY <1>3, <1>4, <1>5

(* What an explicit selection does to the fields: it leaves them or, where a   *)
(* robot changed below which they were chosen, empties them.                   *)
LEMMA SelectionFacts ==
  ASSUME ListedAgrees, HasVariants, NEW t \in Tasks, NEW up, Grounded(up), NEW s, Good(s),
         NEW ow, ow \/ Narrow(s, t)
  PROVE  LET x == HandleEquipmentUpdates(s, up, t, ow)
         IN  /\ Good(x)
             /\ \A k \in Fields : x[k] = s[k] \/ x[k] = Missing
             /\ DOMAIN up \cap Selectors = {} => x = s
<1> DEFINE x == HandleEquipmentUpdates(s, up, t, ow)
           fence == IF ow THEN None ELSE Fenced(s, up, t)
           u == Underway(s, {})
           c == ClassCascade(u, up, t, ow)
           f == FamilyCascade(c, up, t, ow)
           v == VariantCascade(f, up, t, ow)
           w == UnitCascade(v, up, s, t, ow)
<1>1. x = IF DOMAIN up \cap Selectors = {} THEN s
          ELSE IF fence # None THEN Contradicted(s, fence, s)
          ELSE CascadeOutcome(Cascaded(s, up, t, ow), up, s)
  BY DEF HandleEquipmentUpdates
<1>2. Cascaded(s, up, t, ow) = w
  BY DEF Cascaded
<1> HIDE DEF x
<1>3. Tame(u, s) /\ u.s = s
  BY RunParts DEF Tame
<1>4. Tame(c, s) /\ c.s["family"] = s["family"] /\ (Given(up, "class") = None => c.s["class"] = s["class"])
  BY <1>3, ClassRuns
<1>5. Tame(f, s) /\ Val(f.s, "family") \in {None, Val(c.s, "family"), Given(up, "family")}
  BY <1>4, FamilyRuns
<1>6. Val(c.s, "family") = Val(s, "family")
  BY <1>4, SameSlot
<1>7. Tame(v, s)
  BY <1>5, <1>6, VariantRuns
<1>8. Tame(w, s)
  BY <1>7, UnitRuns
<1> HIDE DEF w
<1>9. fence # None => fence \in Selectors /\ Held(s, fence)
  <2> DEFINE hit == {k \in Selectors : 
                       /\ Given(up, k) \notin {None, Unknown}
                       /\ k # "class" => Resolves(k, up[k], t)
                       /\ k = "type" => Given(up, "unit") = None
                       /\ Held(s, k)
                       /\ k = "family" => Admits(t, s[k].val)
                       /\ Node(k, s[k].val) # up[k]}
  <2>1. Fenced(s, up, t) = IF hit = {} THEN None
                           ELSE CHOOSE k \in hit : \A j \in hit : Depth[k] <= Depth[j]
    BY DEF Fenced
  <2>2. hit \subseteq {"class", "family", "type", "unit"}
    BY KeysAre
  <2>3. \A k \in hit : k \in Selectors /\ Held(s, k)
    OBVIOUS
  <2> HIDE DEF hit
  <2>4. hit # {} => \E k \in hit : \A j \in hit : Depth[k] <= Depth[j]
    <3>1. CASE "class" \in hit
      BY <2>2, <3>1, KeysAre
    <3>2. CASE "class" \notin hit /\ "family" \in hit
      BY <2>2, <3>2, KeysAre
    <3>3. CASE "class" \notin hit /\ "family" \notin hit /\ "type" \in hit
      BY <2>2, <3>3, KeysAre
    <3>4. CASE "class" \notin hit /\ "family" \notin hit /\ "type" \notin hit
      <4>1. \A j \in hit : j = "unit"
        BY <2>2, <3>4
      <4> QED BY <4>1, KeysAre
    <3> QED BY <3>1, <3>2, <3>3, <3>4
  <2>5. hit # {} => Fenced(s, up, t) \in hit
    BY <2>1, <2>4
  <2> QED BY <2>1, <2>3, <2>5
<1> HIDE DEF fence
<1>10. CASE DOMAIN up \cap Selectors = {}
  BY <1>1, <1>10 DEF x
<1>11. CASE DOMAIN up \cap Selectors # {} /\ fence # None
  <2>1. x = Contradicted(s, fence, s)
    BY <1>1, <1>11
  <2>2. Good(x) /\ \A j \in Keys : j # fence => x[j] = s[j]
    BY <1>9, <1>11, <2>1, ContradictedFacts
  <2>3. \A k \in Fields : k \in Keys /\ k # fence
    BY <1>9, <1>11, KeysAre DEF Fields
  <2> QED BY <1>11, <2>2, <2>3 DEF x
<1>12. CASE DOMAIN up \cap Selectors # {} /\ fence = None /\ w.how = "refused"
  <2>1. x = Refused(s, w.failed, s) /\ w.failed \in Selectors
    BY <1>1, <1>2, <1>8, <1>12 DEF CascadeOutcome, Tame
  <2>3. Good(x) /\ \A j \in Keys : j # w.failed => x[j] = s[j]
    BY <2>1, RefusedFacts
  <2>4. \A k \in Fields : k \in Keys /\ k # w.failed
    BY <2>1, KeysAre DEF Fields
  <2> QED BY <1>12, <2>3, <2>4 DEF x
<1>13. CASE DOMAIN up \cap Selectors # {} /\ fence = None /\ w.how # "refused"
  <2>1. x = CascadeCommit(w, up)
    BY <1>1, <1>2, <1>8, <1>13 DEF CascadeOutcome, Tame
  <2>2. x = w.s \/ \E ks : x = Clear(w.s, ks)
    BY <2>1 DEF CascadeCommit, InvalidateDependents
  <2>3. Good(w.s) /\ \A k \in Fields : w.s[k] = s[k]
    BY <1>8 DEF Tame
  <2>4. \A ks : Good(Clear(w.s, ks)) /\ \A k \in Keys : Clear(w.s, ks)[k] = w.s[k] \/ Clear(w.s, ks)[k] = Missing
    BY <2>3, ClearGood, ClearPoint DEF Good
  <2>5. Good(x) /\ \A k \in Fields : x[k] = s[k] \/ x[k] = Missing
    BY <2>2, <2>3, <2>4, KeysAre
  <2> QED BY <1>13, <2>5 DEF x
<1> QED BY <1>10, <1>11, <1>12, <1>13

(*************************** applying the updates ****************************)
LEMMA OnlyFacts ==
  ASSUME NEW up, Grounded(up), NEW ks
  PROVE  LET x == Only(up, ks)
         IN  /\ Grounded(x) /\ DOMAIN x = DOMAIN up \cap ks
             /\ \A k : k \in ks => Given(x, k) = Given(up, k)
             /\ \A k : k \notin ks => Given(x, k) = None
<1> DEFINE x == Only(up, ks)
<1>1. DOMAIN x = DOMAIN up \cap ks /\ \A k \in DOMAIN x : x[k] = up[k]
  BY DEF Only
<1> HIDE DEF x
<1>2. Grounded(x)
  BY <1>1 DEF Grounded
<1>3. /\ \A k : k \in ks => Given(x, k) = Given(up, k)
      /\ \A k : k \notin ks => Given(x, k) = None
  BY <1>1 DEF Given
<1> QED BY <1>1, <1>2, <1>3 DEF x

LEMMA WithFacts ==
  ASSUME NEW up, Grounded(up), NEW v, v # None
  PROVE  LET x == With(up, "payload", v)
         IN  /\ Evaluated(x) /\ DOMAIN x = DOMAIN up \cup {"payload"}
             /\ \A k : k # "payload" => Given(x, k) = Given(up, k)
<1> DEFINE x == With(up, "payload", v)
<1>1. /\ DOMAIN x = DOMAIN up \cup {"payload"} /\ x["payload"] = v
      /\ \A k \in DOMAIN up : k # "payload" => x[k] = up[k]
  BY DEF With
<1> HIDE DEF x
<1>2. "payload" \in Keys /\ "depth" # "payload" /\ "start" # "payload"
  BY KeysAre
<1>3. Grounded(x)
  BY <1>1, <1>2 DEF Grounded
<1>4. \A k : k # "payload" => Given(x, k) = Given(up, k)
  BY <1>1 DEF Given
<1> QED BY <1>1, <1>3, <1>4 DEF x, Evaluated

(* Nothing is told of the robots.                                              *)
Mute(up) == DOMAIN up \cap Selectors = {}

LEMMA EffectiveIs ==
  ASSUME NEW up, Grounded(up), NEW t, NEW id
  PROVE  /\ Given(up, "task") = None <=> "task" \notin DOMAIN up
         /\ "task" \notin DOMAIN up => Effective(up, t, id) = t
         /\ "task" \in DOMAIN up => Effective(up, t, id) \in {t, up["task"]} /\ up["task"] \in Tasks
         /\ "task" \in DOMAIN up /\ ~Locked(up, t, id) => Effective(up, t, id) = up["task"]
         /\ Locked(up, t, id) => Effective(up, t, id) = t
<1>1. "task" \in DOMAIN up => Given(up, "task") = up["task"] /\ up["task"] # None
                             /\ up["task"] \in Tasks
  BY NamesAreApart DEF Grounded, Given
<1>2. "task" \notin DOMAIN up => Given(up, "task") = None
  BY DEF Given
<1>3. "task" \notin DOMAIN up => Target(up, t) = t
  BY <1>2 DEF Target
<1>4. "task" \in DOMAIN up => Target(up, t) = up["task"]
  BY <1>1 DEF Target
<1>5. Effective(up, t, id) = IF Locked(up, t, id) THEN t ELSE Target(up, t)
  BY DEF Effective
<1> QED BY <1>1, <1>2, <1>3, <1>4, <1>5

(* Applying a turn's updates.  The draft that comes out is sound for the task  *)
(* that is then in force, and a turn that tells nothing of the robots leaves   *)
(* no explicit selector that was not one before.                               *)
LEMMA ApplyFacts ==
  ASSUME ListedAgrees, HasVariants, NEW s, Good(s), NEW up, Evaluated(up), NEW normal,
         NEW t, NEW id, Effective(up, t, id) \in Tasks, NEW ow,
         ow \/ Mute(up) \/ ("task" \notin DOMAIN up /\ Narrow(s, t))
  PROVE  LET x == ApplyNormal(s, up, normal, t, id, ow)
         IN  /\ Good(x) /\ NoGap(x) /\ Sound(x, Effective(up, t, id))
             /\ \A k \in Fields : k \notin DOMAIN up => x[k] = s[k] \/ x[k] = Missing
             /\ Mute(up) => \A k \in Selectors : Explicit(x, k) => Explicit(s, k)
<1> DEFINE eff == Effective(up, t, id)
           a == FieldsWritten(s, up, normal, ow)
           b == IF Given(up, "task") = None \/ Locked(up, t, id) THEN a ELSE HandleTaskType(a, eff, t)
           only == Only(up, Selectors \cup normal)
           c == HandleEquipmentUpdates(b, only, eff, ow)
           n == Named(c, up)
           x == AutoCollapse(n, eff, down)
<1>1. ApplyNormal(s, up, normal, t, id, ow) = x
  BY DEF ApplyNormal
<1>2. /\ Good(a)
      /\ \A k \in Selectors : a[k] = s[k]
      /\ \A k \in Fields : k \notin DOMAIN up => a[k] = s[k]
  BY WrittenFacts
<1> HIDE DEF a
<1>3. Good(b) /\ Altered(a, b) /\ ("task" \notin DOMAIN up => b = a)
  <2>1. Altered(a, a)
    BY DEF Altered
  <2>2. Given(up, "task") = None <=> "task" \notin DOMAIN up
    BY EffectiveIs DEF Evaluated
  <2>3. Good(HandleTaskType(a, eff, t)) /\ Altered(a, HandleTaskType(a, eff, t))
    BY <1>2, TaskTypeFacts
  <2> QED BY <1>2, <2>1, <2>2, <2>3
<1>4. Grounded(only) /\ DOMAIN only \cap Selectors = DOMAIN up \cap Selectors
  <2>1. Grounded(only) /\ DOMAIN only = DOMAIN up \cap (Selectors \cup normal)
    BY OnlyFacts DEF Evaluated
  <2> HIDE DEF only
  <2> QED BY <2>1
<1> HIDE DEF b, only, eff
<1>5. ow \/ Mute(up) \/ Narrow(b, eff)
  <2> SUFFICES ASSUME "task" \notin DOMAIN up, Narrow(s, t)
               PROVE  Narrow(b, eff)
    OBVIOUS
  <2>1. b = a /\ eff = t
    BY <1>3, EffectiveIs DEF Evaluated, eff
  <2>2. Val(a, "class") = Val(s, "class") /\ Val(a, "family") = Val(s, "family")
    BY <1>2, SameSlot, KeysAre
  <2> QED BY <2>1, <2>2 DEF Narrow
<1>6. /\ Good(c)
      /\ \A k \in Fields : c[k] = b[k] \/ c[k] = Missing
      /\ Mute(up) => c = b
  <2>1. Mute(up) => c = b
    BY <1>4 DEF Mute, HandleEquipmentUpdates
  <2>2. CASE Mute(up)
    BY <1>3, <2>1, <2>2
  <2>3. CASE ~Mute(up)
    BY <1>3, <1>4, <1>5, <2>3, SelectionFacts DEF eff
  <2> QED BY <2>2, <2>3
<1> HIDE DEF c
<1>7. Good(n) /\ \A k \in Keys : k \notin DOMAIN up \cap Selectors => n[k] = c[k]
  BY <1>6, NamedFacts
<1> HIDE DEF n
<1>8. Good(x) /\ NoGap(x) /\ Altered(n, x) /\ Sound(x, eff)
  BY <1>7, CollapseSound DEF eff
<1> HIDE DEF x
<1>9. ASSUME NEW k \in Fields, k \notin DOMAIN up PROVE x[k] = s[k] \/ x[k] = Missing
  <2>1. k \in {"depth", "start", "payload"} /\ k \in Keys /\ k \notin Selectors
    BY KeysAre DEF Fields
  <2>2. a[k] = s[k] /\ n[k] = c[k] /\ (c[k] = b[k] \/ c[k] = Missing)
    BY <1>2, <1>6, <1>7, <1>9, <2>1
  <2>3. b[k] = a[k] \/ b[k] = Missing
    BY <1>3, <2>1 DEF Altered
  <2>4. x[k] = n[k] \/ x[k] = Missing
    BY <1>8, <2>1 DEF Altered
  <2> QED BY <2>2, <2>3, <2>4
<1>10. ASSUME Mute(up), NEW k \in Selectors, Explicit(x, k) PROVE Explicit(s, k)
  <2>1. Explicit(n, k)
    BY <1>8, <1>10, AlteredExplicit
  <2>2. n[k] = b[k]
    BY <1>6, <1>7, <1>10, KeysAre DEF Mute
  <2>3. Explicit(b, k)
    BY <2>1, <2>2, SameSlot
  <2>4. Explicit(a, k)
    BY <1>3, <2>3, AlteredExplicit
  <2> QED BY <1>2, <2>4, SameSlot
<1> QED BY <1>1, <1>8, <1>9, <1>10 DEF x, eff

(* A turn that tells nothing of the robots or the task keeps what the user     *)
(* chose, when it was sound.                                                   *)
LEMMA ApplyKeeps ==
  ASSUME ListedAgrees, NEW s, Good(s), NEW up, Evaluated(up), NEW normal,
         NEW t \in Tasks, NEW id, NEW ow, Mute(up), "task" \notin DOMAIN up, Sound(s, t)
  PROVE  LET x == ApplyNormal(s, up, normal, t, id, ow)
         IN  /\ \A k \in Selectors : Explicit(s, k) => x[k] = s[k]
             /\ \A k \in Fields : k \notin DOMAIN up => x[k] = s[k]
             /\ NoGap(s) /\ Val(x, "type") # None /\ "payload" \notin DOMAIN up
                /\ Val(s, "payload") # None
                  => \/ Val(x, "type") = Val(s, "type")
                     \/ /\ Val(x, "type") \in Variants
                        /\ Val(s, "payload") \subseteq Onboard[Val(x, "type")] \cup Supported[Val(x, "type")]
<1> DEFINE a == FieldsWritten(s, up, normal, ow)
           only == Only(up, Selectors \cup normal)
           n == Named(a, up)
           x == AutoCollapse(n, t, down)
<1>1. /\ Good(a)
      /\ \A k \in Selectors : a[k] = s[k]
      /\ \A k \in Fields : k \notin DOMAIN up => a[k] = s[k]
  BY WrittenFacts
<1>2. Effective(up, t, id) = t /\ Given(up, "task") = None
  BY EffectiveIs DEF Evaluated
<1>3. DOMAIN only \cap Selectors = {}
  <2>1. DOMAIN only = DOMAIN up \cap (Selectors \cup normal)
    BY OnlyFacts DEF Evaluated
  <2> HIDE DEF only
  <2> QED BY <2>1 DEF Mute
<1>4. HandleEquipmentUpdates(a, only, t, ow) = a
  BY <1>3 DEF HandleEquipmentUpdates
<1>5. ApplyNormal(s, up, normal, t, id, ow) = x
  BY <1>2, <1>4 DEF ApplyNormal
<1> HIDE DEF a
<1>6. Good(n) /\ \A k \in Keys : n[k] = a[k]
  BY <1>1, NamedFacts DEF Mute
<1> HIDE DEF n
<1>7. /\ \A k \in Selectors : n[k] = s[k]
      /\ \A k \in Fields : k \notin DOMAIN up => n[k] = s[k]
  BY <1>1, <1>6, KeysAre
<1>8. \A k \in Selectors : Val(n, k) = Val(s, k) /\ (Explicit(n, k) <=> Explicit(s, k))
                           /\ (Settled(n, k) <=> Settled(s, k))
  BY <1>7, SameSlot DEF Settled
<1>9. Sound(n, t) /\ (NoGap(s) => NoGap(n))
  BY <1>8, KeysAre DEF Sound, NoGap
<1>10. /\ \A k \in Fields : x[k] = n[k]
       /\ \A k \in Selectors : Explicit(n, k) => x[k] = n[k]
       /\ NoGap(n) /\ Val(x, "type") # None
            => Val(x, "type") = Val(n, "type") \/ Val(x, "type") \in Domain(t, Need(n))
  BY <1>6, <1>9, CollapseFits
<1> HIDE DEF x
<1>11. ASSUME NoGap(s), Val(x, "type") # None, "payload" \notin DOMAIN up, Val(s, "payload") # None
       PROVE  \/ Val(x, "type") = Val(s, "type")
              \/ /\ Val(x, "type") \in Variants
                 /\ Val(s, "payload") \subseteq Onboard[Val(x, "type")] \cup Supported[Val(x, "type")]
  <2>1. CASE Val(x, "type") = Val(n, "type")
    BY <1>8, <2>1, KeysAre
  <2>2. CASE Val(x, "type") \in Domain(t, Need(n))
    <3>1. Val(n, "payload") = Val(s, "payload")
      BY <1>7, <1>11, SameSlot DEF Fields
    <3>2. Eligible(Val(x, "type"), Need(n)) /\ Val(x, "type") \in Variants
      BY <2>2 DEF Domain
    <3>3. Need(n).payload = Val(n, "payload")
      BY DEF Need
    <3> QED BY <1>11, <3>1, <3>2, <3>3 DEF Eligible
  <2> QED BY <1>9, <1>10, <1>11, <2>1, <2>2
<1>12. \A k \in Selectors : Explicit(s, k) => x[k] = s[k]
  BY <1>7, <1>8, <1>10
<1>13. \A k \in Fields : k \notin DOMAIN up => x[k] = s[k]
  BY <1>7, <1>10
<1> QED BY <1>5, <1>11, <1>12, <1>13 DEF x

(************************** the end of a turn ********************************)
(* The automatic choice that ends a turn is forced.                            *)
LEMMA CollapseForced ==
  ASSUME ListedAgrees, NEW t \in Tasks, NEW s, Good(s), Sound(s, t)
  PROVE  Forced(AutoCollapse(s, t, down), t)
<1> DEFINE o == AutoCollapse(s, t, down)
           d == Domain(t, Need(s))
<1>1. /\ \A k \in Fields : o[k] = s[k]
      /\ \A k \in Selectors :
           IsAuto(o, k) /\ Val(o, k) # None /\ ~Firm(o, k) => Bound(o, k, d, down)
  BY CollapseFits
<1>2. Good(o)
  BY CollapseSound
<1> HIDE DEF o
<1>3. Need(o) = Need(s)
  <2>1. Val(o, "depth") = Val(s, "depth") /\ Val(o, "payload") = Val(s, "payload")
    BY <1>1, SameSlot DEF Fields
  <2> QED BY <2>1 DEF Need
<1>4. ASSUME NEW k \in Selectors, IsAuto(o, k), Depth[k] > DeepestExplicit(o)
      PROVE  Bound(o, k, d, down) /\ Val(o, k) = o[k].val
  <2>1. k \in Keys /\ SlotOK(k, o[k]) /\ o[k].st = "valid"
    BY <1>2, <1>4, KeysAre DEF Good, IsAuto
  <2>2. Val(o, k) = o[k].val /\ Val(o, k) # None
    BY <2>1 DEF SlotOK, Val
  <2>3. ~Firm(o, k)
    BY <1>4, DeepestIs
  <2> QED BY <1>1, <1>4, <2>2, <2>3
<1>5. Domain(t, Need(o)) = d
  BY <1>3
<1> HIDE DEF d
<1>6. IsAuto(o, "class") /\ Depth["class"] > DeepestExplicit(o)
        => ClassesOf(d) = {ClassId(o["class"].val)}
  BY <1>4, BoundIs, KeysAre
<1>7. IsAuto(o, "family") /\ Depth["family"] > DeepestExplicit(o)
        => {f \in FamiliesOf(d) : ClassOf[f] = ClassId(Val(o, "class"))} = {o["family"].val}
  BY <1>4, BoundIs, KeysAre
<1>8. IsAuto(o, "type") /\ Depth["type"] > DeepestExplicit(o)
        => {v \in d : FamilyOf[v] = Val(o, "family")} = {o["type"].val}
  BY <1>4, BoundIs, KeysAre
<1>9. IsAuto(o, "unit") /\ Depth["unit"] > DeepestExplicit(o)
        => FreeUnits(Val(o, "type"), Val(o, "start") = "soon", down) = {o["unit"].val}
  BY <1>4, BoundIs, KeysAre
<1> QED BY <1>5, <1>6, <1>7, <1>8, <1>9 DEF Forced, o

Carried(s) ==
  LET v == Val(s, "type")
      p == Val(s, "payload")
  IN  p # None /\ v # None /\ Supported[v] # {} => p \subseteq Onboard[v] \cup Supported[v]

LEMMA ValidateFacts ==
  ASSUME ListedAgrees, NEW t \in Tasks, NEW s, Good(s), NoGap(s), Sound(s, t)
  PROVE  LET x == NormalizeAndValidate(s, t)
         IN  /\ Good(x) /\ NoGap(x) /\ AllFit(x, t) /\ Forced(x, t) /\ Carried(x)
             /\ \A k \in Keys : x[k].st # "candidate"
             /\ \A k \in Selectors : Explicit(s, k) => x[k] = s[k]
             /\ \A k \in Selectors : Explicit(x, k) => Explicit(s, k)
             /\ Val(x, "payload") # None => Val(x, "payload") # {}
             /\ s["payload"] = Missing => Val(x, "payload") = None
             /\ Val(s, "payload") \notin {None, {}}
                  => (Val(s, "payload") \subseteq PayloadChoices(Val(s, "type"), t)
                        => x["payload"] = s["payload"])
<1> DEFINE type == Val(s, "type")
           filled == {k \in Fields : s[k].st \in {"valid", "candidate"} /\ s[k].val # None}
           Bad(k) == k = "payload" /\ ~Allowed(s[k].val, PayloadChoices(type, t))
           f == [k \in filled |-> IF k = "payload" /\ s[k].val = {} THEN Missing
                                  ELSE Slot(IF Bad(k) THEN "invalid" ELSE "valid", s[k].val, s[k].src)]
           v == Over(f, s)
           x == AutoCollapse(v, t, down)
<1>1. NormalizeAndValidate(s, t) = x
  BY DEF NormalizeAndValidate
<1>2. DOMAIN v = Keys /\ \A k \in Keys : v[k] = IF k \in DOMAIN f THEN f[k] ELSE s[k]
  BY OverPoint DEF Good
<1>3. /\ DOMAIN f = filled
      /\ \A k \in filled : f[k] = IF k = "payload" /\ s[k].val = {} THEN Missing
                                  ELSE Slot(IF Bad(k) THEN "invalid" ELSE "valid", s[k].val, s[k].src)
  OBVIOUS
<1>4. \A k \in Keys : k \in filled <=> k \in Fields /\ s[k].st \in {"valid", "candidate"} /\ s[k].val # None
  OBVIOUS
<1>5. filled \subseteq Fields
  OBVIOUS
<1> HIDE DEF filled, f, v, Bad
<1>6. \A k \in Selectors : v[k] = s[k]
  BY <1>2, <1>3, <1>5, KeysAre DEF Fields
<1>7. ASSUME NEW k \in filled
      PROVE  SlotOK(k, v[k]) /\ v[k].st # "candidate"
  <2>1. k \in Fields /\ k \in Keys /\ k \notin Selectors /\ SlotOK(k, s[k])
    BY <1>5, KeysAre DEF Fields, Good
  <2>2. v[k] = Missing \/ \E st \in {"invalid", "valid"} : v[k] = Slot(st, s[k].val, s[k].src)
    BY <1>2, <1>3, <2>1
  <2>3. SlotOK(k, Missing) /\ Missing.st # "candidate"
    BY <2>1, MissingIsOK, SlotParts DEF Missing
  <2>4. ASSUME NEW st \in {"invalid", "valid"}
        PROVE  LET y == Slot(st, s[k].val, s[k].src) IN SlotOK(k, y) /\ y.st # "candidate"
    <3>1. k # "class" /\ k # "family" /\ k # "type" /\ k # "unit"
      BY <2>1, KeysAre
    <3> QED BY <2>1, <2>4, <3>1, SlotParts DEF SlotOK, States
  <2> QED BY <2>2, <2>3, <2>4
<1>8. \A k \in Keys : v[k].st # "candidate"
  <2> TAKE k \in Keys
  <2>1. CASE k \in filled
    BY <1>7, <2>1
  <2>2. CASE k \notin filled
    <3>1. v[k] = s[k] /\ SlotOK(k, s[k])
      BY <1>2, <1>3, <2>2 DEF Good
    <3>2. k \in Selectors \/ k \in Fields
      BY DEF Keys
    <3> QED BY <1>4, <2>2, <3>1, <3>2 DEF SlotOK
  <2> QED BY <2>1, <2>2
<1>9. Good(v)
  BY <1>2, <1>3, <1>7 DEF Good
<1>10. \A k \in Selectors : Val(v, k) = Val(s, k) /\ (Explicit(v, k) <=> Explicit(s, k))
                            /\ (Settled(v, k) <=> Settled(s, k))
  BY <1>6, SameSlot DEF Settled
<1>11. Sound(v, t) /\ NoGap(v)
  BY <1>10, KeysAre DEF Sound, NoGap
<1>12. Good(x) /\ NoGap(x) /\ Altered(v, x)
  BY <1>9, CollapseSound
<1>13. /\ AllFit(x, t)
       /\ \A k \in Fields : x[k] = v[k]
       /\ \A k \in Selectors : Explicit(v, k) => x[k] = v[k]
       /\ Val(x, "type") # None => Val(x, "type") = Val(v, "type") \/ Val(x, "type") \in Domain(t, Need(v))
  BY <1>9, <1>11, CollapseFits
<1>14. Forced(x, t)
  BY <1>9, <1>11, CollapseForced
<1> HIDE DEF x
<1>15. \A k \in Keys : x[k].st # "candidate"
  <2>1. \A k \in Selectors : x[k].st # "candidate"
    BY <1>12, KeysAre DEF Good, SlotOK
  <2>2. \A k \in Fields : x[k].st # "candidate"
    BY <1>8, <1>13, KeysAre
  <2> QED BY <2>1, <2>2 DEF Keys
<1>16. \A k \in Selectors : Explicit(s, k) => x[k] = s[k]
  BY <1>6, <1>10, <1>13
<1>17. \A k \in Selectors : Explicit(x, k) => Explicit(s, k)
  BY <1>10, <1>12, AlteredExplicit
<1>18. "payload" \in Fields /\ "payload" \in Keys
  BY DEF Fields, Keys
<1>19. Val(x, "payload") = Val(v, "payload")
  BY <1>13, <1>18, SameSlot
<1>20. ASSUME Val(v, "payload") # None
       PROVE  /\ Val(v, "payload") # {}
              /\ Allowed(Val(v, "payload"), PayloadChoices(type, t))
              /\ s["payload"] # Missing
  <2>1. v["payload"].st = "valid" /\ v["payload"].val # None /\ Val(v, "payload") = v["payload"].val
    BY <1>20 DEF Val
  <2>2. "payload" \in filled
    BY <1>2, <1>3, <1>4, <1>18, <2>1
  <2>3. /\ s["payload"].val # {} /\ ~Bad("payload")
        /\ v["payload"] = Slot("valid", s["payload"].val, s["payload"].src)
    <3>1. v["payload"] # Missing
      BY <2>1, SlotParts DEF Missing
    <3>2. /\ s["payload"].val # {}
          /\ v["payload"] = Slot(IF Bad("payload") THEN "invalid" ELSE "valid",
                                 s["payload"].val, s["payload"].src)
      BY <1>2, <1>3, <1>18, <2>2, <3>1
    <3>3. ~Bad("payload")
      BY <2>1, <3>2, SlotParts
    <3> QED BY <3>2, <3>3
  <2>4. Val(v, "payload") = s["payload"].val
    BY <2>1, <2>3, SlotParts
  <2>5. s["payload"] # Missing
    BY <1>4, <1>18, <2>2, SlotParts DEF Missing
  <2> QED BY <2>3, <2>4, <2>5 DEF Bad
<1>21. /\ Val(x, "payload") # None => Val(x, "payload") # {}
       /\ s["payload"] = Missing => Val(x, "payload") = None
  BY <1>19, <1>20
<1>22. Carried(x)
  <2> SUFFICES ASSUME Val(x, "payload") # None, Val(x, "type") # None,
                      Supported[Val(x, "type")] # {}
               PROVE  Val(x, "payload") \subseteq Onboard[Val(x, "type")] \cup Supported[Val(x, "type")]
    BY DEF Carried
  <2>1. Val(v, "payload") = Val(x, "payload") /\ Allowed(Val(x, "payload"), PayloadChoices(type, t))
    BY <1>19, <1>20
  <2>2. CASE Val(x, "type") = Val(v, "type")
    <3>1. Val(v, "type") = type
      BY <1>10, KeysAre
    <3> HIDE DEF type
    <3> QED BY <2>1, <2>2, <3>1 DEF PayloadChoices, Allowed
  <2>3. CASE Val(x, "type") \in Domain(t, Need(v))
    <3>1. Eligible(Val(x, "type"), Need(v)) /\ Need(v).payload = Val(v, "payload")
      BY <2>3 DEF Domain, Need
    <3> QED BY <2>1, <3>1 DEF Eligible
  <2> QED BY <1>13, <2>2, <2>3
<1>23. ASSUME Val(s, "payload") \notin {None, {}}, Val(s, "payload") \subseteq PayloadChoices(type, t)
       PROVE  x["payload"] = s["payload"]
  <2>1. s["payload"].st = "valid" /\ s["payload"].val # None /\ Val(s, "payload") = s["payload"].val
    BY <1>23 DEF Val
  <2>2. "payload" \in filled /\ ~Bad("payload")
    BY <1>4, <1>18, <1>23, <2>1 DEF Bad, Allowed
  <2>3. v["payload"] = Slot("valid", s["payload"].val, s["payload"].src)
    BY <1>2, <1>3, <1>18, <1>23, <2>1, <2>2
  <2>4. s["payload"] = Slot("valid", s["payload"].val, s["payload"].src)
    BY <1>18, <2>1 DEF Good, SlotOK
  <2> QED BY <1>13, <1>18, <2>3, <2>4
<1>24. NormalizeAndValidate(s, t) = x
  BY <1>1 DEF x
<1>25. Val(s, "payload") \notin {None, {}}
         => (Val(s, "payload") \subseteq PayloadChoices(Val(s, "type"), t)
               => x["payload"] = s["payload"])
  BY <1>23
<1>26. Good(x) /\ NoGap(x) /\ AllFit(x, t) /\ Forced(x, t) /\ Carried(x)
  BY <1>12, <1>13, <1>14, <1>22
<1> QED BY <1>15, <1>16, <1>17, <1>21, <1>24, <1>25, <1>26

(****************************** the whole turn *******************************)
LEMMA CancelledFacts ==
  ASSUME NEW s, Good(s), NEW ks
  PROVE  LET x == Cancelled(s, ks)
         IN  /\ Good(x)
             /\ \A k \in Keys : x[k] = s[k] \/ (k \in ks /\ s[k].st = "conflict")
<1> DEFINE f == [k \in {j \in ks : s[j].st = "conflict"} |-> Slot("valid", s[k].val, s[k].src)]
           x == Cancelled(s, ks)
<1>1. x = Over(f, s)
  BY DEF Cancelled
<1>2. DOMAIN x = Keys /\ \A k \in Keys : x[k] = IF k \in DOMAIN f THEN f[k] ELSE s[k]
  BY <1>1, OverPoint DEF Good
<1>3. \A k \in DOMAIN f : k \in ks /\ s[k].st = "conflict" /\ f[k] = Slot("valid", s[k].val, s[k].src)
  OBVIOUS
<1> HIDE DEF f, x
<1>4. ASSUME NEW k \in Keys, s[k].st = "conflict"
      PROVE  SlotOK(k, Slot("valid", s[k].val, s[k].src))
  <2>1. SlotOK(k, s[k])
    BY <1>4 DEF Good
  <2> QED BY <1>4, <2>1, SlotParts DEF SlotOK, States
<1>5. Good(x)
  BY <1>2, <1>3, <1>4 DEF Good
<1> QED BY <1>2, <1>3, <1>5 DEF x

(* The draft a turn's updates are applied to: y, with the updates upd.         *)
LEMMA ExtractedIs ==
  ASSUME NEW s, Good(s), NEW up, Grounded(up), NEW t, NEW id, NEW cancel, NEW ow,
         NEW edit, edit.new # None => "payload" \in DOMAIN up
  PROVE  \E y, upd, normal :
           /\ ExtractedWith(edit, s, up, t, id, cancel, ow) = ApplyNormal(y, upd, normal, t, id, ow)
           /\ Evaluated(upd) /\ DOMAIN upd \subseteq DOMAIN up
           /\ Effective(upd, t, id) = Effective(up, t, id)
           /\ DOMAIN upd \cap Selectors = DOMAIN up \cap Selectors
           /\ "task" \in DOMAIN upd <=> "task" \in DOMAIN up
           /\ Good(y)
           /\ Effective(up, t, id) # t => \A k \in NonInherited : y[k] = Missing
           /\ "task" \notin DOMAIN up /\ cancel = {}
                => /\ \A k \in Selectors : y[k] = s[k] \/ (y[k] = Missing /\ s[k].src = "auto")
                   /\ "payload" \notin DOMAIN up => \A k \in Keys : y[k] = s[k]
<1> DEFINE done == edit.new # None
           upd == IF done THEN With(up, "payload", edit.new) ELSE Only(up, DOMAIN up \ {"payload"})
           context == {k \in edit.context : s[k].src = "auto"}
           open == IF done THEN Clear(s, context) ELSE s
           clean == IF Switches(up, t, id) THEN Clear(open, NonInherited) ELSE open
           y == Cancelled(clean, cancel \ DOMAIN upd)
           eff == Effective(upd, t, id)
           choices == PayloadChoices(Val(Projected(y, upd, eff), "type"), eff)
           normal == NormalFields(upd, choices)
<1>1. ExtractedWith(edit, s, up, t, id, cancel, ow) = ApplyNormal(y, upd, normal, t, id, ow)
  BY DEF ExtractedWith, ApplyUpdates
<1> HIDE DEF normal, choices
<1>2. /\ Evaluated(upd) /\ DOMAIN upd \subseteq DOMAIN up
      /\ \A k : k # "payload" => Given(upd, k) = Given(up, k) /\ (k \in DOMAIN upd <=> k \in DOMAIN up)
  <2>1. CASE done
    <3>1. /\ Evaluated(upd) /\ DOMAIN upd = DOMAIN up \cup {"payload"}
          /\ \A k : k # "payload" => Given(upd, k) = Given(up, k)
      BY <2>1, WithFacts
    <3> HIDE DEF upd
    <3> QED BY <2>1, <3>1
  <2>2. CASE ~done
    <3>1. /\ Grounded(upd) /\ DOMAIN upd = DOMAIN up \cap (DOMAIN up \ {"payload"})
          /\ \A k : k \in DOMAIN up \ {"payload"} => Given(upd, k) = Given(up, k)
          /\ \A k : k \notin DOMAIN up \ {"payload"} => Given(upd, k) = None
      BY <2>2, OnlyFacts
    <3> HIDE DEF upd
    <3>2. \A k : k \notin DOMAIN up => Given(up, k) = None
      BY DEF Given
    <3> QED BY <3>1, <3>2 DEF Evaluated
  <2> QED BY <2>1, <2>2
<1> HIDE DEF upd
<1>3. /\ "payload" \notin Selectors /\ "payload" # "task"
      /\ "payload" \notin {"depth", "start"}
  BY KeysAre
<1>4. "task" \in DOMAIN upd <=> "task" \in DOMAIN up
  BY <1>2, <1>3
<1>5. DOMAIN upd \cap Selectors = DOMAIN up \cap Selectors
  BY <1>2, <1>3
<1>6. Effective(upd, t, id) = Effective(up, t, id)
  <2>1. Given(upd, "task") = Given(up, "task")
    BY <1>2, <1>3
  <2>2. "task" \in DOMAIN up => Given(up, "task") = up["task"] /\ Given(upd, "task") = upd["task"]
    BY <1>4 DEF Given
  <2>3. "task" \notin DOMAIN up => Given(up, "task") = None
    BY DEF Given
  <2>4. Target(upd, t) = Target(up, t)
    BY <2>1, <2>2, <2>3 DEF Target
  <2> QED BY <2>4 DEF Effective, Locked
<1>7. /\ Good(open)
      /\ \A k \in Keys : open[k] = s[k] \/ (open[k] = Missing /\ s[k].src = "auto")
      /\ "payload" \notin DOMAIN up => open = s
  <2>1. Good(Clear(s, context)) /\ \A k \in Keys : Clear(s, context)[k] = IF k \in context THEN Missing ELSE s[k]
    BY ClearGood, ClearPoint DEF Good
  <2>2. \A k \in context : s[k].src = "auto"
    OBVIOUS
  <2> HIDE DEF context
  <2> QED BY <2>1, <2>2
<1> HIDE DEF open
<1>8. /\ Good(clean)
      /\ Effective(up, t, id) # t => \A k \in NonInherited : clean[k] = Missing
      /\ "task" \notin DOMAIN up => clean = open
  <2>1. Good(Clear(open, NonInherited)) /\ \A k \in NonInherited : Clear(open, NonInherited)[k] = Missing
    BY <1>7, ClearGood, ClearPoint, KeysAre DEF Good, NonInherited
  <2>2. "task" \notin DOMAIN up => ~Switches(up, t, id)
    BY EffectiveIs DEF Switches
  <2> QED BY <1>7, <2>1, <2>2 DEF Switches
<1> HIDE DEF clean
<1>9. /\ Good(y)
      /\ \A k \in Keys : y[k] = clean[k] \/ (k \in cancel /\ clean[k].st = "conflict")
  BY <1>8, CancelledFacts
<1> HIDE DEF y
<1>10. Effective(up, t, id) # t => \A k \in NonInherited : y[k] = Missing
  <2>1. \A k \in NonInherited : k \in Keys
    BY KeysAre DEF NonInherited
  <2> QED BY <1>8, <1>9, <2>1, SlotParts DEF Missing
<1>11. "task" \notin DOMAIN up /\ cancel = {}
         => /\ \A k \in Selectors : y[k] = s[k] \/ (y[k] = Missing /\ s[k].src = "auto")
            /\ "payload" \notin DOMAIN up => \A k \in Keys : y[k] = s[k]
  <2> HAVE "task" \notin DOMAIN up /\ cancel = {}
  <2>1. \A k \in Keys : y[k] = open[k]
    BY <1>8, <1>9
  <2> QED BY <1>7, <2>1, KeysAre
<1> QED BY <1>1, <1>2, <1>4, <1>5, <1>6, <1>9, <1>10, <1>11

LEMMA ExtractedFacts ==
  ASSUME ListedAgrees, HasVariants, NEW s, Good(s), NEW up, Grounded(up), NEW t, NEW id,
         Effective(up, t, id) \in Tasks, NEW cancel, NEW ow,
         ow \/ ("task" \notin DOMAIN up /\ Narrow(s, t) /\ cancel = {}),
         NEW edit, edit.new # None => "payload" \in DOMAIN up
  PROVE  LET x == ExtractedWith(edit, s, up, t, id, cancel, ow)
         IN  /\ Good(x) /\ NoGap(x) /\ Sound(x, Effective(up, t, id))
             /\ Effective(up, t, id) # t /\ Mute(up) => \A k \in Selectors : ~Explicit(x, k)
             /\ Effective(up, t, id) # t /\ "payload" \notin DOMAIN up => x["payload"] = Missing
<1> DEFINE eff == Effective(up, t, id)
<1>1. PICK y, upd, normal :
        /\ ExtractedWith(edit, s, up, t, id, cancel, ow) = ApplyNormal(y, upd, normal, t, id, ow)
        /\ Evaluated(upd) /\ DOMAIN upd \subseteq DOMAIN up
        /\ Effective(upd, t, id) = eff
        /\ DOMAIN upd \cap Selectors = DOMAIN up \cap Selectors
        /\ "task" \in DOMAIN upd <=> "task" \in DOMAIN up
        /\ Good(y)
        /\ eff # t => \A k \in NonInherited : y[k] = Missing
        /\ "task" \notin DOMAIN up /\ cancel = {}
             => /\ \A k \in Selectors : y[k] = s[k] \/ (y[k] = Missing /\ s[k].src = "auto")
                /\ "payload" \notin DOMAIN up => \A k \in Keys : y[k] = s[k]
  BY ExtractedIs
<1> DEFINE x == ApplyNormal(y, upd, normal, t, id, ow)
<1> HIDE DEF eff
<1>2. ow \/ ("task" \notin DOMAIN upd /\ Narrow(y, t))
  <2> SUFFICES ASSUME "task" \notin DOMAIN up, Narrow(s, t), cancel = {}
               PROVE  "task" \notin DOMAIN upd /\ Narrow(y, t)
    OBVIOUS
  <2>1. \A k \in Selectors : Val(y, k) \in {None, Val(s, k)}
    BY <1>1, SameSlot, GoneSlot
  <2> QED BY <1>1, <2>1, KeysAre DEF Narrow
<1>3. /\ Good(x) /\ NoGap(x) /\ Sound(x, eff)
      /\ \A k \in Fields : k \notin DOMAIN upd => x[k] = y[k] \/ x[k] = Missing
      /\ Mute(upd) => \A k \in Selectors : Explicit(x, k) => Explicit(y, k)
  <2>1. Effective(upd, t, id) \in Tasks
    BY <1>1 DEF eff
  <2>2. /\ Good(x) /\ NoGap(x) /\ Sound(x, Effective(upd, t, id))
        /\ \A k \in Fields : k \notin DOMAIN upd => x[k] = y[k] \/ x[k] = Missing
        /\ Mute(upd) => \A k \in Selectors : Explicit(x, k) => Explicit(y, k)
    <3>1. Good(y) /\ Evaluated(upd)
      BY <1>1
    <3>2. ow \/ Mute(upd) \/ ("task" \notin DOMAIN upd /\ Narrow(y, t))
      BY <1>2
    <3> QED BY <2>1, <3>1, <3>2, ApplyFacts
  <2>3. Effective(upd, t, id) = eff
    BY <1>1
  <2> HIDE DEF x
  <2> QED BY <2>2, <2>3
<1> HIDE DEF x
<1>4. eff # t /\ Mute(up) => \A k \in Selectors : ~Explicit(x, k)
  <2>1. Mute(up) => Mute(upd)
    BY <1>1 DEF Mute
  <2>2. eff # t => \A k \in Selectors : ~Explicit(y, k)
    BY <1>1, GoneSlot DEF NonInherited
  <2> QED BY <1>3, <2>1, <2>2
<1>5. eff # t /\ "payload" \notin DOMAIN up => x["payload"] = Missing
  <2>1. "payload" \in Fields /\ "payload" \in NonInherited
    BY DEF Fields, NonInherited
  <2> QED BY <1>1, <1>3, <2>1
<1>6. ExtractedWith(edit, s, up, t, id, cancel, ow) = x
  BY <1>1 DEF x
<1> QED BY <1>3, <1>4, <1>5, <1>6 DEF eff

LEMMA ExtractedKeeps ==
  ASSUME ListedAgrees, NEW s, Good(s), NEW up, Grounded(up), NEW t \in Tasks, NEW id, NEW ow,
         Mute(up), "task" \notin DOMAIN up, Sound(s, t), NoGap(s),
         NEW edit, edit.new # None => "payload" \in DOMAIN up
  PROVE  LET x == ExtractedWith(edit, s, up, t, id, {}, ow)
         IN  /\ \A k \in Selectors : Explicit(s, k) => x[k] = s[k]
             /\ "payload" \notin DOMAIN up => x["payload"] = s["payload"]
             /\ "payload" \notin DOMAIN up /\ Val(x, "type") # None /\ Val(s, "payload") # None
                  => \/ Val(x, "type") = Val(s, "type")
                     \/ /\ Val(x, "type") \in Variants
                        /\ Val(s, "payload") \subseteq Onboard[Val(x, "type")] \cup Supported[Val(x, "type")]
<1>1. PICK y, upd, normal :
        /\ ExtractedWith(edit, s, up, t, id, {}, ow) = ApplyNormal(y, upd, normal, t, id, ow)
        /\ Evaluated(upd) /\ DOMAIN upd \subseteq DOMAIN up
        /\ DOMAIN upd \cap Selectors = DOMAIN up \cap Selectors
        /\ "task" \notin DOMAIN upd
        /\ Good(y)
        /\ \A k \in Selectors : y[k] = s[k] \/ (y[k] = Missing /\ s[k].src = "auto")
        /\ "payload" \notin DOMAIN up => \A k \in Keys : y[k] = s[k]
  BY ExtractedIs
<1> DEFINE x == ApplyNormal(y, upd, normal, t, id, ow)
<1>2. \A k \in Selectors : Explicit(s, k) => y[k] = s[k] /\ Explicit(y, k)
  <2>1. \A k \in Selectors : Explicit(s, k) => y[k] = s[k]
    BY <1>1 DEF Explicit
  <2> QED BY <2>1, SameSlot
<1>3. \A k \in Selectors : Explicit(y, k) => Explicit(s, k) /\ Val(y, k) = Val(s, k)
  BY <1>1, SameSlot, GoneSlot
<1>4. \A k \in Selectors : Val(y, k) \in {None, Val(s, k)}
  BY <1>1, SameSlot, GoneSlot
<1>5. Sound(y, t)
  <2>1. Explicit(y, "class") => ClassFits(t, Val(y, "class"))
    BY <1>3, KeysAre DEF Sound
  <2>2. Explicit(y, "family") => FamilyFits(t, Val(y, "class"), Val(y, "family"))
    <3>1. Explicit(y, "family") => FamilyFits(t, Val(s, "class"), Val(y, "family"))
      BY <1>3, KeysAre DEF Sound
    <3> QED BY <1>4, <3>1, KeysAre DEF FamilyFits
  <2>3. Explicit(y, "type") => TypeFits(t, Val(y, "class"), Val(y, "family"), Val(y, "type"))
    <3>1. Explicit(y, "type") => TypeFits(t, Val(s, "class"), Val(s, "family"), Val(y, "type"))
      BY <1>3, KeysAre DEF Sound
    <3> QED BY <1>4, <3>1, KeysAre DEF TypeFits
  <2>4. Explicit(y, "unit")
          => UnitFits(t, Val(y, "class"), Val(y, "family"), Val(y, "type"), Val(y, "unit"))
    <3>1. Explicit(y, "unit")
            => UnitFits(t, Val(s, "class"), Val(s, "family"), Val(s, "type"), Val(y, "unit"))
      BY <1>3, KeysAre DEF Sound
    <3> QED BY <1>4, <3>1, KeysAre DEF UnitFits
  <2> QED BY <2>1, <2>2, <2>3, <2>4 DEF Sound
<1>6. Mute(upd)
  BY <1>1 DEF Mute
<1>7. /\ \A k \in Selectors : Explicit(y, k) => x[k] = y[k]
      /\ \A k \in Fields : k \notin DOMAIN upd => x[k] = y[k]
      /\ NoGap(y) /\ Val(x, "type") # None /\ "payload" \notin DOMAIN upd /\ Val(y, "payload") # None
           => \/ Val(x, "type") = Val(y, "type")
              \/ /\ Val(x, "type") \in Variants
                 /\ Val(y, "payload") \subseteq Onboard[Val(x, "type")] \cup Supported[Val(x, "type")]
  BY <1>1, <1>5, <1>6, ApplyKeeps
<1> HIDE DEF x
<1>8. \A k \in Selectors : Explicit(s, k) => x[k] = s[k]
  BY <1>2, <1>7
<1>9. ASSUME "payload" \notin DOMAIN up
      PROVE  /\ x["payload"] = s["payload"]
             /\ NoGap(y) /\ Val(y, "type") = Val(s, "type") /\ Val(y, "payload") = Val(s, "payload")
             /\ "payload" \notin DOMAIN upd
  <2>1. \A k \in Keys : y[k] = s[k]
    BY <1>1, <1>9
  <2>2. \A k \in Keys : Val(y, k) = Val(s, k) /\ (Settled(y, k) <=> Settled(s, k))
    BY <2>1, SameSlot DEF Settled
  <2>3. NoGap(y)
    BY <2>2, KeysAre DEF NoGap
  <2>4. "payload" \notin DOMAIN upd /\ "payload" \in Fields
    BY <1>1, <1>9 DEF Fields
  <2> QED BY <1>7, <2>1, <2>2, <2>3, <2>4, KeysAre
<1>10. ExtractedWith(edit, s, up, t, id, {}, ow) = x
  BY <1>1 DEF x
<1> QED BY <1>7, <1>8, <1>9, <1>10

(* The turn that names the first task leaves only robots that are the only     *)
(* ones of the task.                                                           *)
LEMMA FirstFacts ==
  ASSUME ListedAgrees, HasVariants, NEW up, Grounded(up), "task" \in DOMAIN up
  PROVE  LET x == ApplyUpdates(Empty, Only(up, {"task"}), None, FALSE, FALSE)
         IN  Good(x) /\ Narrow(x, up["task"])
<1> DEFINE t == up["task"]
           named == Only(up, {"task"})
<1>1. /\ Evaluated(named) /\ DOMAIN named = {"task"} /\ named["task"] = t /\ t \in Tasks
      /\ Given(named, "task") = t /\ t # None
  <2>1. Grounded(named) /\ DOMAIN named = DOMAIN up \cap {"task"}
    BY OnlyFacts
  <2>2. named["task"] = t
    BY DEF Only
  <2> HIDE DEF named
  <2>3. t \in Tasks /\ t # None
    BY NamesAreApart DEF Grounded
  <2> QED BY <2>1, <2>2, <2>3 DEF Evaluated, Given
<1> HIDE DEF named
<1>2. ~Locked(named, None, FALSE)
  BY DEF Locked
<1>3. Effective(named, None, FALSE) = t
  BY <1>1, <1>2, EffectiveIs DEF Evaluated
<1> HIDE DEF t
<1>4. PICK normal : ApplyUpdates(Empty, named, None, FALSE, FALSE)
                      = ApplyNormal(Empty, named, normal, None, FALSE, FALSE)
  BY DEF ApplyUpdates
<1> DEFINE a == FieldsWritten(Empty, named, normal, FALSE)
           b == HandleTaskType(a, t, None)
           only == Only(named, Selectors \cup normal)
           n == Named(b, named)
           x == AutoCollapse(n, t, down)
<1>5. Good(Empty) /\ \A k \in Keys : Empty[k] = Missing
  BY MissingIsOK DEF Empty, Good
<1>6. Mute(named) /\ DOMAIN named \cap Fields = {}
  BY <1>1, KeysAre DEF Mute, Fields
<1>7. Good(a) /\ \A k \in Keys : a[k] = Missing
  <2>1. /\ Good(a)
        /\ \A k \in Selectors : a[k] = Empty[k]
        /\ \A k \in Fields : k \notin DOMAIN named => a[k] = Empty[k]
    <3> DEFINE no == FALSE
               y == FieldsWritten(Empty, named, normal, no)
    <3> HIDE DEF no
    <3>1. /\ Good(y)
          /\ \A k \in Selectors : y[k] = Empty[k]
          /\ \A k \in Fields : k \notin DOMAIN named => y[k] = Empty[k]
      BY <1>1, <1>5, WrittenFacts
    <3> QED BY <3>1 DEF no
  <2> HIDE DEF a
  <2> QED BY <1>5, <1>6, <2>1, KeysAre DEF Keys
<1> HIDE DEF a
<1>8. Good(b) /\ Altered(a, b)
  BY <1>1, <1>7, TaskTypeFacts
<1> HIDE DEF b
<1>9. HandleEquipmentUpdates(b, only, t, FALSE) = b
  <2>1. DOMAIN only = DOMAIN named \cap (Selectors \cup normal)
    BY <1>1, OnlyFacts DEF Evaluated
  <2> HIDE DEF only
  <2>2. DOMAIN only \cap Selectors = {}
    BY <1>6, <2>1 DEF Mute
  <2> QED BY <2>2 DEF HandleEquipmentUpdates
<1>10. ApplyNormal(Empty, named, normal, None, FALSE, FALSE) = x
  BY <1>1, <1>2, <1>3, <1>9 DEF ApplyNormal, a, b
<1>11. Good(n) /\ \A k \in Keys : n[k] = b[k]
  BY <1>6, <1>8, NamedFacts DEF Mute
<1> HIDE DEF n
<1>12. \A k \in Selectors : ~Explicit(n, k)
  <2>1. \A k \in Selectors : ~Explicit(a, k)
    BY <1>7, GoneSlot, KeysAre
  <2>2. \A k \in Selectors : ~Explicit(b, k)
    BY <1>8, <2>1, AlteredExplicit
  <2> QED BY <1>11, <2>2, SameSlot, KeysAre
<1>13. Need(n) = NoNeed
  <2>1. n["depth"] = Missing /\ n["payload"] = Missing
    BY <1>7, <1>8, <1>11, KeysAre DEF Altered
  <2>2. Val(n, "depth") = None /\ Val(n, "payload") = None
    BY <2>1, GoneSlot
  <2> QED BY <2>2 DEF Need, NoNeed
<1>14. Sound(n, t)
  BY <1>12, KeysAre DEF Sound
<1>15. Good(x) /\ Altered(n, x)
  BY <1>1, <1>11, CollapseSound
<1>16. \A k \in Selectors : IsAuto(x, k) /\ Val(x, k) # None /\ ~Firm(x, k) => Bound(x, k, Open(t), down)
  BY <1>1, <1>11, <1>13, <1>14, CollapseFits DEF Open
<1> HIDE DEF x
<1>17. \A k \in Selectors : ~Explicit(x, k)
  BY <1>12, <1>15, AlteredExplicit
<1>18. \A k \in Selectors : Val(x, k) # None => Bound(x, k, Open(t), down)
  <2> TAKE k \in Selectors
  <2> HAVE Val(x, k) # None
  <2>1. IsAuto(x, k)
    BY <1>17 DEF Explicit, IsAuto, Val
  <2>2. ~Firm(x, k)
    BY <1>17 DEF Firm
  <2> QED BY <1>16, <2>1, <2>2
<1>19. Val(x, "class") # None => ClassesOf(Open(t)) = {ClassId(Val(x, "class"))}
  BY <1>18, BoundIs, KeysAre
<1>20. Val(x, "family") # None => FamiliesOf(Open(t)) \subseteq {Val(x, "family")}
  <2> HAVE Val(x, "family") # None
  <2>1. Bound(x, "family", Open(t), down)
    BY <1>18, KeysAre
  <2>2. {f \in FamiliesOf(Open(t)) : ClassOf[f] = ClassId(Val(x, "class"))} = {Val(x, "family")}
    BY <2>1, BoundIs
  <2>3. Val(x, "class") # None
    <3>1. Open(t) \subseteq Open(t) /\ "family" \in Selectors /\ Depth["class"] < Depth["family"]
          /\ "class" \in Selectors
      BY KeysAre
    <3> QED BY <1>1, <2>1, <3>1, BoundFits
  <2>4. \A f \in FamiliesOf(Open(t)) : ClassOf[f] \in ClassesOf(Open(t))
    BY DEF ClassesOf
  <2> QED BY <1>19, <2>2, <2>3, <2>4
<1>21. Narrow(x, t)
  BY <1>19, <1>20 DEF Narrow
<1> QED BY <1>4, <1>10, <1>15, <1>21 DEF named, t

(*************************** the invariant ***********************************)
(* Between two turns: every selector fits, none is skipped above a valid one,  *)
(* and nothing waits to be validated.                                          *)
IInv ==
  /\ task \in Tasks \cup {None} /\ reserved \in BOOLEAN
  /\ down \subseteq Units /\ said \subseteq {"task", "robot", "payload"}
  /\ Good(slots) /\ NoGap(slots) /\ \A k \in Keys : slots[k].st # "candidate"
  /\ task = None => ~reserved /\ slots = Empty
  /\ task # None => AllFit(slots, task)
  /\ Carried(slots)
  /\ Val(slots, "payload") # None => Val(slots, "payload") # {}

LEMMA EmptyIs ==
  /\ Good(Empty) /\ NoGap(Empty) /\ Carried(Empty)
  /\ \A k \in Keys : Empty[k] = Missing /\ Empty[k].st = "missing" /\ Val(Empty, k) = None
<1>1. Good(Empty) /\ \A k \in Keys : Empty[k] = Missing
  BY MissingIsOK DEF Empty, Good
<1>2. \A k \in Keys : Val(Empty, k) = None /\ Empty[k].st = "missing"
  BY <1>1, GoneSlot, SlotParts DEF Missing
<1>3. NoGap(Empty)
  BY <1>2, KeysAre DEF NoGap
<1>4. Carried(Empty)
  BY <1>2, KeysAre DEF Carried
<1> QED BY <1>1, <1>2, <1>3, <1>4

LEMMA InputFacts ==
  ASSUME NEW up \in Inputs
  PROVE  Grounded(up)
BY InputsAreGrounded DEF Grounded

LEMMA TurnFacts ==
  ASSUME ListedAgrees, HasVariants, IInv, NEW up \in Inputs, NEW cancel \in {{}, Conflicts},
         task = None => "task" \in DOMAIN up
  PROVE  LET s == AfterTurn(up, cancel)
             eff == Effective(up, task, reserved)
         IN  /\ eff \in Tasks /\ Good(s) /\ NoGap(s) /\ Sound(s, eff)
             /\ task # None /\ eff # task /\ Mute(up) => \A k \in Selectors : ~Explicit(s, k)
             /\ task # None /\ eff # task /\ "payload" \notin DOMAIN up => s["payload"] = Missing
<1> DEFINE s == AfterTurn(up, cancel)
           eff == Effective(up, task, reserved)
<1>1. Grounded(up)
  BY InputFacts
<1>2. eff \in Tasks
  <2>1. CASE task = None
    <3>1. "task" \in DOMAIN up /\ ~reserved
      BY <2>1 DEF IInv
    <3>2. ~Locked(up, task, reserved)
      BY <3>1 DEF Locked
    <3> QED BY <1>1, <3>1, <3>2, EffectiveIs
  <2>2. CASE task # None
    BY <1>1, <2>2, EffectiveIs DEF IInv
  <2> QED BY <2>1, <2>2
<1>3. \A x, u, t, id : PayloadEdit(x, u, t, id).new # None => "payload" \in DOMAIN u
  BY DEF PayloadEdit, NoEdit
<1>4. CASE task # None
  <2> DEFINE edit == PayloadEdit(slots, up, task, reserved)
             x == ExtractedWith(edit, slots, up, task, reserved, cancel, TRUE)
  <2>1. s = x
    BY <1>4 DEF AfterTurn, Extracted
  <2>2. edit.new # None => "payload" \in DOMAIN up
    BY <1>3
  <2> HIDE DEF edit, s
  <2>3. Good(slots)
    BY DEF IInv
  <2>4. /\ Good(x) /\ NoGap(x) /\ Sound(x, eff)
        /\ eff # task /\ Mute(up) => \A k \in Selectors : ~Explicit(x, k)
        /\ eff # task /\ "payload" \notin DOMAIN up => x["payload"] = Missing
    BY <1>1, <1>2, <2>2, <2>3, ExtractedFacts
  <2> HIDE DEF x, eff
  <2> QED BY <1>2, <2>1, <2>4 DEF s, eff
<1>5. CASE task = None
  <2> DEFINE t == up["task"]
             rest == Only(up, DOMAIN up \ {"task"})
             first == ApplyUpdates(slots, Only(up, {"task"}), None, FALSE, FALSE)
             edit == PayloadEdit(first, rest, t, FALSE)
             x == ExtractedWith(edit, first, rest, t, FALSE, cancel, FALSE)
  <2>1. /\ "task" \in DOMAIN up /\ ~reserved /\ slots = Empty /\ t \in Tasks
        /\ cancel = {}
    <3>1. "task" \in DOMAIN up /\ ~reserved /\ slots = Empty /\ t \in Tasks
      BY <1>1, <1>5 DEF IInv, Grounded
    <3>2. Conflicts = {}
      BY <3>1, EmptyIs DEF Conflicts
    <3> QED BY <3>1, <3>2
  <2>2. s = x
    BY <1>5 DEF AfterTurn, Extracted
  <2>3. Good(first) /\ Narrow(first, t)
    BY <1>1, <2>1, FirstFacts
  <2>4. edit.new # None => "payload" \in DOMAIN rest
    BY <1>3
  <2>5. Grounded(rest) /\ "task" \notin DOMAIN rest
    <3>1. Grounded(rest) /\ DOMAIN rest = DOMAIN up \cap (DOMAIN up \ {"task"})
      BY <1>1, OnlyFacts
    <3> HIDE DEF rest
    <3> QED BY <3>1
  <2> HIDE DEF edit, first, rest, s
  <2>6. Effective(rest, t, FALSE) = t
    <3> DEFINE no == FALSE
    <3> HIDE DEF no
    <3>1. Effective(rest, t, no) = t
      BY <2>5, EffectiveIs
    <3> QED BY <3>1 DEF no
  <2>7. Good(x) /\ NoGap(x) /\ Sound(x, t)
    <3> DEFINE no == FALSE
               y == ExtractedWith(edit, first, rest, t, no, {}, no)
    <3>1. Effective(rest, t, no) = t /\ t \in Tasks
      BY <2>1, <2>6
    <3> HIDE DEF no
    <3>2. Effective(rest, t, no) \in Tasks
      BY <3>1
    <3>3. Good(y) /\ NoGap(y) /\ Sound(y, Effective(rest, t, no))
      <4> HIDE DEF t
      <4> QED BY <2>3, <2>4, <2>5, <3>2, ExtractedFacts
    <3>4. Good(y) /\ NoGap(y) /\ Sound(y, t)
      <4> HIDE DEF y
      <4> QED BY <3>1, <3>3
    <3> QED BY <2>1, <3>4 DEF no
  <2>8. eff = t
    <3>1. ~Locked(up, task, reserved)
      BY <2>1 DEF Locked
    <3> QED BY <1>1, <2>1, <3>1, EffectiveIs
  <2> HIDE DEF x, eff, t
  <2> QED BY <1>2, <1>5, <2>2, <2>7, <2>8 DEF s, eff
<1> QED BY <1>4, <1>5

LEMMA NamesIs ==
  ASSUME NEW up, Grounded(up)
  PROVE  Names(up) <=> ~Mute(up)
<1>1. \A c, f, v, w : Lineage(c, f, v, w) = NoLineage
                        <=> c = None /\ f = None /\ v = None /\ w = None
  BY DEF NoLineage, Lineage
<1>2. Names(up) <=> ~(\A k \in Selectors : Given(up, k) = None)
  BY <1>1, KeysAre DEF Names, SelectorsOf
<1>3. \A k \in Selectors : Given(up, k) # None <=> k \in DOMAIN up
  BY GivenIs
<1> QED BY <1>2, <1>3 DEF Mute

LEMMA InitInvariant ==
  ASSUME Init PROVE IInv
<1>1. task = None /\ ~reserved /\ reserved \in BOOLEAN /\ slots = Empty /\ down = {} /\ said = {}
  BY DEF Init
<1>2. Good(slots) /\ NoGap(slots) /\ Carried(slots) /\ Val(slots, "payload") = None
      /\ \A k \in Keys : slots[k].st # "candidate"
  BY <1>1, EmptyIs, KeysAre
<1> QED BY <1>1, <1>2 DEF IInv

LEMMA TurnInvariant ==
  ASSUME ListedAgrees, HasVariants, IInv, NEW up \in Inputs, NEW cancel \in {{}, Conflicts},
         Turn(up, cancel)
  PROVE  IInv'
<1> DEFINE s == AfterTurn(up, cancel)
           x == NormalizeAndValidate(s, task')
<1>1. /\ task = None => "task" \in DOMAIN up
      /\ task' = Effective(up, task, reserved) /\ slots' = x
      /\ reserved' = reserved /\ down' = down
      /\ said' \subseteq {"task", "robot", "payload"}
  BY DEF Turn
<1>2. task' \in Tasks /\ Good(s) /\ NoGap(s) /\ Sound(s, task')
  BY <1>1, TurnFacts
<1> HIDE DEF s
<1>3. /\ Good(x) /\ NoGap(x) /\ AllFit(x, task') /\ Carried(x)
      /\ \A k \in Keys : x[k].st # "candidate"
      /\ Val(x, "payload") # None => Val(x, "payload") # {}
  BY <1>2, ValidateFacts
<1> HIDE DEF x
<1>4. task' # None
  BY <1>2, NamesAreApart
<1>5. reserved' \in BOOLEAN /\ down' \subseteq Units
  BY <1>1 DEF IInv
<1> QED BY <1>1, <1>2, <1>3, <1>4, <1>5 DEF IInv

LEMMA StepInvariant ==
  ASSUME ListedAgrees, HasVariants, IInv, [Next]_vars
  PROVE  IInv'
<1>1. ASSUME NEW up \in Inputs, NEW cancel \in {{}, Conflicts}, Turn(up, cancel)
      PROVE  IInv'
  BY <1>1, TurnInvariant
<1>2. CASE ReserveId
  BY <1>2 DEF IInv, ReserveId
<1>3. ASSUME NEW w \in Watched, Report(w)
      PROVE  IInv'
  <2>1. w \in Units
    BY <1>3, WatchedAreUnits
  <2>2. down' \subseteq Units
    BY <1>3, <2>1 DEF IInv, Report
  <2> QED BY <1>3, <2>2 DEF IInv, Report
<1>4. CASE NewTask
  <2>1. task' = None /\ ~reserved' /\ reserved' \in BOOLEAN /\ slots' = Empty /\ down' = down /\ said' = {}
    BY <1>4 DEF NewTask
  <2>2. Good(slots') /\ NoGap(slots') /\ Carried(slots') /\ Val(slots', "payload") = None
        /\ \A k \in Keys : slots'[k].st # "candidate"
    BY <2>1, EmptyIs, KeysAre
  <2> QED BY <2>1, <2>2 DEF IInv
<1>5. CASE UNCHANGED vars
  BY <1>5 DEF IInv, vars
<1> QED BY <1>1, <1>2, <1>3, <1>4, <1>5 DEF Next

(****************************** the theorems *********************************)
(* Types, for every fleet whose tasks list the classes they admit.             *)
THEOREM TypeCorrect ==
  ASSUME ListedAgrees, HasVariants PROVE Spec => []TypeOK
<1>1. IInv => TypeOK
  <2> HAVE IInv
  <2>1. DOMAIN slots = Keys /\ \A k \in Keys : SlotOK(k, slots[k]) /\ slots[k].st # "candidate"
    BY DEF IInv, Good
  <2>2. \A k \in Keys : /\ slots[k].st \in {"missing", "valid", "invalid", "conflict"}
                        /\ slots[k].src \in Sources
                        /\ slots[k].st = "missing" => slots[k].val = None
    BY <2>1 DEF SlotOK, States
  <2> QED BY <2>1, <2>2 DEF IInv, TypeOK
<1> QED BY <1>1, InitInvariant, StepInvariant, PTL DEF Spec

(* The valid selectors of a draft always name one line of the fleet that the   *)
(* task admits, whatever the automatic choice filled in above a selector that  *)
(* the same turn then dropped.                                                 *)
THEOREM OneLineageHolds ==
  ASSUME ListedAgrees, HasVariants PROVE Spec => []OneLineage
<1>1. IInv => OneLineage
  <2> SUFFICES ASSUME IInv, task # None, Selected(slots) # NoLineage
               PROVE  Canonical(Selected(slots), task) # None
    BY DEF OneLineage
  <2> DEFINE c == Val(slots, "class")
             f == Val(slots, "family")
             v == Val(slots, "type")
             w == Val(slots, "unit")
  <2>1. /\ c \in ClassValues /\ f \in Families \cup {None}
        /\ v \in Variants \cup {None} /\ w \in Units \cup {None}
    BY ValuesOK DEF IInv
  <2>2. /\ ClassFits(task, c) /\ FamilyFits(task, c, f) /\ TypeFits(task, c, f, v)
        /\ UnitFits(task, c, f, v, w) /\ task \in Tasks
    BY DEF IInv, AllFit
  <2>3. Selected(slots) = Lineage(c, f, v, w)
    BY DEF Selected
  <2>4. c # None \/ f # None \/ v # None \/ w # None
    BY <2>3 DEF NoLineage
  <2> QED BY <2>1, <2>2, <2>3, <2>4, FittingHasALine
<1> QED BY <1>1, InitInvariant, StepInvariant, PTL DEF Spec

(* The robot a draft ends up with carries its payload.                         *)
THEOREM PayloadIsCarried ==
  ASSUME ListedAgrees, HasVariants PROVE Spec => []PayloadCarried
<1>1. IInv => PayloadCarried
  BY DEF IInv, Carried, PayloadCarried
<1> QED BY <1>1, InitInvariant, StepInvariant, PTL DEF Spec

(* A turn, seen from the draft before it.                                      *)
LEMMA TurnKeeps ==
  ASSUME ListedAgrees, HasVariants, IInv, NEW up \in Inputs, Turn(up, {}),
         task # None, Mute(up), "task" \notin DOMAIN up
  PROVE  /\ \A k \in Selectors : Explicit(slots, k) => slots'[k] = slots[k]
         /\ "payload" \notin DOMAIN up /\ PlainAndLegal => slots'["payload"] = slots["payload"]
<1> DEFINE s == AfterTurn(up, {})
           edit == PayloadEdit(slots, up, task, reserved)
           x == NormalizeAndValidate(s, task')
<1>1. Grounded(up) /\ Effective(up, task, reserved) = task
  BY InputFacts, EffectiveIs
<1>2. task' = task /\ slots' = x /\ task \in Tasks
  BY <1>1 DEF Turn, IInv
<1>3. s = ExtractedWith(edit, slots, up, task, reserved, {}, TRUE)
  BY DEF AfterTurn, Extracted
<1>4. Good(s) /\ NoGap(s) /\ Sound(s, task)
  <2>1. {} \in {{}, Conflicts}
    OBVIOUS
  <2> QED BY <1>1, <2>1, TurnFacts
<1>5. edit.new # None => "payload" \in DOMAIN up
  BY DEF PayloadEdit, NoEdit
<1>6. Good(slots) /\ NoGap(slots) /\ Sound(slots, task)
  BY DEF IInv, AllFit, Sound
<1> HIDE DEF edit
<1>7. /\ \A k \in Selectors : Explicit(slots, k) => s[k] = slots[k]
      /\ "payload" \notin DOMAIN up => s["payload"] = slots["payload"]
      /\ "payload" \notin DOMAIN up /\ Val(s, "type") # None /\ Val(slots, "payload") # None
           => \/ Val(s, "type") = Val(slots, "type")
              \/ /\ Val(s, "type") \in Variants
                 /\ Val(slots, "payload") \subseteq Onboard[Val(s, "type")] \cup Supported[Val(s, "type")]
  <2> DEFINE yes == TRUE
             y == ExtractedWith(edit, slots, up, task, reserved, {}, yes)
  <2> HIDE DEF yes, s
  <2>1. /\ \A k \in Selectors : Explicit(slots, k) => y[k] = slots[k]
        /\ "payload" \notin DOMAIN up => y["payload"] = slots["payload"]
        /\ "payload" \notin DOMAIN up /\ Val(y, "type") # None /\ Val(slots, "payload") # None
             => \/ Val(y, "type") = Val(slots, "type")
                \/ /\ Val(y, "type") \in Variants
                   /\ Val(slots, "payload") \subseteq Onboard[Val(y, "type")] \cup Supported[Val(y, "type")]
    BY <1>1, <1>2, <1>5, <1>6, ExtractedKeeps
  <2>2. s = y
    BY <1>3 DEF yes
  <2> HIDE DEF y
  <2> QED BY <2>1, <2>2
<1> HIDE DEF s
<1>8. /\ \A k \in Selectors : Explicit(s, k) => x[k] = s[k]
      /\ Val(s, "payload") \notin {None, {}}
           => (Val(s, "payload") \subseteq PayloadChoices(Val(s, "type"), task)
                 => x["payload"] = s["payload"])
  BY <1>2, <1>4, ValidateFacts
<1> HIDE DEF x
<1>9. ASSUME NEW k \in Selectors, Explicit(slots, k) PROVE x[k] = slots[k]
  <2>1. s[k] = slots[k]
    BY <1>7, <1>9
  <2>2. Explicit(s, k)
    BY <1>9, <2>1, SameSlot
  <2> QED BY <1>8, <2>1, <2>2
<1>10. ASSUME "payload" \notin DOMAIN up, PlainAndLegal PROVE x["payload"] = slots["payload"]
  <2> DEFINE p == Val(slots, "payload")
             v == Val(s, "type")
  <2>1. /\ p # None /\ p \subseteq PayloadChoices(Val(slots, "type"), task)
        /\ p \subseteq Common[task]
        /\ \A r \in Variants : p \cap Onboard[r] \subseteq Supported[r]
    BY <1>10 DEF PlainAndLegal
  <2>2. p # {}
    BY <2>1 DEF IInv
  <2>3. Val(s, "payload") = p /\ s["payload"] = slots["payload"]
    BY <1>7, <1>10, SameSlot
  <2>4. p \subseteq PayloadChoices(v, task)
    <3>1. CASE v = None
      BY <2>1, <3>1 DEF PayloadChoices
    <3>2. CASE v = Val(slots, "type")
      BY <2>1, <3>2
    <3>3. CASE v # None /\ v \in Variants /\ p \subseteq Onboard[v] \cup Supported[v]
      <4>1. p \subseteq Supported[v]
        BY <2>1, <3>3
      <4> QED BY <3>3, <4>1 DEF PayloadChoices
    <3> QED BY <1>7, <1>10, <2>1, <3>1, <3>2, <3>3
  <2> QED BY <1>8, <2>1, <2>2, <2>3, <2>4
<1> QED BY <1>2, <1>9, <1>10

(* What the draft chose by itself was the only choice left.                    *)
THEOREM ChoiceIsForced ==
  ASSUME ListedAgrees, HasVariants PROVE Spec => AutoIsForced
<1> DEFINE Goal == task' # None /\ slots' # slots => Forced(slots', task')
<1>1. ASSUME IInv, NEW up \in Inputs, NEW cancel \in {{}, Conflicts}, Turn(up, cancel)
      PROVE  Goal
  <2> DEFINE s == AfterTurn(up, cancel)
  <2>1. /\ task = None => "task" \in DOMAIN up
        /\ task' = Effective(up, task, reserved) /\ slots' = NormalizeAndValidate(s, task')
    BY <1>1 DEF Turn
  <2>2. task' \in Tasks /\ Good(s) /\ NoGap(s) /\ Sound(s, task')
    BY <1>1, <2>1, TurnFacts
  <2> HIDE DEF s
  <2>3. Forced(NormalizeAndValidate(s, task'), task')
    BY <2>2, ValidateFacts
  <2> QED BY <2>1, <2>3
<1>2. ASSUME IInv, Next PROVE Goal
  <2>1. CASE ReserveId
    BY <2>1 DEF ReserveId
  <2>2. ASSUME NEW w \in Watched, Report(w) PROVE Goal
    BY <2>2 DEF Report
  <2>3. CASE NewTask
    BY <2>3 DEF NewTask
  <2> HIDE DEF Goal
  <2> QED BY <1>1, <1>2, <2>1, <2>2, <2>3 DEF Next
<1>3. IInv /\ [Next]_vars => [Goal]_vars
  BY <1>2
<1> QED BY <1>3, InitInvariant, StepInvariant, PTL DEF Spec, AutoIsForced

(* What the user chose survives a turn that is not about it, although the      *)
(* robots are recomputed at least twice in it.                                 *)
THEOREM ChoiceIsKept ==
  ASSUME ListedAgrees, HasVariants PROVE Spec => UserChoiceKept
<1> DEFINE Goal ==
             task' # None /\ said' \cap {"robot", "task"} = {} /\ Conflicts = {}
               => /\ \A k \in Selectors : Val(slots, k) # None /\ slots[k].src = "user"
                                            => slots'[k] = slots[k]
                  /\ "payload" \notin said' /\ PlainAndLegal
                       => slots'["payload"] = slots["payload"]
<1>1. ASSUME IInv, NEW up \in Inputs, NEW cancel \in {{}, Conflicts}, Turn(up, cancel)
      PROVE  Goal
  <2> SUFFICES ASSUME said' \cap {"robot", "task"} = {}, Conflicts = {}
               PROVE  /\ \A k \in Selectors : Val(slots, k) # None /\ slots[k].src = "user"
                                                => slots'[k] = slots[k]
                      /\ "payload" \notin said' /\ PlainAndLegal
                           => slots'["payload"] = slots["payload"]
    OBVIOUS
  <2>1. /\ task = None => "task" \in DOMAIN up
        /\ said' = {c \in {"task", "payload"} : c \in DOMAIN up}
                   \cup (IF Names(up) THEN {"robot"} ELSE {})
    BY <1>1 DEF Turn
  <2>2. "task" \notin DOMAIN up /\ ~Names(up) /\ ("payload" \in DOMAIN up => "payload" \in said')
    BY <2>1
  <2>3. Mute(up)
    BY <2>2, InputFacts, NamesIs
  <2>4. Turn(up, {})
    BY <1>1
  <2>5. /\ \A k \in Selectors : Explicit(slots, k) => slots'[k] = slots[k]
        /\ "payload" \notin DOMAIN up /\ PlainAndLegal => slots'["payload"] = slots["payload"]
    BY <1>1, <2>1, <2>2, <2>3, <2>4, TurnKeeps
  <2>6. \A k \in Selectors : Val(slots, k) # None /\ slots[k].src = "user" => Explicit(slots, k)
    BY DEF Explicit
  <2> QED BY <2>2, <2>5, <2>6
<1>2. ASSUME IInv, Next PROVE Goal
  <2>1. CASE ReserveId
    BY <2>1 DEF ReserveId
  <2>2. ASSUME NEW w \in Watched, Report(w) PROVE Goal
    BY <2>2 DEF Report
  <2>3. CASE NewTask
    BY <2>3 DEF NewTask
  <2> HIDE DEF Goal
  <2> QED BY <1>1, <1>2, <2>1, <2>2, <2>3 DEF Next
<1>3. IInv /\ [Next]_vars => [Goal]_vars
  BY <1>2
<1> QED BY <1>3, InitInvariant, StepInvariant, PTL DEF Spec, UserChoiceKept

(* Another task inherits neither robots nor payload.                           *)
THEOREM SwitchIsClean ==
  ASSUME ListedAgrees, HasVariants PROVE Spec => SwitchStartsClean
<1> DEFINE Goal ==
             task # None /\ task' \notin {None, task}
               => /\ "robot" \notin said' => DeepestExplicit(slots') = 0
                  /\ "payload" \notin said' => Val(slots', "payload") = None
<1>1. ASSUME IInv, NEW up \in Inputs, NEW cancel \in {{}, Conflicts}, Turn(up, cancel)
      PROVE  Goal
  <2> DEFINE s == AfterTurn(up, cancel)
             x == NormalizeAndValidate(s, task')
  <2> SUFFICES ASSUME task # None, task' # task
               PROVE  /\ "robot" \notin said' => DeepestExplicit(slots') = 0
                      /\ "payload" \notin said' => Val(slots', "payload") = None
    OBVIOUS
  <2>1. /\ task' = Effective(up, task, reserved) /\ slots' = x
        /\ said' = {c \in {"task", "payload"} : c \in DOMAIN up}
                   \cup (IF Names(up) THEN {"robot"} ELSE {})
    BY <1>1 DEF Turn
  <2>2. /\ task' \in Tasks /\ Good(s) /\ NoGap(s) /\ Sound(s, task')
        /\ Mute(up) => \A k \in Selectors : ~Explicit(s, k)
        /\ "payload" \notin DOMAIN up => s["payload"] = Missing
    BY <1>1, <2>1, TurnFacts
  <2> HIDE DEF s
  <2>3. /\ \A k \in Selectors : Explicit(x, k) => Explicit(s, k)
        /\ s["payload"] = Missing => Val(x, "payload") = None
    BY <2>2, ValidateFacts
  <2> HIDE DEF x
  <2>4. "robot" \notin said' => Mute(up)
    BY <2>1, InputFacts, NamesIs
  <2>5. "payload" \notin said' => "payload" \notin DOMAIN up
    BY <2>1
  <2>6. (\A k \in Selectors : ~Explicit(x, k)) => DeepestExplicit(x) = 0
    BY DEF DeepestExplicit, Explicit
  <2> QED BY <2>1, <2>2, <2>3, <2>4, <2>5, <2>6
<1>2. ASSUME IInv, Next PROVE Goal
  <2>1. CASE ReserveId
    BY <2>1 DEF ReserveId
  <2>2. ASSUME NEW w \in Watched, Report(w) PROVE Goal
    BY <2>2 DEF Report
  <2>3. CASE NewTask
    BY <2>3 DEF NewTask
  <2> HIDE DEF Goal
  <2> QED BY <1>1, <1>2, <2>1, <2>2, <2>3 DEF Next
<1>3. IInv /\ [Next]_vars => [Goal]_vars
  BY <1>2
<1> QED BY <1>3, InitInvariant, StepInvariant, PTL DEF Spec, SwitchStartsClean

=============================================================================
