---------------------------- MODULE RobotSelection ----------------------------
(* The robot fleet as a tree (class, family, variant, unit) and the two        *)
(* questions the draft asks of it: which robots a task and its present         *)
(* parameters leave open, and whether a set of selectors names one line of     *)
(* the tree that the task admits.                                              *)
(*                                                                             *)
(* Names, aliases and model codes are resolved before they get here, so a      *)
(* selector is a node of the tree or Unknown.  A class is the exception: the   *)
(* automatic choice stores its display name and every other writer its id.     *)
EXTENDS Naturals, FiniteSets

CONSTANTS
  Classes, Families, Variants, Units, \* the four levels of the fleet
  ClassOf, FamilyOf, VariantOf,       \* the parent of a family, variant, unit
  Tasks, Capabilities, Required,      \* of a family; demanded by a task
  Listed,                             \* allowed_robot_classes of a task
  MaxDepth, Onboard, Supported,       \* of a variant
  Common,                             \* payloads a task offers before a robot
  Payloads, None, Unknown

ASSUME FleetIsATree ==
  /\ ClassOf \in [Families -> Classes]
  /\ FamilyOf \in [Variants -> Families]
  /\ VariantOf \in [Units -> Variants]
  /\ \A level \in {Classes, Families, Variants, Units} : IsFiniteSet(level)

Label(c) == [label |-> c]
ClassId(v) == IF v \in Classes \cup {None, Unknown} THEN v ELSE v.label

ASSUME NamesAreApart ==
  /\ {None, Unknown} \cap (Classes \cup Families \cup Variants \cup Units) = {}
  /\ None \notin Tasks /\ None # Unknown
  /\ \A c \in Classes : Label(c) \notin Classes \cup {None, Unknown}

Admits(t, f) == Required[t] \subseteq Capabilities[f]

(* Two facts of the shipped task_schemas.yaml and robot_fleet.yaml on which the *)
(* theorems about drafts rest: a task lists the classes of the families it     *)
(* admits (else a unit it admits has no line that it admits), and no family is *)
(* without a robot (else it could be told, and would have no domain).          *)
ListedAgrees == \A t \in Tasks, f \in Families : Admits(t, f) => ClassOf[f] \in Listed[t]
HasVariants == \A f \in Families : \E v \in Variants : FamilyOf[v] = f

Eligible(v, need) ==
  /\ need.depth # None => need.depth <= MaxDepth[v]
  /\ need.payload # None => need.payload \subseteq Onboard[v] \cup Supported[v]

NoNeed == [depth |-> None, payload |-> None]

(* A selection domain is its set of variants: a class or a family is in it     *)
(* when one of its variants is.                                                *)
Domain(t, need) == {v \in Variants : Admits(t, FamilyOf[v]) /\ Eligible(v, need)}
FamiliesOf(d) == {FamilyOf[v] : v \in d}
ClassesOf(d) == {ClassOf[f] : f \in FamiliesOf(d)}

(* The runtime filter looks only at tasks that start within the hour.          *)
FreeUnits(v, soon, down) ==
  {w \in Units : VariantOf[w] = v /\ (soon => w \notin down)}

ListRobotClasses(t) == ClassesOf(Domain(t, NoNeed))

ListRobotFamilies(c, t) == {f \in FamiliesOf(Domain(t, NoNeed)) : ClassOf[f] = c}

ListRobotVariants(c, f, t) ==
  IF /\ f \in Families /\ ClassOf[f] = c /\ c \in Listed[t]
  THEN {v \in Domain(t, NoNeed) : FamilyOf[v] = f}
  ELSE {}

Lineage(c, f, v, w) == [class |-> c, family |-> f, type |-> v, unit |-> w]
NoLineage == Lineage(None, None, None, None)

ASSUME LinesAreNotNone ==
  \A c \in Classes, f \in Families \cup {None}, v \in Variants \cup {None}, w \in Units \cup {None} :
    Lineage(c, f, v, w) # None

ValidStatic(c, f, v, w, t) ==
  w \in Units /\ VariantOf[w] = v /\ v \in ListRobotVariants(c, f, t)

Or(x, default) == IF x = None THEN default ELSE x

(* The line of the deepest selector, None when a selector contradicts it or    *)
(* the task does not admit it.                                                 *)
UnitLine(c, family, type, w, t) ==
  LET v == VariantOf[w]
      f == FamilyOf[v]
  IN  IF /\ Admits(t, f)
         /\ ValidStatic(Or(c, ClassOf[f]), Or(family, f), Or(type, v), w, t)
      THEN Lineage(ClassOf[f], f, v, w) ELSE None

VariantLine(c, family, v, t) ==
  LET f == FamilyOf[v]
  IN  IF v \in ListRobotVariants(Or(c, ClassOf[f]), Or(family, f), t)
      THEN Lineage(ClassOf[f], f, v, None) ELSE None

FamilyLine(c, f, t) ==
  IF c \in {None, ClassOf[f]} /\ f \in ListRobotFamilies(ClassOf[f], t)
  THEN Lineage(ClassOf[f], f, None, None) ELSE None

ClassLine(c, t) == IF c \in ListRobotClasses(t) THEN Lineage(c, None, None, None) ELSE None

Canonical(sel, t) ==
  LET c == ClassId(sel.class)
  IN  IF Unknown \in {sel.unit, sel.type, sel.family} THEN None
      ELSE IF sel.unit # None THEN UnitLine(c, sel.family, sel.type, sel.unit, t)
      ELSE IF sel.type # None THEN VariantLine(c, sel.family, sel.type, t)
      ELSE IF sel.family # None THEN FamilyLine(c, sel.family, t)
      ELSE IF sel.class # None THEN ClassLine(c, t)
      ELSE None

(* What a payload may be chosen from: the tools of the chosen variant, before  *)
(* one is chosen the tools the task offers.                                    *)
(* mutant: the tools of the task also when a robot is chosen *)
ChoicesOfTask(v, t) == Common[t]
PayloadChoices(v, t) == IF v = None THEN Common[t] ELSE Supported[v]
=============================================================================
