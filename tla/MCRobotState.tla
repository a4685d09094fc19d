----------------------------- MODULE MCRobotState -----------------------------
(* Two robots of one family; the second's own name, which requests use, is     *)
(* also the name of the first's variant. The file still lists a third that has *)
(* left the fleet.                                                             *)
EXTENDS RobotState, TLC

CONSTANTS c1, c2, r1, r2, r3

Names == [unit |-> r1 :> {} @@ r2 :> {"second"} @@ r3 :> {},
          variant |-> r1 :> {"second"} @@ r2 :> {} @@ r3 :> {},
          family |-> r1 :> {"any"} @@ r2 :> {"any"} @@ r3 :> {},
          ref |-> r1 :> {} @@ r2 :> {"second"} @@ r3 :> {"left"}]

OneLeft == [sv |-> 1, robots |-> [r \in Robots |->
             IF r = r3 THEN [ver |-> 1, st |-> [overall |-> "idle", busy |-> "no"]] ELSE Blank]]

\* Reports of the overall status only.
Reports == {[overall |-> o, busy |-> "none"] : o \in {"busy", "idle"}}
=============================================================================
