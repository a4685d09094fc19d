-------------------------- MODULE VersionedRegister --------------------------
(* What the robot state store promises its readers: each robot has a version  *)
(* and a content, and every write to a robot adds one to its version and      *)
(* leaves the other robots alone.                                             *)
EXTENDS Naturals

CONSTANTS Robots, Contents,
          First  \* First[r]: what is known of r at the start

VARIABLE reg  \* reg[r]: version and content of robot r

Entry == [ver: Nat, st: Contents]

Init == reg \in [Robots -> Entry] /\ reg = First

Write(r, c) == reg' = [reg EXCEPT ![r] = [ver |-> @.ver + 1, st |-> c]]

Next == \E r \in Robots, c \in Contents : Write(r, c)

Spec == Init /\ [][Next]_reg
=============================================================================
