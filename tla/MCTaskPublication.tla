-------------------------- MODULE MCTaskPublication --------------------------
(* Small instances of TaskPublication: two sessions in one process, or each  *)
(* in a process of its own.                                                  *)
EXTENDS TaskPublication, TLC

CONSTANTS s1, s2, p1, p2, a, b

OneHost  == s1 :> p1 @@ s2 :> p1
TwoHosts == s1 :> p1 @@ s2 :> p2

\* Sessions of one process, and contents, are interchangeable.
Users == Permutations({s1, s2})
Both == Users \cup Permutations({a, b})
=============================================================================
