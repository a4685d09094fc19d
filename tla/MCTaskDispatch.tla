--------------------------- MODULE MCTaskDispatch ---------------------------
(***************************************************************************)
(* Small instances of TaskDispatch: sessions, hosts and intents.           *)
(***************************************************************************)
EXTENDS TaskDispatch, TLC

CONSTANTS s1, s2, p1, p2, i1, i2

\* Two sessions of different processes on the same intent.
TwoHosts  == (s1 :> p1) @@ (s2 :> p2)
SameTask  == (s1 :> i1) @@ (s2 :> i1)
\* Two sessions of one process, on the same or on different intents.
OneHost   == (s1 :> p1) @@ (s2 :> p1)
TwoTasks  == (s1 :> i1) @@ (s2 :> i2)
\* One session.
SoleHost  == s1 :> p1
SoleTask  == s1 :> i1
=============================================================================
