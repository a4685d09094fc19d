------------------------------ MODULE SendOnce ------------------------------
(***************************************************************************)
(* What task dispatch promises, with all mechanism removed: a finalized    *)
(* TaskIntent is handed to the ROS transport at most once, and an intent   *)
(* withdrawn before that is never handed over afterwards.  The first       *)
(* promise is not made for intents archived before send records existed.   *)
(* TaskDispatch refines this module.                                       *)
(***************************************************************************)
EXTENDS Naturals

CONSTANTS Intents,   \* identities of finalized TaskIntents
          Legacy     \* intents archived before send records were kept

VARIABLES sends,     \* sends[i]: times intent i was handed to the transport
          withdrawn  \* intents under a durable "will not be executed" record

Init == /\ sends \in [Intents -> {0, 1}]
        /\ \A i \in Intents \ Legacy : sends[i] = 0
        /\ withdrawn = {}

Hand(i) == /\ i \notin withdrawn
           /\ i \in Legacy \/ sends[i] = 0
           /\ sends' = [sends EXCEPT ![i] = @ + 1]
           /\ UNCHANGED withdrawn

Withdraw(i) == /\ withdrawn' = withdrawn \cup {i}
               /\ UNCHANGED sends

Next == \E i \in Intents : Hand(i) \/ Withdraw(i)

Spec == Init /\ [][Next]_<<sends, withdrawn>>
=============================================================================
