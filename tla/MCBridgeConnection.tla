-------------------------- MODULE MCBridgeConnection --------------------------
(* Two gateways, which differ in host and mode, and one optional topic.        *)
(* Requests switch to the second; the operator switches back by the file and   *)
(* drops the subscription, or breaks the file.                                 *)
EXTENDS BridgeConnection

CONSTANTS w, c1, h1, h2, p, topic

g1 == [host |-> h1, port |-> p, mode |-> "real"]
g2 == [host |-> h2, port |-> p, mode |-> "mock"]
Second == {g2}

AtFirst == [gw |-> g1, subs |-> {topic}]
ByFile == {[gw |-> g1, subs |-> {}], Broken}
=============================================================================
