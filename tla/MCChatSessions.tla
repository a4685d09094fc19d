--------------------------- MODULE MCChatSessions ---------------------------
(* Small instances of ChatSessions: threads are interchangeable. *)
EXTENDS ChatSessions, TLC

CONSTANTS w1, w2

Threads == Permutations({w1, w2})
=============================================================================
