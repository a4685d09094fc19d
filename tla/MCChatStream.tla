---------------------------- MODULE MCChatStream ----------------------------
(* Small instances of ChatStream. *)
EXTENDS ChatStream

CONSTANTS s1, s2
=============================================================================
