---------------------------- MODULE MCChatClient ----------------------------
(* ChatClient on a small instance: a conversation of two users with one     *)
(* browser each.                                                            *)
EXTENDS ChatClient, TLC

CONSTANTS u1, u2, k1, k2, m1

TwoBrowsers == (k1 :> u1) @@ (k2 :> u2)
OneMessage == m1 :> k1

=============================================================================
