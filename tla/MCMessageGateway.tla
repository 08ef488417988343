-------------------------- MODULE MCMessageGateway --------------------------
(* MessageGateway on a small instance: a conversation of a user with two     *)
(* browsers and a peer.                                                      *)
EXTENDS MessageGateway, TLC

CONSTANTS u1, u2, k1, k2, k3, m1

ThreeBrowsers == (k1 :> u1) @@ (k2 :> u2) @@ (k3 :> u1)
OneMessage == m1 :> k1

=============================================================================
