----------------------------- MODULE MCGroupPage -----------------------------
(* GroupPage on small instances. *)
EXTENDS GroupPage
=============================================================================
