-------------------------- MODULE MCMessageRendering --------------------------
(* MessageRendering on small instances. *)
EXTENDS MessageRendering
=============================================================================
