--------------------------- MODULE MCMessageSending ---------------------------
(* MessageSending on small instances. *)
EXTENDS MessageSending

SendFiles == Sends \X Images

=============================================================================
