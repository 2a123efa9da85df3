------------------------------ MODULE MC_CanTx ------------------------------
(* More messages than the mailboxes and the queue hold together.           *)
EXTENDS CanTx
=============================================================================
