--------------------------- MODULE MC_AtomicQueue ---------------------------
(* A ring of a few slots, so that both indices wrap and the queue is found *)
(* full and empty in every position.                                       *)
EXTENDS AtomicQueue
=============================================================================
