------------------------------ MODULE MC_CanRx ------------------------------
(* A turn of six counts, so that two lost messages can hide half a turn;   *)
(* more messages than FIFO and queue hold together.                        *)
EXTENDS CanRx

MCStart == {5}
MCSweep == {-2, 1}
=============================================================================
