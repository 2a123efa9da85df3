------------------------------ MODULE MC_Remote ------------------------------
(* Packets of three bytes; the pause is longer than the read timeout by as *)
(* much as a late read() can take, and shorter than the other timeout.     *)
EXTENDS Remote
=============================================================================
