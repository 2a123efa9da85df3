---------------------------- MODULE MC_DjiMotors ----------------------------
(* Three motors at the border between the two frames, one of them on the   *)
(* other bus and inverted; bytes of four values, so 16 instead of 65536.   *)
EXTENDS DjiMotors, TLC

CONSTANTS m4, m5, other

MCMotor == {m4, m5, other}
MCBusOf == (m4 :> 1) @@ (m5 :> 1) @@ (other :> 2)
MCSlotOf == (m4 :> 3) @@ (m5 :> 4) @@ (other :> 3)

MCRequest == {-9, 6}
=============================================================================
