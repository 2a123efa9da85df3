---------------------------- MODULE MC_DjiSerial ----------------------------
(* Frames of two bytes of header, up to three of payload and one of CRC16; *)
(* the first is long and has a stray head byte, the second has no payload, *)
(* and rxBuffer is short enough to lose all of a body.                     *)
EXTENDS DjiSerial

MCByte == SerialByte
MCDataLength == <<3, 0, 1, 1>>
MCLookAlike == {[frame |-> 1, place |-> 3]}
=============================================================================
