-------------------------- MODULE MC_RobotControl --------------------------
(* Stick patterns that rest, steer either way, tilt the right stick and    *)
(* fire, in half and full positions, under every position of the right     *)
(* switch.                                                                 *)
EXTENDS RobotControl

Sticks(rh, rv, lh, lv, l, r) ==
  [rightHoriz |-> rh, rightVert |-> rv, leftHoriz |-> lh, leftVert |-> lv,
   left |-> l, right |-> r]

Patterns(l, r) ==
  {Sticks(0, 0, 0, 0, l, r), Sticks(2, 0, 2, 2, l, r), Sticks(1, 2, -2, 0, l, r)}

MCPacket ==
  UNION {Patterns("MID", r) : r \in {"UP", "MID", "DOWN"}}
    \cup {Sticks(-1, 0, -1, 2, "UP", "MID"), Sticks(2, 0, 0, 2, "DOWN", "UNKNOWN")}

\* A garbled packet can report up to 1023 of 660.
MCGarbledPacket == {[p EXCEPT !.leftVert = 3] : p \in MCPacket}
=============================================================================
