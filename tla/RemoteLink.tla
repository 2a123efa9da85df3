----------------------------- MODULE RemoteLink -----------------------------
(***************************************************************************)
(* What the remote control promises its users, without bytes, buffers or   *)
(* time: its values are those of reset(), or they are a whole packet, and  *)
(* when they change the packet is the transmitter's latest.                *)
(***************************************************************************)
EXTENDS Naturals

CONSTANT Length

VARIABLES
  newest,      \* number, 0 or 1 in turn, of the packet sent last
  connected,   \* what isConnected() says
  values       \* the packet that the values come from

link == <<newest, connected, values>>

Whole(p) == [k \in 1..Length |-> <<p, k>>]

Init == newest = 0 /\ connected = FALSE /\ values = <<>>

NewPacket ==
  /\ newest' = 1 - newest
  /\ UNCHANGED <<connected, values>>

Show ==
  /\ connected' = TRUE /\ values' = Whole(newest)
  /\ UNCHANGED newest

Lose ==
  /\ connected' = FALSE /\ values' = <<>>
  /\ UNCHANGED newest

Next == NewPacket \/ Show \/ Lose

Spec == Init /\ [][Next]_link
=============================================================================
