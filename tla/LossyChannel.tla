---------------------------- MODULE LossyChannel ----------------------------
(***************************************************************************)
(* What DJISerial promises: a channel for frames, numbered in the order    *)
(* they are sent, that may lose some, but delivers none that was damaged,  *)
(* none twice and none out of order.                                       *)
(***************************************************************************)
EXTENDS Naturals, Sequences

VARIABLES
  sent,        \* frames sent so far
  damaged,     \* those that can no longer be delivered
  delivered    \* those delivered, in order

channel == <<sent, damaged, delivered>>

Init == sent = 0 /\ damaged = {} /\ delivered = <<>>

Send ==
  /\ sent' = sent + 1
  /\ UNCHANGED <<damaged, delivered>>

\* What was delivered is safe from damage.
Damage(n) ==
  /\ \A k \in 1..Len(delivered) : delivered[k] # n
  /\ damaged' = damaged \cup {n}
  /\ UNCHANGED <<sent, delivered>>

Deliver(n) ==
  /\ n \notin damaged
  /\ delivered # <<>> => delivered[Len(delivered)] < n
  /\ delivered' = Append(delivered, n)
  /\ UNCHANGED <<sent, damaged>>

Next == Send \/ \E n \in 1..sent : Damage(n) \/ Deliver(n)

Spec == Init /\ [][Next]_channel
=============================================================================
