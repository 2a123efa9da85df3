----------------------------- MODULE BoundedFifo -----------------------------
(***************************************************************************)
(* What modm::atomic::Queue promises to its one producer and one consumer: *)
(* a first-in first-out buffer of N values whose operations take effect in *)
(* one instant, which refuses a push only when it is full and reports      *)
(* itself empty only when it is.                                           *)
(***************************************************************************)
EXTENDS Naturals, Sequences

CONSTANTS N, Value, Nothing

VARIABLES
  content,   \* the values pushed and not yet popped, oldest first
  pushed,    \* outcome of the last push: "none", "stored" or "refused"
  popped     \* outcome of the last pop: the value, or Nothing

vars == <<content, pushed, popped>>

Init == content = <<>> /\ pushed = "none" /\ popped = Nothing

Push(v) ==
  /\ Len(content) < N
  /\ content' = Append(content, v)
  /\ pushed' = "stored"
  /\ UNCHANGED popped

Refuse ==
  /\ Len(content) = N
  /\ pushed' = "refused"
  /\ UNCHANGED <<content, popped>>

Pop ==
  /\ content # <<>>
  /\ popped' = Head(content)
  /\ content' = Tail(content)
  /\ UNCHANGED pushed

FindEmpty ==
  /\ content = <<>>
  /\ popped' = Nothing
  /\ UNCHANGED <<content, pushed>>

Next == (\E v \in Value : Push(v)) \/ Refuse \/ Pop \/ FindEmpty

Spec == Init /\ [][Next]_vars
=============================================================================
