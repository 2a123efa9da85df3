----------------------------- MODULE AtomicQueue -----------------------------
(***************************************************************************)
(* modm::atomic::Queue<T, N>, the lock-free ring between the main loop and *)
(* the interrupt handlers of the CAN and UART drivers.  One side only      *)
(* pushes and the other only pops; head and tail are volatile, each        *)
(* written by one side, and every access to a shared location is a step.   *)
(***************************************************************************)
EXTENDS Integers, Sequences

CONSTANTS
  N,          \* capacity; the buffer has N + 1 slots
  Value,      \* what is stored
  Nothing     \* no value: an uninitialised slot, an empty-handed pop

ASSUME CapacityType == N \in Nat \ {0}
ASSUME NothingIsNoValue == Nothing \notin Value

VARIABLES
  head,       \* slot the producer fills next
  tail,       \* slot the consumer takes next
  buffer,
  producer,   \* "idle", or the next access of push()
  item,       \* the argument of push()
  consumer,   \* "idle", or the next access of get(), pop() or getSize()
  copy,       \* what the consumer copied out of get()
  sample,     \* tmphead of getSize()
  pushed,     \* result of the last push()
  popped      \* result of the last isEmpty()/get()/pop() sequence

vars == <<head, tail, buffer, producer, item, consumer, copy, sample, pushed, popped>>

Slot == 0..N

\* Faulty variants (here and below): slips that each stop a property from
\* holding; no action uses them.
FollowingLate(i) == IF i + 1 > N + 1 THEN 0 ELSE i + 1

Following(i) == IF i + 1 >= N + 1 THEN 0 ELSE i + 1

\* getSize() of a head and a tail that were read one after the other.
Distance(h, t) == IF h >= t THEN h - t ELSE (N + 1) - t + h

isFull == Following(head) = tail

isEmpty == head = tail

Init ==
  /\ head = 0 /\ tail = 0
  /\ buffer = [i \in Slot |-> Nothing]
  /\ producer = "idle" /\ item = Nothing
  /\ consumer = "idle" /\ copy = Nothing /\ sample = 0
  /\ pushed = "none" /\ popped = Nothing

-----------------------------------------------------------------------------
(* push(): sample tail; fill the slot; publish head.                       *)

ProducerUnchanged == UNCHANGED <<head, buffer, producer, item, pushed>>
ConsumerUnchanged == UNCHANGED <<tail, consumer, copy, sample, popped>>

PushCheckUnwrapped(v) ==
  /\ producer = "idle"
  /\ IF head + 1 = tail
       THEN pushed' = "refused" /\ UNCHANGED <<producer, item>>
       ELSE producer' = "store" /\ item' = v /\ UNCHANGED pushed
  /\ UNCHANGED <<head, buffer>>
  /\ ConsumerUnchanged

PushCheck(v) ==
  /\ producer = "idle"
  /\ IF isFull
       THEN pushed' = "refused" /\ UNCHANGED <<producer, item>>
       ELSE producer' = "store" /\ item' = v /\ UNCHANGED pushed
  /\ UNCHANGED <<head, buffer>>
  /\ ConsumerUnchanged

PushStore ==
  /\ producer = "store"
  /\ buffer' = [buffer EXCEPT ![head] = item]
  /\ producer' = "publish"
  /\ UNCHANGED <<head, item, pushed>>
  /\ ConsumerUnchanged

PushPublish ==
  /\ producer = "publish"
  /\ head' = Following(head)
  /\ producer' = "idle"
  /\ pushed' = "stored"
  /\ item' = Nothing
  /\ UNCHANGED buffer
  /\ ConsumerUnchanged

-----------------------------------------------------------------------------
(* The consumer tests isEmpty(), copies get() and calls pop().             *)

PopCheck ==
  /\ consumer = "idle"
  /\ IF isEmpty
       THEN popped' = Nothing /\ UNCHANGED consumer
       ELSE consumer' = "copy" /\ UNCHANGED popped
  /\ UNCHANGED <<tail, copy, sample>>
  /\ ProducerUnchanged

PopCopy ==
  /\ consumer = "copy"
  /\ copy' = buffer[tail]
  /\ consumer' = "release"
  /\ UNCHANGED <<tail, sample, popped>>
  /\ ProducerUnchanged

PopRelease ==
  /\ consumer = "release"
  /\ tail' = Following(tail)
  /\ popped' = copy
  /\ copy' = Nothing
  /\ consumer' = "idle"
  /\ UNCHANGED sample
  /\ ProducerUnchanged

\* getSize() by the consumer (receiveBufferSize of the UART): head first.
SizeSample ==
  /\ consumer = "idle"
  /\ sample' = head
  /\ consumer' = "measure"
  /\ UNCHANGED <<tail, copy, popped>>
  /\ ProducerUnchanged

SizeReturn ==
  /\ consumer = "measure"
  /\ consumer' = "idle"
  /\ sample' = 0
  /\ UNCHANGED <<tail, copy, popped>>
  /\ ProducerUnchanged

-----------------------------------------------------------------------------
Producer == (\E v \in Value : PushCheck(v)) \/ PushStore \/ PushPublish

Consumer == PopCheck \/ PopCopy \/ PopRelease \/ SizeSample \/ SizeReturn

Next == Producer \/ Consumer

Spec == Init /\ [][Next]_vars

-----------------------------------------------------------------------------
(* Properties.                                                             *)

\* Every variable stays in its range: the indices never leave the buffer.
TypeOK ==
  /\ head \in Slot /\ tail \in Slot /\ sample \in Slot
  /\ buffer \in [Slot -> Value \cup {Nothing}]
  /\ producer \in {"idle", "store", "publish"}
  /\ consumer \in {"idle", "copy", "release", "measure"}
  /\ item \in Value \cup {Nothing} /\ copy \in Value \cup {Nothing}
  /\ pushed \in {"none", "stored", "refused"}
  /\ popped \in Value \cup {Nothing}

Stored == Distance(head, tail)

\* The i-th stored element, counted from the oldest.
Position(i) == IF tail + i - 1 > N THEN tail + i - 1 - (N + 1) ELSE tail + i - 1

Content == [i \in 1..Stored |-> buffer[Position(i)]]

\* The producer's slot is never one the consumer may read, however the two
\* sides are interleaved: no value is torn or overwritten before it is taken.
NoSharedSlot ==
  /\ producer # "idle" => ~isFull /\ \A i \in 1..Stored : Position(i) # head
  /\ consumer \in {"copy", "release"} => ~isEmpty

\* The consumer's copy is the oldest element until pop() releases its slot.
CopyIsOldest == consumer = "release" => copy = buffer[tail]

\* Every slot between tail and head holds a value that was pushed.
StoredAreValues == \A i \in 1..Stored : buffer[Position(i)] \in Value

\* A size that the consumer reads while the producer pushes never exceeds
\* what it can take: receiveBufferSize() may lag behind, not overstate.
SizeNeverOverstates == consumer = "measure" => Distance(sample, tail) <= Stored

\* The ring implements the bounded queue, with push() taking effect when head
\* is published and pop() when tail is.
Fifo == INSTANCE BoundedFifo WITH content <- Content

\* Every step of either side is a step of the abstract queue or invisible to
\* both users: nothing is lost, duplicated, reordered or wrongly refused.
ImplementsFifo == Fifo!Spec
=============================================================================
