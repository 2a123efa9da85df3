-------------------------- MODULE AtomicQueue_proofs --------------------------
(***************************************************************************)
(* The ring buffer is safe and implements the bounded queue for every      *)
(* capacity and every set of values.                                       *)
(***************************************************************************)
EXTENDS AtomicQueue, SequenceTheorems, TLAPS

-----------------------------------------------------------------------------
(* Arithmetic of the indices.                                              *)

\* The distance from tail to head counts the stored elements: 0 to N.
LEMMA DistanceType ==
  ASSUME NEW h \in Slot, NEW t \in Slot
  PROVE  /\ Distance(h, t) \in 0..N
         /\ Distance(h, t) = 0 <=> h = t
         /\ Distance(h, t) = N <=> Following(h) = t
BY CapacityType DEF Distance, Following, Slot

\* Wrapping keeps an index inside the buffer.
LEMMA FollowingType ==
  ASSUME NEW i \in Slot
  PROVE  Following(i) \in Slot
BY CapacityType DEF Following, Slot

\* Publishing a slot adds one element.
LEMMA DistanceAfterPush ==
  ASSUME NEW h \in Slot, NEW t \in Slot, Following(h) # t
  PROVE  Distance(Following(h), t) = Distance(h, t) + 1
BY CapacityType DEF Distance, Following, Slot

\* Releasing a slot removes one element.
LEMMA DistanceAfterPop ==
  ASSUME NEW h \in Slot, NEW t \in Slot, h # t
  PROVE  Distance(h, Following(t)) = Distance(h, t) - 1
BY CapacityType DEF Distance, Following, Slot

\* The stored positions are slots other than the producer's, which comes next.
LEMMA Positions ==
  ASSUME head \in Slot, tail \in Slot
  PROVE  /\ \A i \in 1..Stored : Position(i) \in Slot /\ Position(i) # head
         /\ Stored < N => Position(Stored + 1) = head
         /\ Position(1) = tail
BY CapacityType DEF Position, Stored, Distance, Slot

-----------------------------------------------------------------------------
(* The inductive invariant.                                                *)

\* What each side knows while it is inside an operation.
SidesAgree ==
  /\ producer # "idle" => Following(head) # tail /\ item \in Value
  /\ producer = "publish" => buffer[head] = item
  /\ consumer \in {"copy", "release"} => head # tail

Inv ==
  /\ TypeOK
  /\ SidesAgree
  /\ CopyIsOldest
  /\ StoredAreValues
  /\ SizeNeverOverstates

\* The empty buffer satisfies the invariant.
LEMMA InitInv == Init => Inv
<1> SUFFICES ASSUME Init PROVE Inv
  OBVIOUS
<1>1. TypeOK
  BY CapacityType DEF Init, TypeOK, Slot
<1>2. Stored = 0
  BY CapacityType DEF Init, Stored, Distance
<1> QED
  BY <1>1, <1>2 DEF Init, Inv, SidesAgree, CopyIsOldest, StoredAreValues, SizeNeverOverstates

\* The producer's last step extends the stored positions by its own slot.
LEMMA PublishPreserves ==
  ASSUME Inv, PushPublish
  PROVE  Inv'
<1>1. /\ head \in Slot /\ tail \in Slot /\ sample \in Slot /\ Following(head) # tail
      /\ item \in Value /\ buffer[head] = item
      /\ head' = Following(head) /\ UNCHANGED <<tail, buffer, sample, consumer, copy, popped>>
      /\ producer' = "idle" /\ pushed' = "stored" /\ item' = Nothing
  BY DEF Inv, TypeOK, SidesAgree, PushPublish, ConsumerUnchanged
<1>2. TypeOK'
  BY <1>1, FollowingType DEF Inv, TypeOK
<1>3. Stored' = Stored + 1 /\ Stored \in Nat /\ Stored < N
  BY <1>1, DistanceAfterPush, DistanceType, CapacityType DEF Stored
<1>4. SidesAgree'
  BY <1>1, <1>3, DistanceType, FollowingType DEF Inv, SidesAgree, Stored
<1>5. CopyIsOldest'
  BY <1>1 DEF Inv, CopyIsOldest
<1>6. StoredAreValues'
  <2> SUFFICES ASSUME NEW i \in 1..Stored'
               PROVE  buffer[Position(i)] \in Value
    BY <1>1 DEF StoredAreValues, Position
  <2>1. CASE i = Stored + 1
    BY <2>1, <1>1, <1>3, Positions
  <2>2. CASE i # Stored + 1
    BY <2>2, <1>3 DEF Inv, StoredAreValues
  <2> QED
    BY <2>1, <2>2
<1>7. SizeNeverOverstates'
  BY <1>1, <1>3, DistanceType DEF Inv, SizeNeverOverstates
<1> QED
  BY <1>2, <1>4, <1>5, <1>6, <1>7 DEF Inv

\* Filling the producer's slot touches no stored element.
LEMMA StorePreserves ==
  ASSUME Inv, PushStore
  PROVE  Inv'
<1>1. /\ head \in Slot /\ tail \in Slot /\ item \in Value
      /\ buffer' = [buffer EXCEPT ![head] = item]
      /\ producer' = "publish"
      /\ UNCHANGED <<head, tail, item, pushed, consumer, copy, sample, popped>>
      /\ buffer \in [Slot -> Value \cup {Nothing}]
      /\ Following(head) # tail
  BY DEF Inv, TypeOK, SidesAgree, PushStore, ConsumerUnchanged
<1>2. TypeOK'
  BY <1>1 DEF Inv, TypeOK
<1>3. SidesAgree'
  BY <1>1 DEF Inv, SidesAgree
<1>4. CopyIsOldest'
  BY <1>1 DEF Inv, CopyIsOldest, SidesAgree
<1>5. \A i \in 1..Stored : buffer'[Position(i)] = buffer[Position(i)]
  BY <1>1, Positions
<1>6. StoredAreValues'
  BY <1>1, <1>5 DEF Inv, StoredAreValues, Stored, Position
<1>7. SizeNeverOverstates'
  BY <1>1 DEF Inv, SizeNeverOverstates, Stored
<1> QED
  BY <1>2, <1>3, <1>4, <1>6, <1>7 DEF Inv

\* Positions after a pop are the old ones moved down by one.
LEMMA PositionsAfterPop ==
  ASSUME head \in Slot, tail \in Slot, head # tail,
         tail' = Following(tail), head' = head
  PROVE  /\ Stored' = Stored - 1 /\ Stored \in Nat \ {0}
         /\ \A i \in 1..Stored' : Position(i)' = Position(i + 1)
<1>1. Stored' = Stored - 1 /\ Stored \in Nat \ {0}
  BY DistanceAfterPop, DistanceType, CapacityType DEF Stored
<1>2. ASSUME NEW i \in 1..Stored'
      PROVE  Position(i)' = Position(i + 1)
  BY <1>1, <1>2, CapacityType DEF Position, Following, Slot, Stored, Distance
<1> QED
  BY <1>1, <1>2

\* The consumer's last step gives its slot back and keeps the others.
LEMMA ReleasePreserves ==
  ASSUME Inv, PopRelease
  PROVE  Inv'
<1>1. /\ head \in Slot /\ tail \in Slot /\ head # tail
      /\ tail' = Following(tail) /\ consumer' = "idle" /\ copy' = Nothing /\ popped' = copy
      /\ UNCHANGED <<head, buffer, producer, item, pushed, sample>>
  BY DEF Inv, TypeOK, SidesAgree, PopRelease, ProducerUnchanged
<1>2. TypeOK'
  BY <1>1, FollowingType DEF Inv, TypeOK
<1>3. /\ Stored' = Stored - 1 /\ Stored \in Nat \ {0}
      /\ \A i \in 1..Stored' : Position(i)' = Position(i + 1)
  BY <1>1, PositionsAfterPop
<1>4. Following(head)' # tail'
  BY <1>1, <1>3, DistanceType, FollowingType, CapacityType DEF Stored, Following
<1>5. SidesAgree'
  BY <1>1, <1>4 DEF Inv, SidesAgree
<1>6. CopyIsOldest' /\ SizeNeverOverstates'
  BY <1>1 DEF CopyIsOldest, SizeNeverOverstates
<1>7. StoredAreValues'
  BY <1>1, <1>3 DEF Inv, StoredAreValues
<1> QED
  BY <1>2, <1>5, <1>6, <1>7 DEF Inv

\* One case per step of the producer and of the consumer.
LEMMA NextInv == Inv /\ [Next]_vars => Inv'
<1> SUFFICES ASSUME Inv, [Next]_vars PROVE Inv'
  OBVIOUS
<1>1. ASSUME NEW v \in Value, PushCheck(v)
      PROVE  Inv'
  BY <1>1 DEF Inv, PushCheck, isFull, ConsumerUnchanged, TypeOK, SidesAgree, CopyIsOldest,
              StoredAreValues, SizeNeverOverstates, Stored, Position
<1>2. CASE PopCheck \/ PopCopy
  <2>1. tail \in Slot /\ UNCHANGED <<head, tail, buffer>> /\ buffer \in [Slot -> Value \cup {Nothing}]
    BY <1>2 DEF Inv, TypeOK, PopCheck, PopCopy, ProducerUnchanged
  <2>2. StoredAreValues'
    BY <2>1 DEF Inv, StoredAreValues, Stored, Position
  <2>3. TypeOK' /\ SidesAgree' /\ CopyIsOldest' /\ SizeNeverOverstates'
    BY <1>2, <2>1 DEF Inv, PopCheck, PopCopy, isEmpty, ProducerUnchanged, TypeOK,
                      SidesAgree, CopyIsOldest, SizeNeverOverstates
  <2> QED
    BY <2>2, <2>3 DEF Inv
<1>3. CASE SizeSample \/ SizeReturn
  <2>1. head \in Slot /\ tail \in Slot /\ 0 \in Slot /\ UNCHANGED <<head, tail, buffer>>
    BY <1>3, CapacityType DEF Inv, TypeOK, Slot, SizeSample, SizeReturn, ProducerUnchanged
  <2>2. StoredAreValues'
    BY <2>1 DEF Inv, StoredAreValues, Stored, Position
  <2>3. TypeOK' /\ SidesAgree' /\ CopyIsOldest'
    BY <1>3, <2>1 DEF Inv, SizeSample, SizeReturn, ProducerUnchanged, TypeOK,
                      SidesAgree, CopyIsOldest
  <2>4. SizeNeverOverstates'
    BY <1>3, <2>1, DistanceType DEF SizeSample, SizeReturn, SizeNeverOverstates, Stored
  <2> QED
    BY <2>2, <2>3, <2>4 DEF Inv
<1>4. CASE UNCHANGED vars
  BY <1>4 DEF vars, Inv, TypeOK, SidesAgree, CopyIsOldest, StoredAreValues,
              SizeNeverOverstates, Stored, Position
<1> QED
  BY <1>1, <1>2, <1>3, <1>4, StorePreserves, PublishPreserves, ReleasePreserves
     DEF Next, Producer, Consumer

-----------------------------------------------------------------------------
\* The invariant holds in every reachable state.
THEOREM Invariance == Spec => []Inv
BY InitInv, NextInv, PTL DEF Spec

\* Type correctness: the indices never leave the buffer.
THEOREM TypeCorrect == Spec => []TypeOK
<1>1. Inv => TypeOK
  BY DEF Inv
<1> QED
  BY <1>1, Invariance, PTL

\* Producer and consumer never touch the same slot.
THEOREM SlotExclusion == Spec => []NoSharedSlot
<1>1. Inv => NoSharedSlot
  BY Positions DEF Inv, TypeOK, SidesAgree, NoSharedSlot, isFull, isEmpty
<1> QED
  BY <1>1, Invariance, PTL

\* What is stored was pushed, what is copied is the oldest, and a size the
\* consumer reads is never too large.
THEOREM ContentIntact == Spec => [](StoredAreValues /\ CopyIsOldest /\ SizeNeverOverstates)
<1>1. Inv => StoredAreValues /\ CopyIsOldest /\ SizeNeverOverstates
  BY DEF Inv
<1> QED
  BY <1>1, Invariance, PTL

-----------------------------------------------------------------------------
(* The ring implements BoundedFifo.                                        *)

\* What is stored is a sequence of values of the queue's length.
LEMMA ContentIsSequence ==
  ASSUME Inv
  PROVE  Content \in Seq(Value) /\ Len(Content) = Stored /\ Stored \in 0..N
<1>1. Stored \in 0..N
  BY DistanceType DEF Inv, TypeOK, Stored
<1>2. Content \in [1..Stored -> Value]
  BY DEF Inv, StoredAreValues, Content
<1> QED
  BY <1>1, <1>2, CapacityType DEF Content

\* Publishing head appends the item to the abstract queue.
LEMMA PublishPushes ==
  ASSUME Inv, Inv', PushPublish
  PROVE  Fifo!Push(item)
<1>1. /\ head \in Slot /\ tail \in Slot /\ Following(head) # tail
      /\ item \in Value /\ buffer[head] = item
      /\ head' = Following(head) /\ UNCHANGED <<tail, buffer, popped>>
      /\ pushed' = "stored"
  BY DEF Inv, TypeOK, SidesAgree, PushPublish, ConsumerUnchanged
<1>2. Stored' = Stored + 1 /\ Stored \in Nat /\ Stored < N
  BY <1>1, DistanceAfterPush, DistanceType, CapacityType DEF Stored
<1>3. Content \in Seq(Value) /\ Len(Content) = Stored
  BY ContentIsSequence
<1>4. Content' = [i \in 1..(Stored + 1) |-> buffer[Position(i)]]
  BY <1>1, <1>2 DEF Content, Position
<1>5. buffer[Position(Stored + 1)] = item
  BY <1>1, <1>2, Positions
<1>6. Append(Content, item) \in Seq(Value) /\ Len(Append(Content, item)) = Stored + 1
      /\ \A i \in 1..(Stored + 1) :
           Append(Content, item)[i] = IF i <= Stored THEN Content[i] ELSE item
  BY <1>1, <1>2, <1>3, AppendProperties
<1>7. \A i \in 1..(Stored + 1) : Content'[i] = Append(Content, item)[i]
  BY <1>2, <1>4, <1>5, <1>6 DEF Content
<1>8. Content' \in Seq(Value) /\ Len(Content') = Stored + 1
  BY <1>2, <1>4, <1>1, ContentIsSequence DEF Inv, StoredAreValues, Position, Content
<1>9. Content' = Append(Content, item)
  BY <1>6, <1>7, <1>8, SeqEqual
<1> QED
  BY <1>1, <1>2, <1>3, <1>9 DEF Fifo!Push

\* Releasing the slot takes the copy off the front of the abstract queue.
LEMMA ReleasePops ==
  ASSUME Inv, Inv', PopRelease
  PROVE  Fifo!Pop
<1>1. /\ head \in Slot /\ tail \in Slot /\ head # tail /\ copy = buffer[tail]
      /\ tail' = Following(tail) /\ popped' = copy
      /\ UNCHANGED <<head, buffer, pushed>>
  BY DEF Inv, TypeOK, SidesAgree, CopyIsOldest, PopRelease, ProducerUnchanged
<1>2. /\ Stored' = Stored - 1 /\ Stored \in Nat \ {0}
      /\ \A i \in 1..Stored' : Position(i)' = Position(i + 1)
  BY <1>1, PositionsAfterPop
<1>3. Content \in Seq(Value) /\ Len(Content) = Stored
  BY ContentIsSequence
<1>4. Content # <<>> /\ Head(Content) = buffer[tail]
  BY <1>1, <1>2, <1>3, Positions DEF Content
<1>5. Content' = [i \in 1..(Stored - 1) |-> buffer[Position(i + 1)]]
  BY <1>1, <1>2 DEF Content
<1>6. /\ Tail(Content) \in Seq(Value) /\ Len(Tail(Content)) = Stored - 1
      /\ \A i \in 1..(Stored - 1) : Tail(Content)[i] = Content[i + 1]
  BY <1>3, <1>4, HeadTailProperties
<1>7. \A i \in 1..(Stored - 1) : Content[i + 1] = buffer[Position(i + 1)]
  BY <1>2 DEF Content
<1>8. Content' \in Seq(Value) /\ Len(Content') = Stored - 1
  BY <1>1, <1>2, <1>5, ContentIsSequence DEF Inv, StoredAreValues
<1>9. Content' = Tail(Content)
  <2>1. \A i \in 1..(Stored - 1) : Content'[i] = Tail(Content)[i]
    BY <1>5, <1>6, <1>7
  <2> QED
    BY <1>6, <1>8, <2>1, SeqEqual
<1> QED
  BY <1>1, <1>4, <1>9 DEF Fifo!Pop

\* Every step of the ring is a step of the queue or invisible.
LEMMA StepRefines == Inv /\ Inv' /\ [Next]_vars => [Fifo!Next]_(Fifo!vars)
<1> SUFFICES ASSUME Inv, Inv', [Next]_vars PROVE [Fifo!Next]_(Fifo!vars)
  OBVIOUS
<1>0. head \in Slot /\ tail \in Slot /\ Content \in Seq(Value) /\ Len(Content) = Stored
  BY ContentIsSequence DEF Inv, TypeOK
<1>1. ASSUME NEW v \in Value, PushCheck(v)
      PROVE  Fifo!Refuse \/ UNCHANGED Fifo!vars
  <2>1. UNCHANGED <<Content, popped>>
    BY <1>1 DEF PushCheck, ConsumerUnchanged, Content, Stored, Position
  <2>2. CASE isFull
    BY <1>0, <1>1, <2>1, <2>2, DistanceType DEF PushCheck, isFull, Stored, Fifo!Refuse
  <2>3. CASE ~isFull
    BY <1>1, <2>1, <2>3 DEF PushCheck, Fifo!vars
  <2> QED
    BY <2>2, <2>3
<1>2. ASSUME PushStore
      PROVE  UNCHANGED Fifo!vars
  <2>1. \A i \in 1..Stored : buffer'[Position(i)] = buffer[Position(i)]
    BY <1>0, <1>2, Positions DEF PushStore, Inv, TypeOK
  <2>2. UNCHANGED Content
    BY <1>2, <2>1 DEF PushStore, ConsumerUnchanged, Content, Stored, Position
  <2> QED
    BY <1>2, <2>2 DEF PushStore, ConsumerUnchanged, Fifo!vars
<1>3. ASSUME PushPublish
      PROVE  Fifo!Next
  <2>1. item \in Value
    BY <1>3 DEF Inv, SidesAgree, PushPublish
  <2> QED
    BY <1>3, <2>1, PublishPushes DEF Fifo!Next
<1>4. ASSUME PopCheck
      PROVE  Fifo!FindEmpty \/ UNCHANGED Fifo!vars
  <2>1. UNCHANGED <<Content, pushed>>
    BY <1>4 DEF PopCheck, ProducerUnchanged, Content, Stored, Position
  <2>2. CASE isEmpty
    <3>1. Content = <<>>
      BY <1>0, <2>2, DistanceType DEF isEmpty, Stored
    <3> QED
      BY <1>4, <2>1, <2>2, <3>1 DEF PopCheck, Fifo!FindEmpty
  <2>3. CASE ~isEmpty
    BY <1>4, <2>1, <2>3 DEF PopCheck, Fifo!vars
  <2> QED
    BY <2>2, <2>3
<1>5. ASSUME PopRelease
      PROVE  Fifo!Next
  BY <1>5, ReleasePops DEF Fifo!Next
<1>6. ASSUME PopCopy \/ SizeSample \/ SizeReturn \/ UNCHANGED vars
      PROVE  UNCHANGED Fifo!vars
  BY <1>6 DEF PopCopy, SizeSample, SizeReturn, vars, ProducerUnchanged, Content, Stored,
              Position, Fifo!vars
<1> QED
  BY <1>1, <1>2, <1>3, <1>4, <1>5, <1>6 DEF Next, Producer, Consumer, Fifo!Next

\* The lock-free ring implements the bounded queue.
THEOREM Refinement == Spec => ImplementsFifo
<1>1. Init => Fifo!Init
  <2> SUFFICES ASSUME Init PROVE Fifo!Init
    OBVIOUS
  <2>1. Stored = 0
    BY CapacityType DEF Init, Stored, Distance
  <2>2. Content = <<>>
    BY <2>1 DEF Content
  <2> QED
    BY <2>2 DEF Init, Fifo!Init
<1> QED
  BY <1>1, StepRefines, Invariance, PTL DEF Spec, ImplementsFifo, Fifo!Spec
=============================================================================
