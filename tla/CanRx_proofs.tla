---------------------------- MODULE CanRx_proofs ----------------------------
(***************************************************************************)
(* Reception on a CAN bus, proved for any number of motors and strangers,  *)
(* any capacity of the queue, any even resolution and any movement of the  *)
(* shafts.  The pipeline is treated by its three parts: the queue, the     *)
(* message in the handler's hands, and the hardware FIFO.                  *)
(***************************************************************************)
EXTENDS CanRx, TLAPS

-----------------------------------------------------------------------------
(* Sequences of messages by their numbers.                                 *)

Increasing(s) == \A i, j \in 1..Len(s) : i < j => s[i].number < s[j].number

LEMMA Appended ==
  ASSUME NEW s \in Seq(Message), NEW x \in Message
  PROVE  /\ Append(s, x) \in Seq(Message)
         /\ Len(Append(s, x)) = Len(s) + 1
         /\ Numbers(Append(s, x)) = Numbers(s) \cup {x.number}
         /\ Increasing(s) /\ (\A n \in Numbers(s) : n < x.number) => Increasing(Append(s, x))
         /\ s # <<>> => Head(Append(s, x)) = Head(s)
<1> DEFINE t == Append(s, x)
<1>1. /\ t \in Seq(Message) /\ Len(t) = Len(s) + 1
      /\ \A k \in 1..Len(s) : t[k] = s[k]
      /\ t[Len(s) + 1] = x
  OBVIOUS
<1>2. Numbers(t) = Numbers(s) \cup {x.number}
  <2>1. ASSUME NEW n \in Numbers(t) PROVE n \in Numbers(s) \cup {x.number}
    BY <1>1 DEF Numbers
  <2>2. ASSUME NEW n \in Numbers(s) PROVE n \in Numbers(t)
    <3>1. PICK k \in 1..Len(s) : n = s[k].number
      BY DEF Numbers
    <3>2. k \in 1..Len(t) /\ n = t[k].number
      BY <1>1, <3>1
    <3> QED
      BY <3>2 DEF Numbers
  <2>3. x.number \in Numbers(t)
    <3>1. Len(s) + 1 \in 1..Len(t) /\ x.number = t[Len(s) + 1].number
      BY <1>1
    <3> QED
      BY <3>1 DEF Numbers
  <2> QED
    BY <2>1, <2>2, <2>3
<1>3. ASSUME Increasing(s), \A n \in Numbers(s) : n < x.number
      PROVE  Increasing(t)
  <2>1. SUFFICES ASSUME NEW i \in 1..Len(t), NEW j \in 1..Len(t), i < j
                 PROVE  t[i].number < t[j].number
    BY DEF Increasing
  <2>2. i \in 1..Len(s) /\ t[i].number = s[i].number
    BY <1>1, <2>1
  <2>3. CASE j = Len(s) + 1
    BY <1>1, <1>3, <2>2, <2>3 DEF Numbers
  <2>4. CASE j \in 1..Len(s)
    BY <1>1, <1>3, <2>1, <2>2, <2>4 DEF Increasing
  <2> QED
    BY <1>1, <2>3, <2>4
<1>4. s # <<>> => Head(t) = Head(s)
  OBVIOUS
<1> QED
  BY <1>1, <1>2, <1>3, <1>4

LEMMA Beheaded ==
  ASSUME NEW s \in Seq(Message), s # <<>>
  PROVE  /\ Head(s) \in Message /\ Tail(s) \in Seq(Message)
         /\ Len(Tail(s)) = Len(s) - 1 /\ Len(s) >= 1
         /\ Numbers(s) = {Head(s).number} \cup Numbers(Tail(s))
         /\ Increasing(s) => /\ Increasing(Tail(s))
                             /\ \A n \in Numbers(Tail(s)) : Head(s).number < n
<1> DEFINE t == Tail(s)
<1>1. /\ t \in Seq(Message) /\ Len(t) = Len(s) - 1 /\ Len(s) >= 1 /\ Len(s) \in Nat
      /\ \A k \in 1..Len(t) : t[k] = s[k + 1]
      /\ Head(s) = s[1] /\ Head(s) \in Message
  OBVIOUS
<1>2. ASSUME NEW n \in Numbers(t)
      PROVE  \E k \in 2..Len(s) : n = s[k].number
  <2>1. PICK k \in 1..Len(t) : n = t[k].number
    BY DEF Numbers
  <2>2. k + 1 \in 2..Len(s) /\ n = s[k + 1].number
    BY <1>1, <2>1
  <2> QED
    BY <2>2
<1>3. Numbers(s) = {Head(s).number} \cup Numbers(t)
  <2>1. ASSUME NEW n \in Numbers(s) PROVE n \in {Head(s).number} \cup Numbers(t)
    <3>1. PICK k \in 1..Len(s) : n = s[k].number
      BY DEF Numbers
    <3>2. CASE k = 1
      BY <1>1, <3>1, <3>2
    <3>3. CASE k # 1
      <4>1. k - 1 \in 1..Len(t) /\ n = t[k - 1].number
        BY <1>1, <3>1, <3>3
      <4> QED
        BY <4>1 DEF Numbers
    <3> QED
      BY <3>2, <3>3
  <2>2. Head(s).number \in Numbers(s)
    <3>1. 1 \in 1..Len(s) /\ Head(s).number = s[1].number
      BY <1>1
    <3> QED
      BY <3>1 DEF Numbers
  <2>3. ASSUME NEW n \in Numbers(t) PROVE n \in Numbers(s)
    <3>1. PICK k \in 2..Len(s) : n = s[k].number
      BY <1>2
    <3> QED
      BY <3>1, <1>1 DEF Numbers
  <2> QED
    BY <2>1, <2>2, <2>3
<1>4. ASSUME Increasing(s) PROVE Increasing(t)
  <2>1. SUFFICES ASSUME NEW i \in 1..Len(t), NEW j \in 1..Len(t), i < j
                 PROVE  t[i].number < t[j].number
    BY DEF Increasing
  <2>2. i + 1 \in 1..Len(s) /\ j + 1 \in 1..Len(s) /\ i + 1 < j + 1
    BY <1>1, <2>1
  <2> QED
    BY <1>1, <1>4, <2>2 DEF Increasing
<1>5. ASSUME Increasing(s), NEW n \in Numbers(t) PROVE Head(s).number < n
  <2>1. PICK k \in 2..Len(s) : n = s[k].number
    BY <1>2
  <2>2. 1 \in 1..Len(s) /\ k \in 1..Len(s) /\ 1 < k
    BY <1>1
  <2> QED
    BY <1>1, <1>5, <2>1, <2>2 DEF Increasing
<1> QED
  BY <1>1, <1>3, <1>4, <1>5

LEMMA Full ==
  ASSUME NEW n \in Nat, n <= FifoDepth, ~(n < FifoDepth)
  PROVE  n = FifoDepth
BY DEF FifoDepth

LEMMA Overwritten ==
  ASSUME NEW s \in Seq(Message), NEW x \in Message, Len(s) = FifoDepth, Increasing(s),
         \A n \in Numbers(s) : n < x.number,
         NEW t, t = [s EXCEPT ![FifoDepth] = x]
  PROVE  /\ t \in Seq(Message) /\ Len(t) = FifoDepth
         /\ s[FifoDepth].number \in Numbers(s)
         /\ Numbers(t) = (Numbers(s) \ {s[FifoDepth].number}) \cup {x.number}
         /\ Increasing(t)
         /\ Head(t) = Head(s)
<1>1. /\ t \in Seq(Message) /\ Len(t) = 3 /\ Len(s) = 3
      /\ t[1] = s[1] /\ t[2] = s[2] /\ t[3] = x
  <2>1. Len(s) = 3 /\ t = [s EXCEPT ![3] = x]
    BY DEF FifoDepth
  <2>2. t \in Seq(Message) /\ Len(t) = 3
    BY <2>1
  <2>3. t[1] = s[1] /\ t[2] = s[2] /\ t[3] = x
    BY <2>1
  <2> QED
    BY <2>1, <2>2, <2>3
<1>2. /\ Numbers(s) = {s[1].number, s[2].number, s[3].number}
      /\ Numbers(t) = {s[1].number, s[2].number, x.number}
  <2>1. 1..Len(s) = {1, 2, 3} /\ 1..Len(t) = {1, 2, 3}
    <3>1. 1..3 = {1, 2, 3}
      OBVIOUS
    <3> QED
      BY <1>1, <3>1, Zenon
  <2>2. Numbers(s) = {s[1].number, s[2].number, s[3].number}
    BY <2>1, Zenon DEF Numbers
  <2>3. Numbers(t) = {t[1].number, t[2].number, t[3].number}
    BY <2>1, Zenon DEF Numbers
  <2> QED
    BY <1>1, <2>2, <2>3
<1>3. /\ s[1].number < s[2].number /\ s[2].number < s[3].number /\ s[1].number < s[3].number
      /\ s[3].number < x.number
  <2>1. /\ 1 \in 1..Len(s) /\ 2 \in 1..Len(s) /\ 3 \in 1..Len(s)
        /\ 1 < 2 /\ 2 < 3 /\ 1 < 3
    BY <1>1
  <2> QED
    BY <2>1, <1>2 DEF Increasing
<1>4. s[1] \in Message /\ s[2] \in Message /\ s[3] \in Message
  BY <1>1
<1>5. /\ s[1].number \in Nat /\ s[2].number \in Nat /\ s[3].number \in Nat /\ x.number \in Nat
  BY <1>4 DEF Message
<1>6. Increasing(t)
  <2>1. SUFFICES ASSUME NEW i \in 1..3, NEW j \in 1..3, i < j
                 PROVE  t[i].number < t[j].number
    BY <1>1 DEF Increasing
  <2>2. \/ i = 1 /\ j = 2
        \/ i = 1 /\ j = 3
        \/ i = 2 /\ j = 3
    BY <2>1
  <2> QED
    BY <1>1, <1>3, <1>5, <2>2
<1>7. Head(t) = Head(s)
  BY <1>1
<1>8. Numbers(t) = (Numbers(s) \ {s[3].number}) \cup {x.number}
  <2>1. ASSUME NEW a \in Nat, NEW b \in Nat, NEW c \in Nat, NEW d \in Nat, a < c, b < c
        PROVE  {a, b, d} = ({a, b, c} \ {c}) \cup {d}
    BY <2>1
  <2>2. {s[1].number, s[2].number, x.number}
          = ({s[1].number, s[2].number, s[3].number} \ {s[3].number}) \cup {x.number}
    BY <1>3, <1>5, <2>1
  <2> QED
    BY <1>2, <2>2
<1> QED
  BY <1>1, <1>2, <1>6, <1>7, <1>8 DEF FifoDepth

LEMMA Joined ==
  ASSUME NEW s \in Seq(Message), NEW t \in Seq(Message)
  PROVE  /\ s \o t \in Seq(Message)
         /\ Numbers(s \o t) = Numbers(s) \cup Numbers(t)
         /\ Increasing(s) /\ Increasing(t) /\ (\A m \in Numbers(s), n \in Numbers(t) : m < n)
              => Increasing(s \o t)
<1> DEFINE u == s \o t
<1>1. /\ u \in Seq(Message) /\ Len(u) = Len(s) + Len(t)
      /\ \A k \in 1..Len(s) : k \in 1..Len(u) /\ u[k] = s[k]
      /\ \A k \in 1..Len(t) : Len(s) + k \in 1..Len(u) /\ u[Len(s) + k] = t[k]
  OBVIOUS
<1>2. ASSUME NEW k \in 1..Len(u), k \notin 1..Len(s)
      PROVE  k - Len(s) \in 1..Len(t) /\ u[k] = t[k - Len(s)]
  BY <1>1, <1>2
<1> HIDE DEF u
<1>3. ASSUME NEW n \in Numbers(u) PROVE n \in Numbers(s) \cup Numbers(t)
  <2>1. PICK k \in 1..Len(u) : n = u[k].number
    BY DEF Numbers
  <2>2. CASE k \in 1..Len(s)
    BY <1>1, <2>1, <2>2 DEF Numbers
  <2>3. CASE k \notin 1..Len(s)
    BY <1>2, <2>1, <2>3 DEF Numbers
  <2> QED
    BY <2>2, <2>3
<1>4. ASSUME NEW n \in Numbers(s) PROVE n \in Numbers(u)
  <2>1. PICK k \in 1..Len(s) : n = s[k].number
    BY DEF Numbers
  <2> QED
    BY <1>1, <2>1 DEF Numbers
<1>5. ASSUME NEW n \in Numbers(t) PROVE n \in Numbers(u)
  <2>1. PICK k \in 1..Len(t) : n = t[k].number
    BY DEF Numbers
  <2>2. Len(s) + k \in 1..Len(u) /\ n = u[Len(s) + k].number
    BY <1>1, <2>1
  <2> QED
    BY <2>2 DEF Numbers
<1>6. ASSUME Increasing(s), Increasing(t), \A m \in Numbers(s), n \in Numbers(t) : m < n
      PROVE  Increasing(u)
  <2>1. SUFFICES ASSUME NEW i \in 1..Len(u), NEW j \in 1..Len(u), i < j
                 PROVE  u[i].number < u[j].number
    BY DEF Increasing
  <2>2. CASE i \in 1..Len(s) /\ j \in 1..Len(s)
    BY <1>1, <1>6, <2>1, <2>2 DEF Increasing
  <2>3. CASE i \in 1..Len(s) /\ j \notin 1..Len(s)
    <3>1. u[i].number \in Numbers(s)
      BY <1>1, <2>3 DEF Numbers
    <3>2. u[j].number \in Numbers(t)
      BY <1>2, <2>3 DEF Numbers
    <3> QED
      BY <1>6, <3>1, <3>2
  <2>4. CASE i \notin 1..Len(s) /\ j \notin 1..Len(s)
    <3>1. i - Len(s) < j - Len(s)
      BY <2>1, <1>1
    <3> QED
      BY <1>2, <1>6, <2>4, <3>1 DEF Increasing
  <2>5. i \notin 1..Len(s) => j \notin 1..Len(s)
    BY <1>1, <2>1
  <2> QED
    BY <2>2, <2>3, <2>4, <2>5
<1> QED
  BY <1>1, <1>3, <1>4, <1>5, <1>6 DEF u

-----------------------------------------------------------------------------
(* The invariant.                                                          *)

\* The number of the message in the handler's hands, released but not pushed.
Held == IF isr = "push" THEN {rxMessage.number} ELSE {}

Underway == Numbers(rxQueue) \cup Held \cup Numbers(fifo)

\* Messages are as old as their place in the pipeline says.
Ordered ==
  /\ Increasing(rxQueue) /\ Increasing(fifo)
  /\ \A q \in Numbers(rxQueue), n \in Held \cup Numbers(fifo) : q < n
  /\ \A n \in Held, f \in Numbers(fifo) : n < f
  /\ \A h \in handled, n \in Underway : h < n

\* Every message that arrived is handled, dropped or underway.
Accounted ==
  /\ 1..arrived = handled \cup dropped \cup Underway
  /\ dropped \cap (handled \cup Underway) = {}

\* While the handler has a message in the output mailbox an overrun means a
\* full FIFO; afterwards two messages are left of it.
MailboxReady ==
  /\ isr \in {"read", "release"} => fifo # <<>>
  /\ isr = "release" => rxMessage = Head(fifo)
  /\ overrun => Len(fifo) >= IF isr \in {"read", "release"} THEN FifoDepth ELSE FifoDepth - 1

\* The encoder shows the place of the last processed message within its turn.
EncoderRight ==
  \A m \in Motor :
    /\ last[m].heard => encoder[m].wrapped = Reading(m, last[m].position)
    /\ ~last[m].heard =>
         encoder[m].wrapped = ENC_RESOLUTION \div 2 /\ encoder[m].revolutions = 0
    /\ last[m].heard /\ ~last[m].missed =>
         Unwrapped(m) = Signed(m, last[m].position) + last[m].origin

PipelineInv == TypeOK /\ Ordered /\ Accounted /\ MailboxReady
Inv == PipelineInv /\ EncoderRight

-----------------------------------------------------------------------------
(* The pipeline's parts of the invariant.                                  *)

\* What a received message does to the FIFO, full or not.
LEMMA ReceiveKeeps ==
  ASSUME PipelineInv, NEW from \in Motor \cup Stranger, NEW position \in Int,
         Receive(from, position), shaft' \in [Motor -> Int]
  PROVE  PipelineInv'
<1> DEFINE message == [number |-> arrived + 1, from |-> from, position |-> position]
<1>0. TypeOK /\ Ordered /\ Accounted /\ MailboxReady
  BY DEF PipelineInv
<1>1. /\ message \in Message /\ message.number = arrived + 1 /\ arrived \in Nat
      /\ arrived + 1 \in 0..MaxMessages /\ arrived' = arrived + 1
      /\ 1..arrived' = 1..arrived \cup {arrived + 1}
  <2>1. arrived \in 0..MaxMessages /\ arrived < MaxMessages /\ arrived' = arrived + 1
    BY <1>0 DEF Receive, TypeOK
  <2>2. /\ arrived \in Nat /\ arrived + 1 \in 0..MaxMessages
        /\ 1..arrived + 1 = 1..arrived \cup {arrived + 1}
    BY <2>1, BoundType
  <2>3. message \in Message
    BY <2>2 DEF Message
  <2> QED
    BY <2>1, <2>2, <2>3
<1>2. /\ UNCHANGED <<isr, rxMessage, rxQueue, handled, encoder, last>>
      /\ Held' = Held /\ Numbers(rxQueue)' = Numbers(rxQueue)
      /\ Increasing(rxQueue)' = Increasing(rxQueue)
      /\ Numbers(fifo)' = Numbers(fifo') /\ Increasing(fifo)' = Increasing(fifo')
  BY DEF Receive, Held, Numbers, Increasing
<1>3. \A n \in handled \cup dropped \cup Underway : n \in Int /\ n < arrived + 1
  BY <1>0, <1>1 DEF Accounted
<1>4. CASE Len(fifo) < FifoDepth
  <2>1. fifo' = Append(fifo, message) /\ UNCHANGED <<overrun, dropped>>
    BY <1>4 DEF Receive
  <2>2. /\ fifo' \in Seq(Message) /\ Len(fifo') = Len(fifo) + 1 /\ Len(fifo) \in Nat
        /\ Numbers(fifo)' = Numbers(fifo) \cup {arrived + 1}
        /\ Increasing(fifo)'
        /\ fifo # <<>> => Head(fifo') = Head(fifo)
    <3>1. fifo \in Seq(Message)
      BY <1>0 DEF TypeOK
    <3>2. Increasing(fifo) /\ \A n \in Numbers(fifo) : n < message.number
      BY <1>0, <1>1, <1>3 DEF Ordered, Underway
    <3>3. Len(fifo) \in Nat
      BY <3>1
    <3> HIDE DEF message
    <3> QED
      BY <1>1, <1>2, <2>1, <3>1, <3>2, <3>3, Appended
  <2>3. Underway' = Underway \cup {arrived + 1}
    BY <1>2, <2>2 DEF Underway
  <2>4. TypeOK'
    <3>1. Len(fifo') <= FifoDepth
      BY <1>4, <2>2 DEF FifoDepth
    <3>2. UNCHANGED <<isr, rxMessage, rxQueue, handled, encoder, last>>
      BY DEF Receive
    <3>3. shaft' \in [Motor -> Int] /\ arrived' \in 0..MaxMessages
      BY <1>1
    <3>4. handled' \in SUBSET (1..arrived') /\ dropped' \in SUBSET (1..arrived')
      BY <1>0, <1>1, <2>1, <3>2 DEF TypeOK
    <3> QED
      BY <1>0, <2>1, <2>2, <3>1, <3>2, <3>3, <3>4 DEF TypeOK
  <2>5. Ordered'
    <3>1. /\ \A q \in Numbers(rxQueue), n \in Held \cup Numbers(fifo)' : q < n
          /\ \A n \in Held, f \in Numbers(fifo)' : n < f
          /\ \A h \in handled, n \in Underway' : h < n
      BY <1>0, <1>3, <2>2, <2>3 DEF Ordered, Underway
    <3> QED
      BY <1>0, <1>2, <2>2, <3>1 DEF Ordered
  <2>6. Accounted'
    BY <1>0, <1>1, <1>2, <1>3, <2>1, <2>3 DEF Accounted
  <2>7. MailboxReady'
    BY <1>0, <1>2, <2>1, <2>2 DEF MailboxReady, FifoDepth
  <2> QED
    BY <2>4, <2>5, <2>6, <2>7 DEF PipelineInv
<1>5. CASE ~(Len(fifo) < FifoDepth)
  <2>1. /\ fifo' = [fifo EXCEPT ![FifoDepth] = message]
        /\ overrun' = TRUE
        /\ dropped' = dropped \cup {fifo[FifoDepth].number}
    BY <1>5 DEF Receive
  <2>2. fifo \in Seq(Message) /\ Len(fifo) = FifoDepth
    <3>1. fifo \in Seq(Message) /\ Len(fifo) <= FifoDepth
      BY <1>0 DEF TypeOK
    <3>2. Len(fifo) \in Nat
      BY <3>1
    <3> QED
      BY <1>5, <3>1, <3>2, Full
  <2>3. /\ fifo' \in Seq(Message) /\ Len(fifo') = FifoDepth
        /\ fifo[FifoDepth].number \in Numbers(fifo)
        /\ Numbers(fifo') = (Numbers(fifo) \ {fifo[FifoDepth].number}) \cup {arrived + 1}
        /\ Increasing(fifo')
        /\ Head(fifo') = Head(fifo)
    <3>1. Increasing(fifo) /\ \A n \in Numbers(fifo) : n < message.number
      BY <1>0, <1>1, <1>3 DEF Ordered, Underway
    <3>2. message \in Message /\ fifo' = [fifo EXCEPT ![FifoDepth] = message]
      BY <1>1, <2>1
    <3> HIDE DEF message
    <3>3. /\ fifo' \in Seq(Message) /\ Len(fifo') = FifoDepth
          /\ fifo[FifoDepth].number \in Numbers(fifo)
          /\ Numbers(fifo') = (Numbers(fifo) \ {fifo[FifoDepth].number}) \cup {message.number}
          /\ Increasing(fifo')
          /\ Head(fifo') = Head(fifo)
      BY <2>2, <3>1, <3>2, Overwritten, Zenon
    <3> QED
      BY <1>1, <3>3
  <2> DEFINE lost == fifo[FifoDepth].number
  <2>4. Numbers(fifo)' = Numbers(fifo') /\ Increasing(fifo)' = Increasing(fifo')
    BY <1>2
  <2>5. /\ lost \in Underway /\ lost \notin Numbers(rxQueue) \cup Held
        /\ lost \in 1..arrived
    <3>1. \A q \in Numbers(rxQueue) \cup Held : q < lost /\ q \in Int
      BY <1>0, <1>3, <2>3 DEF Ordered, Underway
    <3> QED
      BY <1>0, <2>3, <3>1 DEF Underway, Accounted
  <2>6. Underway' = (Underway \ {lost}) \cup {arrived + 1}
    <3>1. lost # arrived + 1
      BY <1>3, <2>5
    <3> QED
      BY <1>2, <2>3, <2>4, <2>5, <3>1 DEF Underway
  <2>7. TypeOK'
    <3>1. fifo' \in Seq(Message) /\ Len(fifo') <= FifoDepth
      BY <2>3 DEF FifoDepth
    <3>2. handled' \in SUBSET (1..arrived') /\ dropped' \in SUBSET (1..arrived')
      BY <1>0, <1>1, <1>2, <2>1, <2>5 DEF TypeOK
    <3> QED
      BY <1>0, <1>1, <1>2, <2>1, <3>1, <3>2 DEF TypeOK
  <2>8. Ordered'
    <3>1. /\ \A q \in Numbers(rxQueue), n \in Held \cup Numbers(fifo)' : q < n
          /\ \A n \in Held, f \in Numbers(fifo)' : n < f
          /\ \A h \in handled, n \in Underway' : h < n
      BY <1>0, <1>3, <2>3, <2>4, <2>6 DEF Ordered, Underway
    <3> QED
      BY <1>0, <1>2, <2>3, <2>4, <3>1 DEF Ordered
  <2>9. Accounted'
    <3>1. lost \notin handled
      BY <1>0, <1>3, <2>5 DEF Ordered
    <3>2. arrived + 1 \notin handled \cup dropped \cup {lost}
      BY <1>3, <2>5
    <3> QED
      BY <1>0, <1>1, <1>2, <2>1, <2>5, <2>6, <3>1, <3>2 DEF Accounted
  <2>10. MailboxReady'
    BY <1>0, <1>2, <2>1, <2>2, <2>3 DEF MailboxReady, FifoDepth
  <2> QED
    BY <2>7, <2>8, <2>9, <2>10 DEF PipelineInv
<1> QED
  BY <1>4, <1>5

\* Numbers are integers, as old as the messages that arrived.
LEMMA UnderwayType ==
  ASSUME TypeOK, Accounted
  PROVE  \A n \in handled \cup dropped \cup Underway : n \in Int /\ n \in 1..arrived
BY DEF Accounted, TypeOK

LEMMA EnterHandlerKeeps ==
  ASSUME PipelineInv, EnterHandler
  PROVE  PipelineInv'
<1>0. /\ TypeOK /\ Ordered /\ Accounted /\ MailboxReady
      /\ isr = "idle" /\ Due /\ isr' = "read"
      /\ UNCHANGED <<shaft, arrived, rxMessage, rxQueue, handled, encoder, last>>
  BY DEF PipelineInv, EnterHandler
<1>1. /\ Held = {} /\ Held' = {}
      /\ Numbers(rxQueue)' = Numbers(rxQueue) /\ Increasing(rxQueue)' = Increasing(rxQueue)
      /\ Numbers(fifo)' = Numbers(fifo') /\ Increasing(fifo)' = Increasing(fifo')
  BY <1>0 DEF Held, Numbers, Increasing
<1>2. fifo \in Seq(Message) /\ Len(fifo) \in Nat /\ Len(fifo) <= FifoDepth
  BY <1>0 DEF TypeOK
<1>3. CASE ~overrun
  <2>1. UNCHANGED <<fifo, overrun, dropped>> /\ fifo # <<>>
    BY <1>0, <1>3 DEF EnterHandler, Due
  <2>2. Underway' = Underway
    BY <1>0, <1>1, <2>1 DEF Underway
  <2>3. TypeOK'
    BY <1>0, <2>1 DEF TypeOK
  <2>4. Ordered' /\ Accounted'
    BY <1>0, <1>1, <2>1, <2>2 DEF Ordered, Accounted
  <2>5. MailboxReady'
    BY <1>0, <1>3, <2>1 DEF MailboxReady
  <2> QED
    BY <2>3, <2>4, <2>5 DEF PipelineInv
<1>4. CASE overrun
  <2> DEFINE lost == Head(fifo).number
  <2>1. /\ fifo' = Tail(fifo) /\ overrun' = FALSE /\ dropped' = dropped \cup {lost}
    BY <1>4 DEF EnterHandler
  <2>2. Len(fifo) >= 2 /\ fifo # <<>>
    BY <1>0, <1>2, <1>4 DEF MailboxReady, FifoDepth
  <2>3. /\ fifo' \in Seq(Message) /\ Len(fifo') = Len(fifo) - 1
        /\ Numbers(fifo) = {lost} \cup Numbers(fifo')
        /\ Increasing(fifo') /\ \A n \in Numbers(fifo') : lost < n
    BY <1>0, <1>2, <2>1, <2>2, Beheaded DEF Ordered
  <2>4. fifo' # <<>>
    BY <1>2, <2>2, <2>3
  <2>5. lost \in Underway /\ lost \in 1..arrived /\ lost \in Int
    BY <1>0, <2>3, UnderwayType DEF Underway
  <2>6. lost \notin Numbers(fifo') /\ lost \notin Numbers(rxQueue) /\ lost \notin handled
    BY <1>0, <2>3, <2>5 DEF Ordered
  <2>7. Underway' = Underway \ {lost}
    BY <1>0, <1>1, <2>3, <2>6 DEF Underway
  <2>8. TypeOK'
    <3>1. dropped' \in SUBSET (1..arrived)
      BY <1>0, <2>1, <2>5 DEF TypeOK
    <3>2. Len(fifo') <= FifoDepth
      BY <1>2, <2>3 DEF FifoDepth
    <3> QED
      BY <1>0, <2>1, <2>3, <3>1, <3>2 DEF TypeOK
  <2>9. Ordered'
    BY <1>0, <1>1, <2>3, <2>7 DEF Ordered
  <2>10. Accounted'
    BY <1>0, <2>1, <2>5, <2>6, <2>7 DEF Accounted
  <2>11. MailboxReady'
    BY <1>0, <2>1, <2>4 DEF MailboxReady
  <2> QED
    BY <2>8, <2>9, <2>10, <2>11 DEF PipelineInv
<1> QED
  BY <1>3, <1>4

LEMMA ReadMailboxKeeps ==
  ASSUME PipelineInv, ReadMailbox
  PROVE  PipelineInv'
<1>0. /\ TypeOK /\ Ordered /\ Accounted /\ MailboxReady
      /\ isr = "read" /\ isr' = "release" /\ rxMessage' = Head(fifo)
      /\ UNCHANGED <<shaft, arrived, fifo, overrun, rxQueue, handled, dropped, encoder, last>>
  BY DEF PipelineInv, ReadMailbox
<1>1. /\ Held' = Held /\ Underway' = Underway
      /\ Numbers(rxQueue)' = Numbers(rxQueue) /\ Increasing(rxQueue)' = Increasing(rxQueue)
      /\ Numbers(fifo)' = Numbers(fifo) /\ Increasing(fifo)' = Increasing(fifo)
  BY <1>0 DEF Held, Underway, Numbers, Increasing
<1>2. rxMessage' \in Message
  <2>1. fifo \in Seq(Message) /\ fifo # <<>>
    BY <1>0 DEF TypeOK, MailboxReady
  <2> QED
    BY <1>0, <2>1, Beheaded
<1>3. TypeOK'
  BY <1>0, <1>2 DEF TypeOK
<1>4. Ordered' /\ Accounted'
  BY <1>0, <1>1 DEF Ordered, Accounted
<1>5. MailboxReady'
  BY <1>0 DEF MailboxReady
<1> QED
  BY <1>3, <1>4, <1>5 DEF PipelineInv

LEMMA ReleaseKeeps ==
  ASSUME PipelineInv, Release
  PROVE  PipelineInv'
<1>0. /\ TypeOK /\ Ordered /\ Accounted /\ MailboxReady
      /\ isr = "release" /\ isr' = "push" /\ fifo' = Tail(fifo)
      /\ UNCHANGED <<shaft, arrived, overrun, rxMessage, rxQueue, handled, dropped, encoder, last>>
  BY DEF PipelineInv, Release
<1>1. fifo \in Seq(Message) /\ fifo # <<>> /\ Len(fifo) <= FifoDepth /\ rxMessage = Head(fifo)
  BY <1>0 DEF TypeOK, MailboxReady
<1>2. /\ fifo' \in Seq(Message) /\ Len(fifo') = Len(fifo) - 1 /\ Len(fifo) \in Nat
      /\ Numbers(fifo) = {rxMessage.number} \cup Numbers(fifo')
      /\ Increasing(fifo') /\ \A n \in Numbers(fifo') : rxMessage.number < n
  BY <1>0, <1>1, Beheaded DEF Ordered
<1>3. /\ Held = {} /\ Held' = {rxMessage.number}
      /\ Numbers(rxQueue)' = Numbers(rxQueue) /\ Increasing(rxQueue)' = Increasing(rxQueue)
      /\ Numbers(fifo)' = Numbers(fifo') /\ Increasing(fifo)' = Increasing(fifo')
  BY <1>0 DEF Held, Numbers, Increasing
<1>4. Underway' = Underway
  BY <1>2, <1>3 DEF Underway
<1>5. TypeOK'
  <2>1. Len(fifo') <= FifoDepth
    BY <1>1, <1>2 DEF FifoDepth
  <2> QED
    BY <1>0, <1>2, <2>1 DEF TypeOK
<1>6. Ordered'
  BY <1>0, <1>2, <1>3, <1>4 DEF Ordered
<1>7. Accounted'
  BY <1>0, <1>4 DEF Accounted
<1>8. MailboxReady'
  <2>1. overrun => Len(fifo) >= FifoDepth
    BY <1>0 DEF MailboxReady
  <2>2. overrun => Len(fifo') >= FifoDepth - 1
    BY <1>2, <2>1 DEF FifoDepth
  <2> QED
    BY <1>0, <2>2 DEF MailboxReady
<1> QED
  BY <1>5, <1>6, <1>7, <1>8 DEF PipelineInv

LEMMA PushKeeps ==
  ASSUME PipelineInv, Push
  PROVE  PipelineInv'
<1> DEFINE n == rxMessage.number
<1>0. /\ TypeOK /\ Ordered /\ Accounted /\ MailboxReady
      /\ isr = "push" /\ isr' = "idle" /\ rxMessage' = Nothing
      /\ UNCHANGED <<shaft, arrived, fifo, overrun, handled, encoder, last>>
  BY DEF PipelineInv, Push
<1>1. rxMessage \in Message /\ rxQueue \in Seq(Message) /\ Len(rxQueue) <= Capacity
  BY <1>0 DEF TypeOK
<1>2. /\ Held = {n} /\ Held' = {}
      /\ Numbers(fifo)' = Numbers(fifo) /\ Increasing(fifo)' = Increasing(fifo)
      /\ Numbers(rxQueue)' = Numbers(rxQueue') /\ Increasing(rxQueue)' = Increasing(rxQueue')
  BY <1>0 DEF Held, Numbers, Increasing
<1>3. n \in Underway /\ n \in 1..arrived /\ n \in Int
  BY <1>0, <1>2, UnderwayType DEF Underway
<1>4. /\ \A q \in Numbers(rxQueue) : q < n
      /\ \A f \in Numbers(fifo) : n < f
      /\ \A h \in handled : h < n
      /\ n \notin Numbers(rxQueue) \cup Numbers(fifo) \cup handled
  BY <1>0, <1>2, <1>3 DEF Ordered
<1>5. MailboxReady'
  BY <1>0 DEF MailboxReady
<1>6. CASE Len(rxQueue) < Capacity
  <2>1. rxQueue' = Append(rxQueue, rxMessage) /\ UNCHANGED dropped
    BY <1>6 DEF Push
  <2>2. /\ rxQueue' \in Seq(Message) /\ Len(rxQueue') = Len(rxQueue) + 1
        /\ Numbers(rxQueue') = Numbers(rxQueue) \cup {n}
        /\ Increasing(rxQueue')
    BY <1>0, <1>1, <1>4, <2>1, Appended DEF Ordered
  <2>3. Underway' = Underway
    BY <1>2, <2>2 DEF Underway
  <2>4. TypeOK'
    <3>1. Len(rxQueue) \in Nat
      BY <1>1
    <3>2. Len(rxQueue') <= Capacity
      BY <1>6, <2>2, <3>1, CapacityType
    <3> QED
      BY <1>0, <2>1, <2>2, <3>2 DEF TypeOK
  <2>5. Ordered'
    BY <1>0, <1>2, <1>4, <2>2, <2>3 DEF Ordered
  <2>6. Accounted'
    BY <1>0, <2>1, <2>3 DEF Accounted
  <2> QED
    BY <1>5, <2>4, <2>5, <2>6 DEF PipelineInv
<1>7. CASE ~(Len(rxQueue) < Capacity)
  <2>1. dropped' = dropped \cup {n} /\ UNCHANGED rxQueue
    BY <1>7 DEF Push
  <2>2. Underway' = Underway \ {n}
    BY <1>2, <1>4, <2>1 DEF Underway
  <2>3. TypeOK'
    BY <1>0, <1>3, <2>1 DEF TypeOK
  <2>4. Ordered'
    BY <1>0, <1>2, <2>1, <2>2 DEF Ordered
  <2>5. Accounted'
    BY <1>0, <1>3, <1>4, <2>1, <2>2 DEF Accounted
  <2> QED
    BY <1>5, <2>3, <2>4, <2>5 DEF PipelineInv
<1> QED
  BY <1>6, <1>7

-----------------------------------------------------------------------------
(* The encoder.                                                            *)

LEMMA Division ==
  ASSUME NEW r \in Nat \ {0}, NEW a \in Int
  PROVE  /\ a % r \in 0..r - 1
         /\ a = r * (a \div r) + (a % r)
         /\ a \div r \in Int
  OBVIOUS

LEMMA SmallMultiple ==
  ASSUME NEW r \in Nat \ {0}, NEW j \in Int, -2 * r < r * j, r * j < 2 * r
  PROVE  j \in {-1, 0, 1}
<1>1. j <= 1
  <2>1. SUFFICES ASSUME j >= 2 PROVE FALSE
    OBVIOUS
  <2>2. r * (j - 2) >= 0
    BY <2>1
  <2>3. r * (j - 2) = r * j - 2 * r
    OBVIOUS
  <2> QED BY <2>2, <2>3
<1>2. j >= -1
  <2>1. SUFFICES ASSUME j <= -2 PROVE FALSE
    OBVIOUS
  <2>2. r * (-2 - j) >= 0
    BY <2>1
  <2>3. r * (-2 - j) = -2 * r - r * j
    OBVIOUS
  <2> QED BY <2>2, <2>3
<1> QED BY <1>1, <1>2

\* The turns that lie behind a position, counted the way the motor counts.
Turns(m, position) ==
  IF m \in Inverted THEN -(position \div ENC_RESOLUTION) ELSE position \div ENC_RESOLUTION

LEMMA TurnsAndReading ==
  ASSUME NEW m, NEW position \in Int
  PROVE  /\ Reading(m, position) \in 0..ENC_RESOLUTION - 1
         /\ Turns(m, position) \in Int /\ Signed(m, position) \in Int
         /\ Signed(m, position) = ENC_RESOLUTION * Turns(m, position) + Reading(m, position)
<1> DEFINE r == ENC_RESOLUTION
<1>1. r \in Nat \ {0}
  BY ResolutionType
<1>2. /\ position % r \in 0..r - 1 /\ position \div r \in Int
      /\ position = r * (position \div r) + (position % r)
  BY <1>1, Division
<1>3. CASE m \in Inverted
  <2>1. r * (-(position \div r)) = -(r * (position \div r))
    BY <1>1, <1>2
  <2> QED
    BY <1>1, <1>2, <1>3, <2>1 DEF Reading, Turns, Signed
<1>4. CASE m \notin Inverted
  BY <1>1, <1>2, <1>4 DEF Reading, Turns, Signed
<1> QED
  BY <1>3, <1>4

\* updateEncoderValue() counts the turns, if less than half a turn passed.
LEMMA RevolutionsCountTurns ==
  ASSUME NEW m, NEW old \in Int, NEW new \in Int,
         2 * (new - old) \in 1 - ENC_RESOLUTION..ENC_RESOLUTION - 1
  PROVE  Revolutions(Reading(m, old), Reading(m, new)) = Turns(m, new) - Turns(m, old)
<1> DEFINE r == ENC_RESOLUTION
           h == r \div 2
           a == Reading(m, old)
           b == Reading(m, new)
           s == Turns(m, old)
           t == Turns(m, new)
           j == t - s
           d == Signed(m, new) - Signed(m, old)
<1>1. r \in Nat \ {0} /\ h \in Int /\ r = 2 * h
  BY ResolutionType
<1>2. /\ a \in 0..r - 1 /\ s \in Int /\ Signed(m, old) = r * s + a
      /\ b \in 0..r - 1 /\ t \in Int /\ Signed(m, new) = r * t + b
      /\ d \in Int /\ j \in Int
  BY TurnsAndReading
<1>3. -h < d /\ d < h
  <2>1. d = new - old \/ d = old - new
    BY ResolutionType DEF Signed
  <2> QED
    BY <1>1, <2>1
<1>4. r * j = d - (b - a)
  <2> HIDE DEF a, b, s, t, r
  <2>1. r * (t - s) = r * t - r * s
    BY <1>1, <1>2
  <2> QED
    BY <1>1, <1>2, <2>1
<1> HIDE DEF r, h, a, b, s, t, j, d
<1>5. j \in {-1, 0, 1}
  <2>1. -2 * r < r * j /\ r * j < 2 * r
    BY <1>1, <1>2, <1>3, <1>4
  <2> QED
    BY <1>1, <1>2, <2>1, SmallMultiple
<1>6. /\ j = 1 => b - a < -h
      /\ j = -1 => b - a > h
      /\ j = 0 => ~(b - a < -h) /\ ~(b - a > h)
  <2>1. j = 1 => r * j = r
    BY <1>1
  <2>2. j = -1 => r * j = -r
    BY <1>1
  <2>3. j = 0 => r * j = 0
    BY <1>1
  <2> QED
    BY <1>1, <1>2, <1>3, <1>4, <2>1, <2>2, <2>3
<1>7. Revolutions(a, b) = IF b - a < -h THEN 1 ELSE IF b - a > h THEN -1 ELSE 0
  BY DEF Revolutions, h, r
<1>8. Revolutions(a, b) = j
  BY <1>1, <1>2, <1>5, <1>6, <1>7
<1> QED
  BY <1>8 DEF a, b, j, s, t

EncoderType == encoder \in [Motor -> [wrapped : 0..ENC_RESOLUTION - 1, revolutions : Int]]
LastType ==
  last \in [Motor -> [heard : BOOLEAN, position : Int, origin : Int, missed : BOOLEAN]]

LEMMA ParseTypes ==
  ASSUME TypeOK, NEW m \in Motor, NEW position \in Int, Parse(m, position)
  PROVE  EncoderType' /\ LastType'
<1> DEFINE reading == Reading(m, position)
           step == Revolutions(encoder[m].wrapped, reading)
<1>1. EncoderType /\ LastType
  BY DEF TypeOK, EncoderType, LastType
<1>2. reading \in 0..ENC_RESOLUTION - 1 /\ Signed(m, position) \in Int
  BY TurnsAndReading
<1>3. step \in Int
  BY DEF Revolutions
<1>4. encoder' = [encoder EXCEPT ![m] = [wrapped |-> reading,
                                         revolutions |-> encoder[m].revolutions + step]]
  BY DEF Parse
<1>5. reading - Signed(m, position) \in Int
  BY <1>2, ResolutionType
<1> HIDE DEF reading, step
<1>6. EncoderType'
  <2>1. encoder[m].revolutions + step \in Int
    BY <1>1, <1>3 DEF EncoderType
  <2> QED
    BY <1>1, <1>2, <1>4, <2>1 DEF EncoderType
<1>7. LastType'
  <2> DEFINE far == 2 * (position - last[m].position) \notin 1 - ENC_RESOLUTION..ENC_RESOLUTION - 1
             origin == IF last[m].heard THEN last[m].origin ELSE reading - Signed(m, position)
             missed == IF last[m].heard /\ far THEN TRUE ELSE last[m].missed
  <2>1. last' = [last EXCEPT ![m] = [heard |-> TRUE, position |-> position,
                                     origin |-> origin, missed |-> missed]]
    BY DEF Parse, reading
  <2>2. origin \in Int /\ missed \in BOOLEAN
    BY <1>1, <1>5 DEF LastType
  <2> HIDE DEF far, origin, missed
  <2> QED
    BY <1>1, <2>1, <2>2 DEF LastType
<1> QED
  BY <1>6, <1>7

LEMMA ParseFollows ==
  ASSUME TypeOK, EncoderRight, NEW m \in Motor, NEW position \in Int, Parse(m, position)
  PROVE  EncoderRight'
<1> DEFINE r == ENC_RESOLUTION
           reading == Reading(m, position)
           old == last[m].position
           step == Revolutions(encoder[m].wrapped, reading)
<1>1. EncoderType /\ LastType
  BY DEF TypeOK, EncoderType, LastType
<1>2. /\ r \in Nat \ {0} /\ old \in Int
      /\ encoder[m].wrapped \in Int /\ encoder[m].revolutions \in Int
      /\ last[m].origin \in Int /\ last[m].heard \in BOOLEAN /\ last[m].missed \in BOOLEAN
  BY <1>1, ResolutionType DEF EncoderType, LastType
<1>3. /\ reading \in 0..r - 1 /\ Turns(m, position) \in Int /\ Signed(m, position) \in Int
      /\ Signed(m, position) = r * Turns(m, position) + reading
  BY TurnsAndReading
<1>4. /\ encoder'[m].wrapped = reading
      /\ encoder'[m].revolutions = encoder[m].revolutions + step
      /\ \A n \in Motor \ {m} : encoder'[n] = encoder[n] /\ last'[n] = last[n]
      /\ last'[m].heard /\ last'[m].position = position
  BY <1>1 DEF Parse, EncoderType, LastType
<1>5. CASE last[m].heard
  <2>1. /\ last'[m].origin = last[m].origin
        /\ last'[m].missed = IF 2 * (position - old) \notin 1 - r..r - 1
                               THEN TRUE ELSE last[m].missed
    BY <1>1, <1>5 DEF Parse, LastType
  <2>2. encoder[m].wrapped = Reading(m, old)
    BY <1>5 DEF EncoderRight
  <2>3. ASSUME ~last'[m].missed
        PROVE  encoder'[m].wrapped + r * encoder'[m].revolutions
                 = Signed(m, position) + last[m].origin
    <3>1. ~last[m].missed /\ 2 * (position - old) \in 1 - r..r - 1
      BY <2>1, <2>3
    <3>2. step = Turns(m, position) - Turns(m, old)
      BY <1>2, <2>2, <3>1, RevolutionsCountTurns
    <3>3. encoder[m].wrapped + r * encoder[m].revolutions = Signed(m, old) + last[m].origin
      BY <1>5, <3>1 DEF EncoderRight, Unwrapped
    <3>4. /\ Turns(m, old) \in Int /\ Signed(m, old) \in Int
          /\ Signed(m, old) = r * Turns(m, old) + encoder[m].wrapped
      BY <1>2, <2>2, TurnsAndReading
    <3> HIDE DEF r, reading, old, step
    <3>5. r * (encoder[m].revolutions + (Turns(m, position) - Turns(m, old)))
            = r * encoder[m].revolutions + r * Turns(m, position) - r * Turns(m, old)
      BY <1>2, <1>3, <3>4
    <3>6. r * encoder[m].revolutions \in Int /\ r * Turns(m, position) \in Int
          /\ r * Turns(m, old) \in Int /\ reading \in Int
      BY <1>2, <1>3, <3>4
    <3>7. /\ encoder'[m].wrapped = reading
          /\ r * encoder'[m].revolutions
               = r * encoder[m].revolutions + r * Turns(m, position) - r * Turns(m, old)
      BY <1>4, <3>2, <3>5
    <3> QED
      <4> DEFINE a == r * encoder[m].revolutions
                 b == r * Turns(m, position)
                 c == r * Turns(m, old)
                 v == encoder[m].wrapped
                 o == last[m].origin
      <4>1. a \in Int /\ b \in Int /\ c \in Int /\ v \in Int /\ o \in Int /\ reading \in Int
        BY <1>2, <3>6
      <4>2. /\ v + a = (c + v) + o
            /\ Signed(m, position) = b + reading
            /\ encoder'[m].wrapped + r * encoder'[m].revolutions = reading + (a + b - c)
        BY <1>3, <3>3, <3>4, <3>7
      <4> HIDE DEF a, b, c, v, o
      <4>3. reading + (a + b - c) = (b + reading) + o
        BY <4>1, <4>2
      <4> QED
        BY <4>2, <4>3 DEF o
  <2> QED
    BY <1>4, <1>5, <2>1, <2>3 DEF EncoderRight, Unwrapped
<1>6. CASE ~last[m].heard
  <2>1. last'[m].origin = reading - Signed(m, position)
    BY <1>1, <1>6 DEF Parse, LastType
  <2>2. encoder[m].wrapped = r \div 2 /\ encoder[m].revolutions = 0
    BY <1>6 DEF EncoderRight
  <2>3. step = 0
    BY <1>3, <2>2, ResolutionType DEF Revolutions
  <2>4. encoder'[m].revolutions = 0
    BY <1>4, <2>2, <2>3
  <2>5. encoder'[m].wrapped + r * encoder'[m].revolutions
          = Signed(m, position) + last'[m].origin
    BY <1>2, <1>3, <1>4, <2>1, <2>4
  <2> QED
    BY <1>4, <1>6, <2>5 DEF EncoderRight, Unwrapped
<1> QED
  BY <1>2, <1>5, <1>6

LEMMA PollCanDataKeeps ==
  ASSUME PipelineInv, PollCanData
  PROVE  PipelineInv'
<1> DEFINE n == Head(rxQueue).number
<1>0. /\ TypeOK /\ Ordered /\ Accounted /\ MailboxReady
      /\ isr = "idle" /\ rxQueue # <<>> /\ rxQueue' = Tail(rxQueue)
      /\ handled' = handled \cup {n}
      /\ UNCHANGED <<shaft, arrived, fifo, overrun, isr, rxMessage, dropped>>
  BY DEF PipelineInv, PollCanData
<1>1. rxQueue \in Seq(Message) /\ Len(rxQueue) <= Capacity /\ Len(rxQueue) \in Nat
  BY <1>0 DEF TypeOK
<1>2. /\ Head(rxQueue) \in Message /\ rxQueue' \in Seq(Message)
      /\ Len(rxQueue') = Len(rxQueue) - 1
      /\ Numbers(rxQueue) = {n} \cup Numbers(rxQueue')
      /\ Increasing(rxQueue') /\ \A q \in Numbers(rxQueue') : n < q
  BY <1>0, <1>1, Beheaded DEF Ordered
<1>3. /\ Held' = Held
      /\ Numbers(fifo)' = Numbers(fifo) /\ Increasing(fifo)' = Increasing(fifo)
      /\ Numbers(rxQueue)' = Numbers(rxQueue') /\ Increasing(rxQueue)' = Increasing(rxQueue')
  BY <1>0 DEF Held, Numbers, Increasing
<1>4. n \in Underway /\ n \in 1..arrived /\ n \in Int /\ n \notin dropped
  BY <1>0, <1>2, UnderwayType DEF Underway, Accounted
<1>5. /\ \A q \in Held \cup Numbers(fifo) \cup Numbers(rxQueue') : n < q
      /\ n \notin Held \cup Numbers(fifo) \cup Numbers(rxQueue')
  BY <1>0, <1>2, <1>4 DEF Ordered
<1>6. Underway' = Underway \ {n}
  BY <1>2, <1>3, <1>5 DEF Underway
<1>7. TypeOK'
  <2>1. EncoderType' /\ LastType'
    <3>1. CASE Head(rxQueue).from \in Motor
      <4>1. Head(rxQueue).position \in Int /\ Parse(Head(rxQueue).from, Head(rxQueue).position)
        BY <1>2, <3>1 DEF PollCanData, Message
      <4> QED
        BY <1>0, <3>1, <4>1, ParseTypes
    <3>2. CASE Head(rxQueue).from \notin Motor
      <4>1. UNCHANGED <<encoder, last>>
        BY <3>2 DEF PollCanData
      <4> QED
        BY <1>0, <4>1 DEF TypeOK, EncoderType, LastType
    <3> QED
      BY <3>1, <3>2
  <2>2. Len(rxQueue') <= Capacity
    BY <1>1, <1>2, CapacityType
  <2>3. handled' \in SUBSET (1..arrived)
    BY <1>0, <1>4 DEF TypeOK
  <2> QED
    BY <1>0, <1>2, <2>1, <2>2, <2>3 DEF TypeOK, EncoderType, LastType
<1>8. Ordered'
  <2>1. \A h \in handled', u \in Underway' : h < u
    BY <1>0, <1>2, <1>3, <1>5, <1>6 DEF Ordered, Underway
  <2> QED
    BY <1>0, <1>2, <1>3, <2>1 DEF Ordered
<1>9. Accounted'
  BY <1>0, <1>4, <1>6 DEF Accounted
<1>10. MailboxReady'
  BY <1>0 DEF MailboxReady
<1> QED
  BY <1>7, <1>8, <1>9, <1>10 DEF PipelineInv

-----------------------------------------------------------------------------
(* The theorems.                                                           *)

LEMMA InitInv == Init => Inv
<1> SUFFICES ASSUME Init PROVE Inv
  OBVIOUS
<1> USE DEF Init
<1>1. TypeOK
  <2>1. shaft \in [Motor -> Int]
    BY StartType
  <2>2. arrived \in 0..MaxMessages
    BY BoundType
  <2>3. /\ fifo \in Seq(Message) /\ Len(fifo) <= FifoDepth
        /\ rxQueue \in Seq(Message) /\ Len(rxQueue) <= Capacity
    BY CapacityType DEF FifoDepth
  <2>4. EncoderType /\ LastType
    BY ResolutionType DEF EncoderType, LastType
  <2> QED
    BY <2>1, <2>2, <2>3, <2>4 DEF TypeOK, EncoderType, LastType
<1>2. Numbers(rxQueue) = {} /\ Numbers(fifo) = {} /\ Held = {} /\ Underway = {}
  BY DEF Numbers, Held, Underway
<1>3. Ordered
  BY <1>2 DEF Ordered, Increasing
<1>4. Accounted
  BY <1>2 DEF Accounted
<1>5. MailboxReady
  BY DEF MailboxReady
<1>6. EncoderRight
  BY DEF EncoderRight
<1> QED
  BY <1>1, <1>3, <1>4, <1>5, <1>6 DEF Inv, PipelineInv

LEMMA NextInv == Inv /\ [Next]_vars => Inv'
<1> SUFFICES ASSUME Inv, [Next]_vars PROVE Inv'
  OBVIOUS
<1>0. PipelineInv /\ EncoderRight /\ TypeOK
  BY DEF Inv, PipelineInv
<1>1. ASSUME UNCHANGED <<encoder, last>> PROVE EncoderRight'
  BY <1>0, <1>1 DEF EncoderRight, Unwrapped
<1>2. ASSUME NEW m \in Motor, MotorSends(m) PROVE Inv'
  <2>1. PICK turn \in Sweep : /\ shaft' = [shaft EXCEPT ![m] = shaft[m] + turn]
                              /\ Receive(m, shaft'[m])
    BY <1>2 DEF MotorSends
  <2>2. shaft' \in [Motor -> Int]
    BY <1>0, <2>1, StartType DEF TypeOK
  <2>3. PipelineInv'
    BY <1>0, <2>1, <2>2, ReceiveKeeps
  <2>4. EncoderRight'
    BY <1>1, <2>1 DEF Receive
  <2> QED
    BY <2>3, <2>4 DEF Inv
<1>3. ASSUME NEW s \in Stranger, StrangerSends(s) PROVE Inv'
  <2>1. Receive(s, 0) /\ shaft' \in [Motor -> Int]
    BY <1>0, <1>3 DEF StrangerSends, TypeOK
  <2>2. PipelineInv'
    BY <1>0, <2>1, ReceiveKeeps
  <2>3. EncoderRight'
    BY <1>1, <2>1 DEF Receive
  <2> QED
    BY <2>2, <2>3 DEF Inv
<1>4. CASE Handler
  <2>1. PipelineInv'
    BY <1>0, <1>4, EnterHandlerKeeps, ReadMailboxKeeps, ReleaseKeeps, PushKeeps DEF Handler
  <2>2. EncoderRight'
    BY <1>1, <1>4 DEF Handler, EnterHandler, ReadMailbox, Release, Push
  <2> QED
    BY <2>1, <2>2 DEF Inv
<1>5. CASE PollCanData
  <2>1. PipelineInv'
    BY <1>0, <1>5, PollCanDataKeeps
  <2>2. CASE Head(rxQueue).from \in Motor
    <3>1. Head(rxQueue).position \in Int /\ Parse(Head(rxQueue).from, Head(rxQueue).position)
      <4>1. rxQueue \in Seq(Message) /\ rxQueue # <<>>
        BY <1>0, <1>5 DEF TypeOK, PollCanData
      <4>2. Head(rxQueue) \in Message
        BY <4>1, Beheaded
      <4> QED
        BY <1>5, <2>2, <4>2 DEF PollCanData, Message
    <3> QED
      BY <1>0, <2>1, <2>2, <3>1, ParseFollows DEF Inv
  <2>3. CASE Head(rxQueue).from \notin Motor
    BY <1>1, <1>5, <2>1, <2>3 DEF Inv, PollCanData
  <2> QED
    BY <2>2, <2>3
<1>6. CASE UNCHANGED vars
  <2>1. TypeOK'
    BY <1>0, <1>6 DEF vars, TypeOK
  <2>2. Ordered' /\ Accounted' /\ MailboxReady'
    BY <1>0, <1>6 DEF vars, PipelineInv, Ordered, Accounted, MailboxReady, Underway, Held,
       Numbers, Increasing
  <2>3. EncoderRight'
    BY <1>1, <1>6 DEF vars
  <2> QED
    BY <2>1, <2>2, <2>3 DEF Inv, PipelineInv
<1> QED
  BY <1>2, <1>3, <1>4, <1>5, <1>6 DEF Next, Bus

\* Every variable stays in its range.
THEOREM TypeCorrect == Spec => []TypeOK
<1>1. Inv => TypeOK
  BY DEF Inv, PipelineInv
<1> QED
  BY <1>1, InitInv, NextInv, PTL DEF Spec

\* pollCanData() hands every message out at most once and in the order of
\* arrival; what is missing was dropped.
THEOREM DeliveredOnce == Spec => []OnceAndInOrder
<1>1. Inv => OnceAndInOrder
  <2> SUFFICES ASSUME Inv PROVE OnceAndInOrder
    OBVIOUS
  <2>0. TypeOK /\ Ordered /\ Accounted
    BY DEF Inv, PipelineInv
  <2> DEFINE held == IF isr = "push" THEN <<rxMessage>> ELSE <<>>
             front == rxQueue \o held
  <2>1. /\ rxQueue \in Seq(Message) /\ fifo \in Seq(Message)
        /\ held \in Seq(Message) /\ Increasing(held) /\ Numbers(held) = Held
    <3>1. rxQueue \in Seq(Message) /\ fifo \in Seq(Message)
      BY <2>0 DEF TypeOK
    <3>2. CASE isr = "push"
      <4>1. rxMessage \in Message
        BY <2>0, <3>2 DEF TypeOK
      <4>2. held = <<rxMessage>> /\ held \in Seq(Message) /\ Len(held) = 1 /\ held[1] = rxMessage
        BY <3>2, <4>1
      <4>3. Numbers(held) = {rxMessage.number} /\ Increasing(held)
        BY <4>2 DEF Numbers, Increasing
      <4> QED
        BY <3>1, <3>2, <4>2, <4>3 DEF Held
    <3>3. CASE isr # "push"
      BY <3>1, <3>3 DEF Held, Numbers, Increasing
    <3> QED
      BY <3>2, <3>3
  <2> HIDE DEF held
  <2>2. /\ front \in Seq(Message) /\ Numbers(front) = Numbers(rxQueue) \cup Held
        /\ Increasing(front)
    BY <2>0, <2>1, Joined DEF Ordered
  <2> HIDE DEF front
  <2>3. /\ Pipeline = front \o fifo
        /\ Pipeline \in Seq(Message) /\ Numbers(Pipeline) = Underway /\ Increasing(Pipeline)
    <3>1. Pipeline = front \o fifo
      BY DEF Pipeline, front, held
    <3>2. \A m \in Numbers(front), n \in Numbers(fifo) : m < n
      BY <2>0, <2>2 DEF Ordered
    <3> QED
      BY <2>0, <2>1, <2>2, <3>1, <3>2, Joined DEF Ordered, Underway
  <2>4. ASSUME NEW k \in 1..Len(Pipeline) - 1
        PROVE  Pipeline[k].number < Pipeline[k + 1].number
    <3>1. Len(Pipeline) \in Nat
      BY <2>3
    <3>2. k \in 1..Len(Pipeline) /\ k + 1 \in 1..Len(Pipeline) /\ k < k + 1
      BY <3>1
    <3> QED
      BY <2>3, <3>2 DEF Increasing
  <2> QED
    BY <2>0, <2>3, <2>4 DEF OnceAndInOrder, Ordered, Accounted
<1> QED
  BY <1>1, InitInv, NextInv, PTL DEF Spec

\* The interrupt handler never reads an empty output mailbox.
THEOREM HandlerSafe == Spec => []HandlerFindsMessage
<1>1. Inv => HandlerFindsMessage
  BY DEF Inv, PipelineInv, MailboxReady, HandlerFindsMessage, FifoDepth
<1> QED
  BY <1>1, InitInv, NextInv, PTL DEF Spec

\* The unwrapped encoder of every motor follows its shaft.
THEOREM EncoderExact == Spec => []EncoderFollowsShaft
<1>1. Inv => EncoderFollowsShaft
  BY DEF Inv, EncoderRight, EncoderFollowsShaft
<1> QED
  BY <1>1, InitInv, NextInv, PTL DEF Spec
=============================================================================
