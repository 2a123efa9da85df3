---------------------------- MODULE CanTx_proofs ----------------------------
(***************************************************************************)
(* The transmit side of the CAN driver, for any capacity of the queue and  *)
(* any number of messages.  Bus, pending requests and queue form one line: *)
(* the controller and the handler move messages along it without changing  *)
(* it, so only the two steps of sendMessage() that enter a message into it *)
(* can disturb its order.                                                  *)
(***************************************************************************)
EXTENDS CanTx, SequenceTheorems, TLAPS

-----------------------------------------------------------------------------
(* Sequences and their items.                                              *)

LEMMA AppendItems ==
  ASSUME NEW S, NEW s \in Seq(S), NEW x \in S
  PROVE  /\ Append(s, x) \in Seq(S) /\ Len(Append(s, x)) = Len(s) + 1
         /\ Items(Append(s, x)) = Items(s) \cup {x}
<1> DEFINE t == Append(s, x)
<1>1. /\ t \in Seq(S) /\ Len(t) = Len(s) + 1
      /\ \A k \in 1..Len(s) : k \in 1..Len(t) /\ t[k] = s[k]
      /\ Len(s) + 1 \in 1..Len(t) /\ t[Len(s) + 1] = x
      /\ \A k \in 1..Len(t) : k \in 1..Len(s) \/ k = Len(s) + 1
  OBVIOUS
<1> HIDE DEF t
<1>2. Items(t) = Items(s) \cup {x}
  BY <1>1 DEF Items
<1> QED
  BY <1>1, <1>2 DEF t

LEMMA HeadItems ==
  ASSUME NEW S, NEW s \in Seq(S), s # <<>>
  PROVE  /\ Head(s) \in S /\ Tail(s) \in Seq(S) /\ Len(Tail(s)) = Len(s) - 1
         /\ \A k \in 1..Len(Tail(s)) : k + 1 \in 1..Len(s) /\ Tail(s)[k] = s[k + 1]
         /\ 1 \in 1..Len(s) /\ Head(s) = s[1]
         /\ Items(s) = {Head(s)} \cup Items(Tail(s))
<1> DEFINE t == Tail(s)
<1>1. /\ t \in Seq(S) /\ Len(t) = Len(s) - 1 /\ Head(s) \in S
      /\ 1 \in 1..Len(s) /\ s[1] = Head(s)
      /\ \A k \in 1..Len(t) : k + 1 \in 1..Len(s) /\ t[k] = s[k + 1]
      /\ \A k \in 1..Len(s) : k = 1 \/ (k - 1 \in 1..Len(t) /\ s[k] = t[k - 1])
  OBVIOUS
<1> HIDE DEF t
<1>2. Items(s) = {Head(s)} \cup Items(t)
  BY <1>1 DEF Items
<1> QED
  BY <1>1, <1>2 DEF t

LEMMA ConcatItems ==
  ASSUME NEW S, NEW s \in Seq(S), NEW t \in Seq(S)
  PROVE  s \o t \in Seq(S) /\ Items(s \o t) = Items(s) \cup Items(t)
<1> DEFINE u == s \o t
<1>1. /\ u \in Seq(S) /\ Len(u) = Len(s) + Len(t)
      /\ \A k \in 1..Len(s) : k \in 1..Len(u) /\ u[k] = s[k]
      /\ \A k \in 1..Len(t) : Len(s) + k \in 1..Len(u) /\ u[Len(s) + k] = t[k]
  OBVIOUS
<1>2. \A k \in 1..Len(u) :
        \/ k \in 1..Len(s)
        \/ k - Len(s) \in 1..Len(t) /\ u[k] = t[k - Len(s)]
  BY <1>1
<1> HIDE DEF u
<1>3. ASSUME NEW x \in Items(u) PROVE x \in Items(s) \cup Items(t)
  <2>1. PICK k \in 1..Len(u) : x = u[k]
    BY DEF Items
  <2>2. CASE k \in 1..Len(s)
    BY <1>1, <2>1, <2>2 DEF Items
  <2>3. CASE k - Len(s) \in 1..Len(t) /\ u[k] = t[k - Len(s)]
    BY <2>1, <2>3 DEF Items
  <2> QED
    BY <1>2, <2>2, <2>3
<1>4. ASSUME NEW x \in Items(s) PROVE x \in Items(u)
  BY <1>1 DEF Items
<1>5. ASSUME NEW x \in Items(t) PROVE x \in Items(u)
  <2>1. PICK k \in 1..Len(t) : x = t[k]
    BY DEF Items
  <2>2. Len(s) + k \in 1..Len(u) /\ x = u[Len(s) + k]
    BY <1>1, <2>1
  <2> QED
    BY <2>2 DEF Items
<1> QED
  BY <1>1, <1>3, <1>4, <1>5 DEF u

\* A message that moves from the head of t to the end of s keeps its place.
LEMMA MoveHead ==
  ASSUME NEW S, NEW s \in Seq(S), NEW t \in Seq(S), t # <<>>
  PROVE  Append(s, Head(t)) \o Tail(t) = s \o t
<1> DEFINE u == Append(s, Head(t)) \o Tail(t)
           v == s \o t
<1>1. /\ Head(t) \in S /\ Tail(t) \in Seq(S) /\ Len(Tail(t)) = Len(t) - 1
      /\ Append(s, Head(t)) \in Seq(S) /\ Len(Append(s, Head(t))) = Len(s) + 1
  BY HeadItems, AppendItems
<1>2. u \in Seq(S) /\ v \in Seq(S) /\ Len(u) = Len(s) + Len(t) /\ Len(v) = Len(s) + Len(t)
  BY <1>1
<1>3. ASSUME NEW k \in 1..Len(u) PROVE u[k] = v[k]
  <2>1. CASE k <= Len(s)
    BY <1>1, <1>2, <2>1
  <2>2. CASE k = Len(s) + 1
    BY <1>1, <1>2, <2>2
  <2>3. CASE k > Len(s) + 1
    BY <1>1, <1>2, <2>3
  <2> QED
    BY <1>2, <2>1, <2>2, <2>3
<1> HIDE DEF u, v
<1>4. u = v
  BY <1>2, <1>3, SeqEqual
<1> QED
  BY <1>4 DEF u, v

LEMMA ConcatAppend ==
  ASSUME NEW S, NEW s \in Seq(S), NEW t \in Seq(S), NEW x \in S
  PROVE  s \o Append(t, x) = Append(s \o t, x)
<1> DEFINE u == s \o Append(t, x)
           v == Append(s \o t, x)
<1>1. u \in Seq(S) /\ v \in Seq(S) /\ Len(u) = Len(s) + Len(t) + 1 /\ Len(v) = Len(u)
  OBVIOUS
<1>2. ASSUME NEW k \in 1..Len(u) PROVE u[k] = v[k]
  <2>1. CASE k <= Len(s)
    BY <1>1, <2>1
  <2>2. CASE k > Len(s) /\ k <= Len(s) + Len(t)
    BY <1>1, <2>2
  <2>3. CASE k = Len(s) + Len(t) + 1
    BY <1>1, <2>3
  <2> QED
    BY <1>1, <2>1, <2>2, <2>3
<1> HIDE DEF u, v
<1>3. u = v
  BY <1>1, <1>2, SeqEqual
<1> QED
  BY <1>3 DEF u, v

-----------------------------------------------------------------------------
(* The order of the line, where b are the messages known as buffered.      *)

\* Message x may leave before message y: it is older, or y was buffered while
\* x found a free mailbox.
Before(b, x, y) == x # y /\ (y < x => y \in b /\ x \notin b)

InOrder(b, s) == \A k, l \in 1..Len(s) : k < l => Before(b, s[k], s[l])

LEMMA InsertInOrder ==
  ASSUME NEW b, NEW s \in Seq(Message), NEW t \in Seq(Message), NEW x \in Message,
         InOrder(b, s \o t),
         \A y \in Items(s) : Before(b, y, x),
         \A y \in Items(t) : Before(b, x, y)
  PROVE  InOrder(b, Append(s, x) \o t)
<1> DEFINE u == s \o t
           v == Append(s, x) \o t
           n == Len(s)
<1>1. /\ n \in Nat /\ Len(u) = n + Len(t) /\ Len(v) = n + Len(t) + 1 /\ Len(t) \in Nat
      /\ \A k \in 1..n : v[k] = u[k] /\ v[k] = s[k]
      /\ v[n + 1] = x
      /\ \A k \in 1..Len(t) : v[n + 1 + k] = t[k] /\ u[n + k] = t[k]
  OBVIOUS
<1> HIDE DEF u, v, n
<1>2. ASSUME NEW k \in 1..Len(v)
      PROVE  \/ k \in 1..n
             \/ k = n + 1
             \/ k - 1 - n \in 1..Len(t) /\ v[k] = t[k - 1 - n] /\ v[k] = u[k - 1]
  <2>1. CASE k > n + 1
    <3>1. k - 1 - n \in 1..Len(t) /\ n + 1 + (k - 1 - n) = k /\ n + (k - 1 - n) = k - 1
      BY <1>1, <2>1
    <3>2. PICK i \in 1..Len(t) : i = k - 1 - n
      BY <3>1
    <3>3. v[n + 1 + i] = t[i] /\ u[n + i] = t[i]
      BY <1>1
    <3>4. v[k] = t[i] /\ u[k - 1] = t[i]
      BY <3>1, <3>2, <3>3
    <3> QED
      BY <3>2, <3>4, Zenon
  <2> QED
    BY <1>1, <2>1
<1>3. SUFFICES ASSUME NEW k \in 1..Len(v), NEW l \in 1..Len(v), k < l
               PROVE  Before(b, v[k], v[l])
  BY DEF InOrder, v
<1>4. \A i, j \in 1..Len(u) : i < j => Before(b, u[i], u[j])
  BY DEF InOrder, u
<1>5. CASE k \in 1..n /\ l \in 1..n
  BY <1>1, <1>3, <1>4, <1>5
<1>6. CASE k \in 1..n /\ l = n + 1
  <2>1. v[k] \in Items(s)
    BY <1>1, <1>6 DEF Items, n
  <2> QED
    BY <1>1, <1>6, <2>1
<1>7. CASE k \in 1..n /\ l - 1 - n \in 1..Len(t) /\ v[l] = u[l - 1]
  <2>1. k \in 1..Len(u) /\ l - 1 \in 1..Len(u) /\ k < l - 1
    BY <1>1, <1>7
  <2> QED
    BY <1>1, <1>4, <1>7, <2>1
<1>8. CASE k = n + 1 /\ l - 1 - n \in 1..Len(t) /\ v[l] = t[l - 1 - n]
  <2>1. v[l] \in Items(t)
    BY <1>8 DEF Items
  <2> QED
    BY <1>1, <1>8, <2>1
<1>9. CASE /\ k - 1 - n \in 1..Len(t) /\ v[k] = u[k - 1]
           /\ l - 1 - n \in 1..Len(t) /\ v[l] = u[l - 1]
  <2>1. k - 1 \in 1..Len(u) /\ l - 1 \in 1..Len(u) /\ k - 1 < l - 1
    BY <1>1, <1>3, <1>9
  <2> QED
    BY <1>4, <1>9, <2>1
<1> QED
  BY <1>1, <1>2, <1>3, <1>5, <1>6, <1>7, <1>8, <1>9

\* A message that is not in line may become known as buffered.
LEMMA BufferOther ==
  ASSUME NEW b, NEW s \in Seq(Message), NEW x, InOrder(b, s), x \notin Items(s)
  PROVE  InOrder(b \cup {x}, s)
<1>1. SUFFICES ASSUME NEW k \in 1..Len(s), NEW l \in 1..Len(s), k < l
               PROVE  Before(b \cup {x}, s[k], s[l])
  BY DEF InOrder
<1>2. s[k] # x /\ s[l] # x
  BY DEF Items
<1> QED
  BY <1>1, <1>2 DEF InOrder, Before

-----------------------------------------------------------------------------
(* The invariant.                                                          *)

\* The mailboxes that sendMessage() relies on, and its argument.
Reserved ==
  /\ completed \subseteq Free
  /\ pc = "select" => Free \ completed # {}
  /\ pc = "request" => mb \in Free \ completed
  /\ pc # "idle" => msg = sent

\* The queue's messages are known as buffered, the one in hand is not.
Buffered ==
  /\ Items(txQueue) \subseteq buffered
  /\ buffered \subseteq 1..sent
  /\ msg \notin buffered

LineInv == NothingLostOrDoubled /\ InOrder(buffered, Line)
Inv == TypeOK /\ LineInv /\ Reserved /\ Buffered

\* The part of TypeOK about the mailboxes.
Requested ==
  /\ mailbox \in [Mailbox -> Message \cup {Empty}]
  /\ requests \in Seq(Mailbox) /\ Items(requests) = Mailbox \ Free
  /\ \A k, l \in 1..Len(requests) : requests[k] = requests[l] => k = l

LEMMA LineType ==
  ASSUME TypeOK
  PROVE  /\ Pending \in Seq(Message) /\ Len(Pending) = Len(requests)
         /\ bus \in Seq(Message) /\ txQueue \in Seq(Message)
         /\ bus \o Pending \in Seq(Message) /\ Line \in Seq(Message)
         /\ Items(bus \o Pending) = Items(bus) \cup Items(Pending)
         /\ Items(Line) = Items(bus) \cup Items(Pending) \cup Items(txQueue)
<1>1. bus \in Seq(Message) /\ txQueue \in Seq(Message) /\ requests \in Seq(Mailbox)
  BY DEF TypeOK
<1>2. ASSUME NEW k \in 1..Len(requests) PROVE mailbox[requests[k]] \in Message
  <2>1. requests[k] \in Mailbox \ Free
    BY <1>1, <1>2 DEF TypeOK, Items
  <2> QED
    BY <2>1 DEF TypeOK, Free
<1>3. Len(requests) \in Nat
  BY <1>1
<1>4. Pending \in Seq(Message) /\ Len(Pending) = Len(requests)
  BY <1>2, <1>3 DEF Pending
<1>5. bus \o Pending \in Seq(Message) /\ Items(bus \o Pending) = Items(bus) \cup Items(Pending)
  BY <1>1, <1>4, ConcatItems
<1>6. Line \in Seq(Message) /\ Items(Line) = Items(bus \o Pending) \cup Items(txQueue)
  <2> DEFINE front == bus \o Pending
  <2>1. Line = front \o txQueue
    BY DEF Line
  <2> HIDE DEF front
  <2>2. /\ front \o txQueue \in Seq(Message)
        /\ Items(front \o txQueue) = Items(front) \cup Items(txQueue)
    <3>1. front \in Seq(Message)
      BY <1>5 DEF front
    <3> QED
      BY <1>1, <3>1, ConcatItems
  <2>3. front = bus \o Pending
    BY DEF front
  <2> QED
    BY <2>1, <2>2, <2>3
<1> QED
  BY <1>1, <1>4, <1>5, <1>6

\* sendMailbox() of a free mailbox appends the message to the requests.
LEMMA PutPending ==
  ASSUME TypeOK, NEW m \in Message, NEW i \in Free, Put(m, i)
  PROVE  Requested' /\ Free' = Free \ {i} /\ Pending' = Append(Pending, m)
<1>0. Requested /\ i \in Mailbox /\ m # Empty
  BY DEF TypeOK, Requested, Free, Message, Empty
<1>1. mailbox' = [mailbox EXCEPT ![i] = m] /\ requests' = Append(requests, i)
  BY DEF Put
<1>2. Free' = Free \ {i}
  BY <1>0, <1>1 DEF Free, Requested
<1>3. /\ requests' \in Seq(Mailbox) /\ Len(requests') = Len(requests) + 1
      /\ Items(requests') = Items(requests) \cup {i} /\ Items(requests)' = Items(requests')
  BY <1>0, <1>1, AppendItems DEF Requested, Items
<1>4. /\ Len(requests) \in Nat
      /\ \A k \in 1..Len(requests) : requests'[k] = requests[k] /\ requests[k] # i
      /\ requests'[Len(requests) + 1] = i
      /\ \A k \in 1..Len(requests') : k \in 1..Len(requests) \/ k = Len(requests) + 1
  <2>1. \A k \in 1..Len(requests) : requests[k] \in Items(requests)
    BY DEF Items
  <2> QED
    BY <1>0, <1>1, <1>3, <2>1 DEF Requested
<1>5. Requested'
  <2>1. \A k, l \in 1..Len(requests') : requests'[k] = requests'[l] => k = l
    BY <1>0, <1>4 DEF Requested
  <2>2. mailbox' \in [Mailbox -> Message \cup {Empty}]
    BY <1>0, <1>1 DEF Requested
  <2>3. Items(requests') = Mailbox \ Free'
    BY <1>0, <1>2, <1>3 DEF Requested, Free
  <2> QED
    BY <1>3, <2>1, <2>2, <2>3 DEF Requested
<1>6. Pending' = Append(Pending, m)
  <2>1. /\ Pending' = [k \in 1..Len(requests') |-> mailbox'[requests'[k]]]
        /\ Pending \in Seq(Message) /\ Len(Pending) = Len(requests)
    BY LineType DEF Pending
  <2>2. \A k \in 1..Len(requests) : mailbox'[requests'[k]] = Pending[k]
    BY <1>0, <1>1, <1>4 DEF Pending, Requested
  <2>3. mailbox'[requests'[Len(requests) + 1]] = m
    BY <1>0, <1>1, <1>4 DEF Requested
  <2>4. \A k \in 1..Len(requests') : mailbox'[requests'[k]] \in Message
    BY <1>4, <2>1, <2>2, <2>3
  <2>5. Pending' \in Seq(Message) /\ Len(Pending') = Len(requests) + 1
    BY <1>3, <1>4, <2>1, <2>4
  <2>6. /\ Append(Pending, m) \in Seq(Message) /\ Len(Append(Pending, m)) = Len(requests) + 1
        /\ \A k \in 1..Len(requests) : Append(Pending, m)[k] = Pending[k]
        /\ Append(Pending, m)[Len(requests) + 1] = m
    BY <2>1
  <2>7. \A k \in 1..Len(Pending') : Pending'[k] = Append(Pending, m)[k]
    BY <1>3, <1>4, <2>1, <2>2, <2>3, <2>5, <2>6
  <2> QED
    BY <2>5, <2>6, <2>7, SeqEqual
<1> QED
  BY <1>2, <1>5, <1>6

\* A transmission takes the first of the requests.
LEMMA TransmitPending ==
  ASSUME TypeOK, Transmit
  PROVE  /\ Requested' /\ Head(requests) \in Mailbox \ Free
         /\ Free' = Free \cup {Head(requests)}
         /\ Pending # <<>> /\ Head(Pending) = mailbox[Head(requests)]
         /\ Pending' = Tail(Pending)
<1> DEFINE i == Head(requests)
<1>0. Requested /\ requests # <<>>
  BY DEF TypeOK, Requested, Transmit
<1>1. /\ mailbox' = [mailbox EXCEPT ![i] = Empty] /\ requests' = Tail(requests)
  BY DEF Transmit
<1>2. /\ i \in Mailbox /\ requests' \in Seq(Mailbox) /\ Len(requests') = Len(requests) - 1
      /\ \A k \in 1..Len(requests') : k + 1 \in 1..Len(requests) /\ requests'[k] = requests[k + 1]
      /\ 1 \in 1..Len(requests) /\ i = requests[1]
      /\ Items(requests) = {i} \cup Items(requests')
  BY <1>0, <1>1, HeadItems DEF Requested
<1>3. i \in Mailbox \ Free
  BY <1>0, <1>2 DEF Requested
<1> HIDE DEF i
<1>4. Free' = Free \cup {i}
  BY <1>0, <1>1, <1>2 DEF Free, Requested
<1>5. \A k \in 1..Len(requests') : requests'[k] # i
  BY <1>0, <1>2 DEF Requested
<1>6. Requested'
  <2>1. Items(requests') = Mailbox \ Free'
    <3>1. i \notin Items(requests')
      BY <1>5 DEF Items
    <3> QED
      BY <1>0, <1>2, <1>3, <1>4, <3>1 DEF Requested
  <2>2. ASSUME NEW k \in 1..Len(requests'), NEW l \in 1..Len(requests'),
               requests'[k] = requests'[l]
        PROVE  k = l
    <3>1. k + 1 = l + 1
      BY <1>0, <1>2, <2>2 DEF Requested
    <3> QED
      BY <3>1
  <2>3. mailbox' \in [Mailbox -> Message \cup {Empty}]
    BY <1>0, <1>1 DEF Requested
  <2>4. Items(requests)' = Items(requests')
    BY DEF Items
  <2> QED
    BY <1>2, <2>1, <2>2, <2>3, <2>4 DEF Requested
<1>7. /\ Pending \in Seq(Message) /\ Len(Pending) = Len(requests) /\ Len(requests) \in Nat
      /\ Pending # <<>> /\ Head(Pending) = mailbox[i]
  <2>1. /\ Pending \in Seq(Message) /\ Len(Pending) = Len(requests) /\ Len(requests) \in Nat
    BY <1>0, LineType DEF Requested
  <2>2. Pending # <<>>
    BY <1>2, <2>1
  <2>3. Pending[1] = mailbox[i]
    BY <1>2 DEF Pending
  <2> QED
    BY <2>1, <2>2, <2>3, HeadItems
<1>8. Pending' = Tail(Pending)
  <2>1. /\ Tail(Pending) \in Seq(Message) /\ Len(Tail(Pending)) = Len(requests')
        /\ \A k \in 1..Len(requests') : Tail(Pending)[k] = Pending[k + 1]
    BY <1>2, <1>7, HeadItems
  <2>2. \A k \in 1..Len(requests') : Pending[k + 1] = mailbox[requests'[k]]
    BY <1>2 DEF Pending
  <2>3. \A k \in 1..Len(requests') : mailbox'[requests'[k]] = mailbox[requests'[k]]
    <3>1. \A k \in 1..Len(requests') : requests'[k] \in Mailbox
      BY <1>2
    <3> QED
      BY <1>0, <1>1, <1>5, <3>1 DEF Requested
  <2>4. Pending' = [k \in 1..Len(requests') |-> mailbox'[requests'[k]]]
    BY DEF Pending
  <2>5. \A k \in 1..Len(requests') : mailbox'[requests'[k]] = Tail(Pending)[k]
    BY <2>1, <2>2, <2>3
  <2>6. \A k \in 1..Len(requests') : mailbox'[requests'[k]] \in Message
    BY <2>1, <2>5
  <2>7. Pending' \in Seq(Message) /\ Len(Pending') = Len(requests')
    <3>1. Len(requests') \in Nat
      BY <1>2
    <3> QED
      BY <2>4, <2>6, <3>1
  <2> QED
    BY <2>1, <2>4, <2>5, <2>7, SeqEqual
<1> QED
  BY <1>3, <1>4, <1>6, <1>7, <1>8 DEF i

-----------------------------------------------------------------------------
(* The steps.                                                              *)

\* A line that stays as it is keeps its properties.
LEMMA SameLine ==
  ASSUME LineInv, Line' = Line, UNCHANGED <<sent, msg, refused, buffered>>
  PROVE  LineInv'
BY DEF LineInv, NothingLostOrDoubled, InOrder, Before, Items

\* What the steps that leave mailboxes, requests and bus alone have in common.
LEMMA SameMailboxes ==
  ASSUME UNCHANGED <<mailbox, requests, bus>>
  PROVE  Free' = Free /\ Pending' = Pending
BY DEF Free, Pending

LEMMA SendMessageKeeps ==
  ASSUME Inv, SendMessage
  PROVE  Inv'
<1>0. /\ TypeOK /\ LineInv /\ Reserved /\ Buffered
      /\ pc = "idle" /\ completed = {} /\ sent < MaxMessages
      /\ sent' = sent + 1 /\ msg' = sent + 1
      /\ pc' = IF Free = {} THEN "queue" ELSE "select"
      /\ UNCHANGED <<mailbox, requests, completed, txQueue, bus, mb, refused, buffered>>
  BY DEF Inv, SendMessage, Proceeds
<1>1. /\ msg = Empty /\ sent \in Nat /\ sent + 1 \in Message /\ sent + 1 # Empty
      /\ sent + 1 \in 0..MaxMessages /\ 1..(sent + 1) = (1..sent) \cup {sent + 1}
      /\ \A n \in 1..sent : n # sent + 1
  BY <1>0, BoundType DEF TypeOK, Message, Empty
<1>2. Free' = Free /\ Pending' = Pending /\ Line' = Line
  BY <1>0, SameMailboxes DEF Line
<1>3. TypeOK'
  BY <1>0, <1>1, <1>2 DEF TypeOK, Items
<1>4. LineInv'
  <2>1. /\ 1..sent = Items(Line) \cup refused /\ refused \cap Items(Line) = {}
        /\ \A k, l \in 1..Len(Line) : Line[k] = Line[l] => k = l
    BY <1>0, <1>1 DEF LineInv, NothingLostOrDoubled
  <2>2. NothingLostOrDoubled'
    BY <1>0, <1>1, <1>2, <2>1 DEF NothingLostOrDoubled, Items
  <2> QED
    BY <1>0, <1>2, <2>2 DEF LineInv, InOrder, Before
<1>5. Reserved'
  BY <1>0, <1>2 DEF Reserved
<1>6. Buffered'
  BY <1>0, <1>1 DEF Buffered, Items
<1> QED
  BY <1>3, <1>4, <1>5, <1>6 DEF Inv

\* The newest message, in the hands of sendMessage(), is younger than the line.
LEMMA InHand ==
  ASSUME Inv, pc # "idle"
  PROVE  /\ msg \in Message /\ msg = sent
         /\ 1..sent = Items(Line) \cup {msg} \cup refused
         /\ msg \notin Items(Line) \cup refused /\ refused \cap Items(Line) = {}
         /\ \A k, l \in 1..Len(Line) : Line[k] = Line[l] => k = l
         /\ \A y \in Items(Line) : y < msg /\ y # msg
<1>1. /\ msg \in Message /\ msg # Empty /\ msg = sent /\ sent \in Nat
  BY DEF Inv, TypeOK, Reserved
<1>2. /\ 1..sent = Items(Line) \cup {msg} \cup refused
      /\ msg \notin Items(Line) \cup refused /\ refused \cap Items(Line) = {}
      /\ \A k, l \in 1..Len(Line) : Line[k] = Line[l] => k = l
  BY <1>1 DEF Inv, LineInv, NothingLostOrDoubled
<1>3. ASSUME NEW y \in Items(Line) PROVE y < msg /\ y # msg
  <2>1. y \in 1..sent /\ y # sent
    BY <1>1, <1>2
  <2> QED
    BY <1>1, <2>1
<1> QED
  BY <1>1, <1>2, <1>3

\* Distinct items in order stay distinct when another one is inserted.
LEMMA OrderedAreDistinct ==
  ASSUME NEW b, NEW s \in Seq(Message), InOrder(b, s)
  PROVE  \A k, l \in 1..Len(s) : s[k] = s[l] => k = l
<1>1. SUFFICES ASSUME NEW k \in 1..Len(s), NEW l \in 1..Len(s), k < l PROVE s[k] # s[l]
  <2>1. Len(s) \in Nat
    OBVIOUS
  <2>2. \A k, l \in 1..Len(s) : k = l \/ k < l \/ l < k
    BY <2>1
  <2> QED
    BY <1>1, <2>2
<1> QED
  BY <1>1 DEF InOrder, Before

LEMMA QueueKeeps ==
  ASSUME Inv, Queue
  PROVE  Inv'
<1>0. /\ TypeOK /\ LineInv /\ Reserved /\ Buffered
      /\ pc = "queue" /\ pc' = "idle" /\ msg' = Empty
      /\ UNCHANGED <<mailbox, requests, completed, bus, mb, sent>>
  BY DEF Inv, Queue
<1>1. /\ msg \in Message /\ msg = sent
      /\ 1..sent = Items(Line) \cup {msg} \cup refused
      /\ msg \notin Items(Line) \cup refused /\ refused \cap Items(Line) = {}
      /\ \A k, l \in 1..Len(Line) : Line[k] = Line[l] => k = l
      /\ \A y \in Items(Line) : y < msg /\ y # msg
  BY <1>0, InHand
<1>2. /\ Free' = Free /\ Pending' = Pending
      /\ Line \in Seq(Message) /\ txQueue \in Seq(Message) /\ Len(txQueue) \in Nat
      /\ Len(txQueue) <= Capacity
      /\ bus \o Pending \in Seq(Message) /\ Empty \notin Message
  BY <1>0, SameMailboxes, LineType DEF TypeOK, Message, Empty
<1>3. Reserved'
  BY <1>0, <1>2 DEF Reserved
<1>4. CASE Len(txQueue) < Capacity
  <2>1. txQueue' = Append(txQueue, msg) /\ buffered' = buffered \cup {msg} /\ UNCHANGED refused
    BY <1>4 DEF Queue
  <2>2. /\ txQueue' \in Seq(Message) /\ Len(txQueue') = Len(txQueue) + 1
        /\ Items(txQueue') = Items(txQueue) \cup {msg}
    BY <1>1, <1>2, <2>1, AppendItems
  <2>3. Line' = Append(Line, msg)
    <3> DEFINE front == bus \o Pending
    <3>1. Line = front \o txQueue /\ Line' = front \o Append(txQueue, msg) /\ front \in Seq(Message)
      BY <1>0, <1>2, <2>1 DEF Line
    <3> HIDE DEF front
    <3> QED
      BY <1>1, <1>2, <3>1, ConcatAppend
  <2>4. TypeOK'
    <3>1. Len(txQueue') <= Capacity
      BY <1>2, <1>4, <2>2, CapacityType
    <3> QED
      BY <1>0, <1>1, <1>2, <2>1, <2>2, <3>1 DEF TypeOK, Items
  <2>5. InOrder(buffered', Line')
    <3>1. InOrder(buffered', Line)
      BY <1>0, <1>1, <1>2, <2>1, BufferOther DEF LineInv
    <3>2. Line = Line \o <<>> /\ Line' = Append(Line, msg) \o <<>> /\ <<>> \in Seq(Message)
      BY <1>1, <1>2, <2>3
    <3>3. /\ \A y \in Items(Line) : Before(buffered', y, msg)
          /\ \A y \in Items(<<>>) : Before(buffered', msg, y)
      <4>1. \A y \in Items(Line) : y \in Int /\ msg \in Int
        BY <1>1, BoundType DEF Message
      <4>2. Items(<<>>) = {}
        BY DEF Items
      <4>3. ASSUME NEW y \in Items(Line) PROVE Before(buffered', y, msg)
        BY <1>1, <4>1 DEF Before
      <4> QED
        BY <4>2, <4>3
    <3> QED
      BY <1>1, <1>2, <3>1, <3>2, <3>3, InsertInOrder
  <2>6. LineInv'
    <3>1. Line' \in Seq(Message) /\ Items(Line') = Items(Line) \cup {msg}
      BY <1>1, <1>2, <2>3, AppendItems
    <3>4. Items(Line)' = Items(Line')
      BY DEF Items
    <3>2. \A k, l \in 1..Len(Line') : Line'[k] = Line'[l] => k = l
      BY <2>5, <3>1, OrderedAreDistinct
    <3>3. InOrder(buffered, Line)' = InOrder(buffered', Line')
      BY DEF InOrder, Before
    <3> QED
      BY <1>0, <1>1, <1>2, <2>1, <2>5, <3>1, <3>2, <3>3, <3>4 DEF LineInv, NothingLostOrDoubled
  <2>7. Buffered'
    <3>1. Items(txQueue)' = Items(txQueue')
      BY DEF Items
    <3> QED
      BY <1>0, <1>1, <1>2, <2>1, <2>2, <3>1 DEF Buffered, Message, Empty
  <2> QED
    BY <1>3, <2>4, <2>6, <2>7 DEF Inv
<1>5. CASE ~(Len(txQueue) < Capacity)
  <2>1. refused' = refused \cup {msg} /\ UNCHANGED <<txQueue, buffered>>
    BY <1>5 DEF Queue
  <2>2. Line' = Line
    BY <1>0, <1>2, <2>1 DEF Line
  <2>3. TypeOK'
    BY <1>0, <1>1, <1>2, <2>1 DEF TypeOK, Items
  <2>4. LineInv'
    <3>1. NothingLostOrDoubled'
      BY <1>0, <1>1, <1>2, <2>1, <2>2 DEF NothingLostOrDoubled, Items
    <3> QED
      BY <1>0, <2>1, <2>2, <3>1 DEF LineInv, InOrder, Before
  <2>5. Buffered'
    <3>1. Empty \notin buffered
      BY <1>0 DEF Buffered, Empty
    <3> QED
      BY <1>0, <2>1, <3>1 DEF Buffered, Items
  <2> QED
    BY <1>3, <2>3, <2>4, <2>5 DEF Inv
<1> QED
  BY <1>4, <1>5

LEMMA SelectKeeps ==
  ASSUME Inv, Select
  PROVE  Inv'
<1>0. /\ TypeOK /\ LineInv /\ Reserved /\ Buffered
      /\ pc = "select" /\ pc' = "request" /\ completed = {}
      /\ mb' \in IF Free # {} THEN Free ELSE Mailbox
      /\ UNCHANGED <<mailbox, requests, completed, txQueue, bus, msg, sent, refused, buffered>>
  BY DEF Inv, Select, Proceeds
<1>1. Free' = Free /\ Pending' = Pending /\ Line' = Line
  BY <1>0, SameMailboxes DEF Line
<1>2. mb' \in Free /\ mb' \in Mailbox
  BY <1>0 DEF Reserved, Free
<1>3. TypeOK'
  BY <1>0, <1>1, <1>2 DEF TypeOK, Items
<1>4. LineInv'
  BY <1>0, <1>1, SameLine
<1>5. Reserved'
  BY <1>0, <1>1, <1>2 DEF Reserved
<1>6. Buffered'
  BY <1>0 DEF Buffered, Items
<1> QED
  BY <1>3, <1>4, <1>5, <1>6 DEF Inv

LEMMA RequestKeeps ==
  ASSUME Inv, Request
  PROVE  Inv'
<1>0. /\ TypeOK /\ LineInv /\ Reserved /\ Buffered
      /\ pc = "request" /\ pc' = "idle" /\ msg' = Empty /\ mb' = 0 /\ completed = {}
      /\ mb \in Free /\ Put(msg, mb) /\ completed' = completed \ {mb}
      /\ UNCHANGED <<txQueue, bus, sent, refused, buffered>>
  BY DEF Inv, Request, Reserved, Proceeds
<1>1. /\ msg \in Message /\ msg = sent
      /\ 1..sent = Items(Line) \cup {msg} \cup refused
      /\ msg \notin Items(Line) \cup refused /\ refused \cap Items(Line) = {}
      /\ \A y \in Items(Line) : y < msg /\ y # msg
  BY <1>0, InHand
<1>2. /\ Pending \in Seq(Message) /\ bus \in Seq(Message) /\ txQueue \in Seq(Message)
      /\ bus \o Pending \in Seq(Message)
      /\ Items(Line) = Items(bus \o Pending) \cup Items(txQueue)
  BY <1>0, LineType
<1>3. Requested' /\ Pending' = Append(Pending, msg) /\ Free' = Free \ {mb}
  BY <1>0, <1>1, PutPending
<1>4. TypeOK'
  <2>1. mb' \in Mailbox /\ msg' \in Message \cup {Empty} /\ completed' \in SUBSET Mailbox
    BY <1>0 DEF Mailbox
  <2> QED
    BY <1>0, <1>3, <2>1 DEF TypeOK, Requested
<1> DEFINE front == bus \o Pending
<1>5. /\ Line = front \o txQueue /\ Line' = Append(front, msg) \o txQueue
      /\ front \in Seq(Message)
  BY <1>0, <1>1, <1>2, <1>3, ConcatAppend DEF Line
<1>6. Items(Line) = Items(front) \cup Items(txQueue)
  BY <1>2
<1> HIDE DEF front
<1>7. InOrder(buffered, Line')
  <2>1. \A y \in Items(front) : Before(buffered, y, msg)
    <3>1. \A y \in Items(front) : y \in Int /\ msg \in Int
      BY <1>1, <1>6, BoundType DEF Message
    <3> QED
      BY <1>1, <1>6, <3>1 DEF Before
  <2>2. \A y \in Items(txQueue) : Before(buffered, msg, y)
    BY <1>0, <1>1, <1>6 DEF Before, Buffered
  <2> QED
    BY <1>0, <1>1, <1>2, <1>5, <2>1, <2>2, InsertInOrder DEF LineInv
<1>8. LineInv'
  <2>1. /\ Append(front, msg) \in Seq(Message)
        /\ Items(Append(front, msg)) = Items(front) \cup {msg}
    BY <1>1, <1>5, AppendItems
  <2>2. Line' \in Seq(Message) /\ Items(Line') = Items(Line) \cup {msg}
    <3>1. Line' \in Seq(Message) /\ Items(Line') = Items(Append(front, msg)) \cup Items(txQueue)
      <4> DEFINE u == Append(front, msg)
      <4>1. Line' = u \o txQueue /\ u \in Seq(Message)
        BY <1>5, <2>1
      <4> HIDE DEF u
      <4>2. Line' \in Seq(Message) /\ Items(Line') = Items(u) \cup Items(txQueue)
        BY <1>2, <4>1, ConcatItems
      <4> QED
        BY <4>2 DEF u
    <3> QED
      BY <1>6, <2>1, <3>1
  <2>3. \A k, l \in 1..Len(Line') : Line'[k] = Line'[l] => k = l
    BY <1>7, <2>2, OrderedAreDistinct
  <2>4. InOrder(buffered, Line)' = InOrder(buffered, Line') /\ Items(Line)' = Items(Line')
    BY <1>0 DEF InOrder, Before, Items
  <2> QED
    BY <1>0, <1>1, <1>7, <2>2, <2>3, <2>4 DEF LineInv, NothingLostOrDoubled
<1>9. Reserved'
  BY <1>0, <1>3 DEF Reserved
<1>10. Buffered'
  <2>1. Empty \notin buffered
    BY <1>0 DEF Buffered, Empty
  <2> QED
    BY <1>0, <2>1 DEF Buffered, Items
<1> QED
  BY <1>4, <1>8, <1>9, <1>10 DEF Inv

LEMMA TransmitKeeps ==
  ASSUME Inv, Transmit
  PROVE  Inv'
<1> DEFINE i == Head(requests)
<1>0. /\ TypeOK /\ LineInv /\ Reserved /\ Buffered
      /\ bus' = Append(bus, mailbox[i]) /\ completed' = completed \cup {i}
      /\ UNCHANGED <<txQueue, pc, msg, mb, sent, refused, buffered>>
  BY DEF Inv, Transmit
<1>1. /\ Requested' /\ i \in Mailbox \ Free /\ Free' = Free \cup {i}
      /\ Pending # <<>> /\ Head(Pending) = mailbox[i] /\ Pending' = Tail(Pending)
  BY <1>0, TransmitPending DEF Inv
<1>2. /\ Pending \in Seq(Message) /\ bus \in Seq(Message) /\ txQueue \in Seq(Message)
  BY <1>0, LineType
<1>3. mailbox[i] \in Message
  BY <1>1, <1>2, HeadItems
<1> HIDE DEF i
<1>4. Line' = Line
  <2>1. Append(bus, Head(Pending)) \o Tail(Pending) = bus \o Pending
    BY <1>1, <1>2, MoveHead
  <2> QED
    BY <1>0, <1>1, <2>1 DEF Line
<1>5. TypeOK'
  <2>1. bus' \in Seq(Message)
    BY <1>0, <1>2, <1>3, AppendItems
  <2>2. completed' \in SUBSET Mailbox
    BY <1>0, <1>1 DEF TypeOK
  <2> QED
    BY <1>0, <1>1, <2>1, <2>2 DEF TypeOK, Requested, Items
<1>6. LineInv'
  BY <1>0, <1>4, SameLine
<1>7. Reserved'
  BY <1>0, <1>1 DEF Reserved
<1>8. Buffered'
  BY <1>0 DEF Buffered, Items
<1> QED
  BY <1>5, <1>6, <1>7, <1>8 DEF Inv

LEMMA CompletedType ==
  ASSUME completed \in SUBSET Mailbox, completed # {}
  PROVE  Completed \in completed
<1>1. \E i \in completed : \A j \in completed : j <= i
  <2>1. \A j \in completed : j = 0 \/ j = 1 \/ j = 2
    BY DEF Mailbox
  <2>2. CASE 2 \in completed
    BY <2>1, <2>2
  <2>3. CASE 2 \notin completed /\ 1 \in completed
    BY <2>1, <2>3
  <2>4. CASE 2 \notin completed /\ 1 \notin completed
    BY <2>1, <2>4
  <2> QED
    BY <2>2, <2>3, <2>4
<1> QED
  BY <1>1 DEF Completed

LEMMA TxInterruptKeeps ==
  ASSUME Inv, TxInterrupt
  PROVE  Inv'
<1> DEFINE i == Completed
<1>0. /\ TypeOK /\ LineInv /\ Reserved /\ Buffered
      /\ completed # {} /\ completed' = completed \ {i}
      /\ UNCHANGED <<bus, pc, msg, mb, sent, refused, buffered>>
  BY DEF Inv, TxInterrupt
<1>1. i \in completed /\ i \in Free
  BY <1>0, CompletedType DEF TypeOK, Reserved
<1> HIDE DEF i
<1>2. CASE txQueue # <<>>
  <2>1. /\ Put(Head(txQueue), i) /\ txQueue' = Tail(txQueue)
    BY <1>2 DEF TxInterrupt, i
  <2>2. /\ txQueue \in Seq(Message) /\ Len(txQueue) <= Capacity /\ Len(txQueue) \in Nat
        /\ bus \o Pending \in Seq(Message) /\ Pending \in Seq(Message) /\ bus \in Seq(Message)
    BY <1>0, LineType DEF TypeOK
  <2>3. /\ Head(txQueue) \in Message /\ txQueue' \in Seq(Message)
        /\ Len(txQueue') = Len(txQueue) - 1
        /\ Items(txQueue') \subseteq Items(txQueue)
    BY <1>2, <2>1, <2>2, HeadItems
  <2>4. Requested' /\ Pending' = Append(Pending, Head(txQueue)) /\ Free' = Free \ {i}
    BY <1>0, <1>1, <2>1, <2>3, PutPending
  <2>5. Line' = Line
    <3> DEFINE front == bus \o Pending
    <3>1. /\ Line = front \o txQueue /\ front \in Seq(Message)
          /\ Line' = (bus \o Append(Pending, Head(txQueue))) \o Tail(txQueue)
      BY <1>0, <2>1, <2>2, <2>4 DEF Line
    <3>2. bus \o Append(Pending, Head(txQueue)) = Append(front, Head(txQueue))
      BY <2>2, <2>3, ConcatAppend
    <3> HIDE DEF front
    <3> QED
      BY <1>2, <2>2, <3>1, <3>2, MoveHead
  <2>6. TypeOK'
    <3>1. Len(txQueue') <= Capacity
      BY <2>2, <2>3, CapacityType
    <3> QED
      BY <1>0, <2>3, <2>4, <3>1 DEF TypeOK, Requested
  <2>7. LineInv'
    BY <1>0, <2>5, SameLine
  <2>8. Reserved'
    BY <1>0, <1>1, <2>4 DEF Reserved
  <2>9. Buffered'
    <3>1. Items(txQueue)' = Items(txQueue')
      BY DEF Items
    <3> QED
      BY <1>0, <2>3, <3>1 DEF Buffered
  <2> QED
    BY <2>6, <2>7, <2>8, <2>9 DEF Inv
<1>3. CASE txQueue = <<>>
  <2>1. UNCHANGED <<mailbox, requests, txQueue>>
    BY <1>3 DEF TxInterrupt
  <2>2. Free' = Free /\ Pending' = Pending /\ Line' = Line
    BY <1>0, <2>1, SameMailboxes DEF Line
  <2>3. TypeOK'
    BY <1>0, <2>1, <2>2 DEF TypeOK, Items
  <2>4. LineInv'
    BY <1>0, <2>2, SameLine
  <2>5. Reserved'
    BY <1>0, <2>2 DEF Reserved
  <2>6. Buffered'
    BY <1>0, <2>1 DEF Buffered, Items
  <2> QED
    BY <2>3, <2>4, <2>5, <2>6 DEF Inv
<1> QED
  BY <1>2, <1>3

-----------------------------------------------------------------------------
(* The theorems.                                                           *)

LEMMA InitInv == Init => Inv
<1> SUFFICES ASSUME Init PROVE Inv
  OBVIOUS
<1> USE DEF Init
<1>1. Free = Mailbox
  BY DEF Free
<1>2. TypeOK
  BY <1>1, BoundType, CapacityType DEF TypeOK, Items, Mailbox
<1>3. Line \in Seq(Message) /\ Len(Line) = 0
  <2>1. Pending = <<>>
    BY DEF Pending
  <2> QED
    BY <2>1 DEF Line
<1>4. LineInv
  BY <1>3 DEF LineInv, NothingLostOrDoubled, InOrder, Items
<1>5. Reserved /\ Buffered
  BY <1>1 DEF Reserved, Buffered, Items
<1> QED
  BY <1>2, <1>4, <1>5 DEF Inv

LEMMA NextInv == Inv /\ [Next]_vars => Inv'
<1> SUFFICES ASSUME Inv, [Next]_vars PROVE Inv'
  OBVIOUS
<1>1. CASE UNCHANGED vars
  <2>1. Free' = Free /\ Pending' = Pending /\ Line' = Line
    BY <1>1, SameMailboxes DEF vars, Line
  <2>2. LineInv'
    BY <1>1, <2>1, SameLine DEF Inv, vars
  <2>3. TypeOK' /\ Reserved' /\ Buffered'
    BY <1>1, <2>1 DEF Inv, vars, TypeOK, Reserved, Buffered, Items
  <2> QED
    BY <2>2, <2>3 DEF Inv
<1> QED
  BY <1>1, SendMessageKeeps, QueueKeeps, SelectKeeps, RequestKeeps, TransmitKeeps,
     TxInterruptKeeps DEF Next, Main

\* Every variable stays in its range, and the requests are those of the
\* occupied mailboxes.
THEOREM TypeCorrect == Spec => []TypeOK
<1>1. Inv => TypeOK
  BY DEF Inv
<1> QED
  BY <1>1, InitInv, NextInv, PTL DEF Spec

\* Every accepted message is in the driver's hands or on the bus exactly once.
THEOREM Conservation == Spec => []NothingLostOrDoubled
<1>1. Inv => NothingLostOrDoubled
  BY DEF Inv, LineInv
<1> QED
  BY <1>1, InitInv, NextInv, PTL DEF Spec

\* Messages overtake each other only if they took different ways.
THEOREM RouteOrder == Spec => []InOrderPerRoute
<1>1. Inv => InOrderPerRoute
  <2> SUFFICES ASSUME Inv, NEW k \in 1..Len(bus), NEW l \in 1..Len(bus),
                      k < l, bus[l] < bus[k]
               PROVE  bus[l] \in buffered /\ bus[k] \notin buffered
    BY DEF InOrderPerRoute
  <2> DEFINE out == bus \o Pending
  <2>1. /\ bus \in Seq(Message) /\ out \in Seq(Message) /\ txQueue \in Seq(Message)
        /\ Line = out \o txQueue
    BY LineType DEF Inv, Line
  <2>2. /\ k \in 1..Len(out) /\ l \in 1..Len(out) /\ out[k] = bus[k] /\ out[l] = bus[l]
    BY LineType DEF Inv
  <2> HIDE DEF out
  <2>3. /\ k \in 1..Len(Line) /\ l \in 1..Len(Line) /\ Line[k] = bus[k] /\ Line[l] = bus[l]
    BY <2>1, <2>2
  <2> QED
    BY <2>3 DEF Inv, LineInv, InOrder, Before
<1> QED
  BY <1>1, InitInv, NextInv, PTL DEF Spec

\* No interrupt takes the mailbox that sendMessage() has chosen.
THEOREM MailboxReserved == Spec => []MailboxStaysEmpty
<1>1. Inv => MailboxStaysEmpty
  BY DEF Inv, Reserved, MailboxStaysEmpty
<1> QED
  BY <1>1, InitInv, NextInv, PTL DEF Spec
=============================================================================
