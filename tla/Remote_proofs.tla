---------------------------- MODULE Remote_proofs ----------------------------
(***************************************************************************)
(* Proofs about the reception of the remote control, for packets of any    *)
(* length and any timeouts of which the pause between packets exceeds the  *)
(* read timeout by the five ticks by which read() can be late, and not the *)
(* disconnect timeout.                                                     *)
(***************************************************************************)
EXTENDS Remote, SequenceTheorems, TLAPS

\* 6 + 5 <= 12 <= 100 in the robot.
PauseSeparates ==
  /\ ReadTimeout + 5 <= Gap
  /\ Gap <= DisconnectTimeout

-----------------------------------------------------------------------------
(* The inductive invariant.                                                *)

\* n ticks, and one more until the read() that is due has returned.
Due(n) == IF done THEN n ELSE n + 1

\* Positions rise from one byte to the next.
Rising(s) == \A i, j \in DOMAIN s : i < j => s[i][2] + (j - i) <= s[j][2]

\* A byte of packet p, when n is the position of the next one.
Sent(b, p, n) == b[1] = p /\ (n = 1 \/ b[2] < n)

\* What waits in the two buffers is some of packet p, in its order.
Some(rx, u, p, n) ==
  /\ \A i \in DOMAIN rx : Sent(rx[i], p, n)
  /\ \A i \in DOMAIN u : Sent(u[i], p, n)
  /\ Rising(rx) /\ Rising(u)
  /\ \A i \in DOMAIN rx : \A j \in DOMAIN u : rx[i][2] + (Len(rx) - i) < u[j][2]
  /\ \A i \in DOMAIN rx : rx[i][2] >= i

OnePacket == Some(rxBuffer, uart, packet, next)

\* A byte waits in the UART for the end of one read() and for the next.
UartPrompt ==
  uart # <<>> => silence <= Due(IF pc \in {"timeout", "parse"} THEN 0 ELSE 1)

\* An incomplete packet outlives the read timeout by one read() and a half.
BufferPrompt ==
  rxBuffer # <<>> =>
    age <= Due(IF pc = "parse" THEN ReadTimeout ELSE ReadTimeout + 1)

\* lastRead is at most two ticks older than the byte.
Stamped ==
  (connected \/ rxBuffer # <<>>) /\ age <= DisconnectTimeout => silence <= age + 2

\* The disconnect timeout is noticed by the next read().
DisconnectPrompt ==
  /\ connected => silence <= Due(DisconnectTimeout + IF pc = "idle" THEN 3 ELSE 2)
  /\ ~connected => remote = <<>>

\* What parseBuffer() takes for a packet is one: all the bytes of a single
\* packet, in order, whatever was lost on the line, discarded by
\* clearRxBuffer() or missed because reception began in mid packet.
FramesWhole ==
  remote # <<>> => \E p \in {0, 1} : remote = [k \in 1..Length |-> <<p, k>>]

Inv ==
  /\ TypeOK
  /\ OnePacket
  /\ UartPrompt
  /\ BufferPrompt
  /\ Stamped
  /\ DisconnectPrompt
  /\ FramesWhole

-----------------------------------------------------------------------------
(* The bytes in the buffers.                                               *)

LEMMA Constants ==
  /\ Length \in Nat /\ Length >= 1
  /\ ReadTimeout \in Nat /\ DisconnectTimeout \in Nat /\ Gap \in Nat
BY LengthType, TimesType

LEMMA ByteParts ==
  /\ \A b \in Bytes : b[1] \in {0, 1} /\ b[2] \in 1..Length /\ b = <<b[1], b[2]>>
  /\ \A p \in {0, 1}, n \in 1..Length :
       <<p, n>> \in Bytes /\ <<p, n>>[1] = p /\ <<p, n>>[2] = n
BY DEF Bytes

\* What Append and Tail do, in terms of places.
LEMMA Appended ==
  ASSUME NEW s \in Seq(Bytes), NEW b \in Bytes
  PROVE  /\ Append(s, b) \in Seq(Bytes) /\ Len(Append(s, b)) = Len(s) + 1
         /\ Len(s) \in Nat /\ Append(s, b)[Len(s) + 1] = b
         /\ \A i \in 1..Len(s) : Append(s, b)[i] = s[i]
OBVIOUS

LEMMA Beheaded ==
  ASSUME NEW s \in Seq(Bytes), s # <<>>
  PROVE  /\ Head(s) \in Bytes /\ Head(s) = s[1] /\ Len(s) \in Nat /\ Len(s) >= 1
         /\ Tail(s) \in Seq(Bytes) /\ Len(Tail(s)) = Len(s) - 1
         /\ \A i \in 1..(Len(s) - 1) : Tail(s)[i] = s[i + 1]
OBVIOUS

\* Empty buffers hold some of every packet.
LEMMA SomeOfNone ==
  ASSUME NEW p, NEW n
  PROVE  Some(<<>>, <<>>, p, n)
BY DEF Some, Rising

\* A packet is longer than what is left of it.
LEMMA SomeFits ==
  ASSUME NEW rx \in Seq(Bytes), NEW u \in Seq(Bytes), NEW p, NEW n, Some(rx, u, p, n)
  PROVE  /\ Len(rx) <= Length /\ Len(u) <= Length
         /\ u # <<>> => Len(rx) < Length
<1> DEFINE l == Len(rx)
           m == Len(u)
<1>1. /\ l \in Nat /\ m \in Nat /\ DOMAIN rx = 1..l /\ DOMAIN u = 1..m
      /\ \A i \in 1..l : rx[i] \in Bytes
      /\ \A i \in 1..m : u[i] \in Bytes
      /\ u # <<>> => m >= 1
  OBVIOUS
<1>2. /\ \A i \in 1..l : rx[i][2] \in 1..Length
      /\ \A i \in 1..m : u[i][2] \in 1..Length
  BY <1>1, ByteParts
<1> HIDE DEF l, m
<1>3. l <= Length
  <2>1. CASE l >= 1
    <3>1. l \in 1..l /\ rx[l][2] >= l
      BY <1>1, <2>1 DEF Some
    <3> QED
      BY <1>1, <1>2, <3>1, Constants
  <2> QED
    BY <1>1, <2>1, Constants
<1>4. m <= Length
  <2>1. CASE m >= 2
    <3>1. /\ 1 \in 1..m /\ m \in 1..m /\ 1 < m
      BY <1>1, <2>1
    <3>2. u[1][2] + (m - 1) <= u[m][2]
      BY <1>1, <3>1 DEF Some, Rising
    <3> QED
      BY <1>1, <1>2, <3>1, <3>2, Constants
  <2> QED
    BY <1>1, <2>1, Constants
<1>5. ASSUME u # <<>>, l >= 1
      PROVE  l < Length
  <2>1. 1 \in 1..m /\ l \in 1..l
    BY <1>1, <1>5
  <2>2. rx[l][2] >= l /\ rx[l][2] + (l - l) < u[1][2]
    BY <1>1, <2>1 DEF Some, l
  <2> QED
    BY <1>1, <1>2, <2>1, <2>2, Constants
<1> QED
  BY <1>1, <1>3, <1>4, <1>5, Constants DEF l, m

\* read() moves a byte from the UART to its own buffer.
LEMMA SomeMoved ==
  ASSUME NEW rx \in Seq(Bytes), NEW u \in Seq(Bytes), NEW p, NEW n,
         u # <<>>, Some(rx, u, p, n)
  PROVE  Some(Append(rx, Head(u)), Tail(u), p, n)
<1> DEFINE h == Head(u)
           t == Append(rx, h)
           v == Tail(u)
           l == Len(rx)
           m == Len(u)
<1>1. /\ h \in Bytes /\ h = u[1] /\ m \in Nat /\ m >= 1
      /\ v \in Seq(Bytes) /\ Len(v) = m - 1 /\ \A i \in 1..(m - 1) : v[i] = u[i + 1]
  BY Beheaded
<1>2. /\ t \in Seq(Bytes) /\ Len(t) = l + 1 /\ l \in Nat /\ t[l + 1] = h
      /\ \A i \in 1..l : t[i] = rx[i]
  BY <1>1, Appended
<1>3. /\ DOMAIN rx = 1..l /\ DOMAIN u = 1..m
      /\ \A i \in 1..l : rx[i] \in Bytes
      /\ \A i \in 1..m : u[i] \in Bytes
  OBVIOUS
<1>4. DOMAIN t = 1..(l + 1) /\ DOMAIN v = 1..(m - 1)
  BY <1>1, <1>2
<1>5. /\ \A i \in 1..l : rx[i][2] \in Int
      /\ \A i \in 1..m : u[i][2] \in Int /\ u[i][2] >= 1
  BY <1>3, ByteParts, Constants
<1>6. 1 \in 1..m /\ \A i \in 1..(m - 1) : i + 1 \in 1..m
  BY <1>1
<1> HIDE DEF h, t, v, l, m
<1>h. h[2] = u[1][2] /\ u[1][2] \in Int /\ u[1][2] >= 1
  BY <1>1, <1>5, <1>6
<1>7. /\ \A i \in 1..l : Sent(rx[i], p, n) /\ rx[i][2] >= i
      /\ \A i \in 1..m : Sent(u[i], p, n)
      /\ \A i, j \in 1..l : i < j => rx[i][2] + (j - i) <= rx[j][2]
      /\ \A i, j \in 1..m : i < j => u[i][2] + (j - i) <= u[j][2]
      /\ \A i \in 1..l : \A j \in 1..m : rx[i][2] + (l - i) < u[j][2]
  BY <1>3 DEF Some, Rising, l
<1>8. ASSUME NEW i \in 1..(l + 1)
      PROVE  Sent(t[i], p, n)
  <2>1. CASE i = l + 1
    <3>1. Sent(u[1], p, n)
      BY <1>6, <1>7
    <3> QED
      BY <1>1, <1>2, <2>1, <3>1
  <2>2. CASE i \in 1..l
    BY <1>2, <1>7, <2>2
  <2> QED
    BY <1>2, <2>1, <2>2
<1>9. \A i \in 1..(m - 1) : Sent(v[i], p, n)
  BY <1>1, <1>6, <1>7
<1>10. \A i \in 1..l : rx[i][2] + (l - i) < h[2]
  BY <1>1, <1>6, <1>7
<1>11. \A i, j \in 1..(l + 1) : i < j => t[i][2] + (j - i) <= t[j][2]
  <2>1. SUFFICES ASSUME NEW i \in 1..(l + 1), NEW j \in 1..(l + 1), i < j
                 PROVE  t[i][2] + (j - i) <= t[j][2]
    OBVIOUS
  <2>2. i \in 1..l /\ t[i] = rx[i]
    BY <1>2, <2>1
  <2>3. CASE j = l + 1
    <3>1. rx[i][2] + (l - i) < h[2] /\ rx[i][2] \in Int /\ h[2] \in Int
      BY <1>1, <1>5, <1>6, <1>10, <2>2
    <3>2. \A a, c \in Int : a + (l - i) < c => a + ((l + 1) - i) <= c
      BY <1>2, <2>2
    <3> QED
      BY <1>2, <2>2, <2>3, <3>1, <3>2
  <2>4. CASE j \in 1..l
    BY <1>2, <1>7, <2>1, <2>2, <2>4
  <2> QED
    BY <1>2, <2>3, <2>4
<1>12. \A i, j \in 1..(m - 1) : i < j => v[i][2] + (j - i) <= v[j][2]
  <2>1. SUFFICES ASSUME NEW i \in 1..(m - 1), NEW j \in 1..(m - 1), i < j
                 PROVE  v[i][2] + (j - i) <= v[j][2]
    OBVIOUS
  <2>2. /\ i + 1 \in 1..m /\ j + 1 \in 1..m /\ i + 1 < j + 1
        /\ v[i] = u[i + 1] /\ v[j] = u[j + 1]
    BY <1>1, <1>6, <2>1
  <2>3. u[i + 1][2] + ((j + 1) - (i + 1)) <= u[j + 1][2]
    BY <1>7, <2>2
  <2> QED
    BY <2>2, <2>3
<1>13. \A i \in 1..(l + 1) : \A j \in 1..(m - 1) : t[i][2] + ((l + 1) - i) < v[j][2]
  <2>1. SUFFICES ASSUME NEW i \in 1..(l + 1), NEW j \in 1..(m - 1)
                 PROVE  t[i][2] + ((l + 1) - i) < v[j][2]
    OBVIOUS
  <2>2. /\ j + 1 \in 1..m /\ 1 < j + 1 /\ v[j] = u[j + 1]
    BY <1>1, <1>6, <2>1
  <2>3. u[1][2] + ((j + 1) - 1) <= u[j + 1][2]
    BY <1>6, <1>7, <2>2
  <2>j. j \in Nat /\ j >= 1
    BY <1>1
  <2>4. CASE i = l + 1
    <3>1. h[2] = u[1][2] /\ u[1][2] \in Int /\ u[j + 1][2] \in Int /\ j \in Nat /\ j >= 1
      BY <1>5, <1>h, <2>2, <2>j
    <3>2. \A a, c \in Int : a + ((j + 1) - 1) <= c => a + ((l + 1) - (l + 1)) < c
      BY <1>2, <3>1
    <3> QED
      BY <1>2, <2>2, <2>3, <2>4, <3>1, <3>2
  <2>5. CASE i \in 1..l
    <3>1. t[i][2] = rx[i][2] /\ rx[i][2] \in Int /\ rx[i][2] + (l - i) < h[2]
      BY <1>2, <1>5, <1>10, <2>5
    <3>2. h[2] = u[1][2] /\ u[1][2] \in Int /\ u[j + 1][2] \in Int /\ j \in Nat /\ j >= 1
      BY <1>5, <1>h, <2>2, <2>j
    <3>3. i \in Int /\ l \in Int
      BY <1>2
    <3>4. \A a, b, c \in Int : a + (l - i) < b /\ b + ((j + 1) - 1) <= c => a + ((l + 1) - i) < c
      BY <3>2, <3>3
    <3>5. rx[i][2] + ((l + 1) - i) < u[j + 1][2]
      BY <2>3, <3>1, <3>2, <3>4
    <3> QED
      BY <2>2, <3>1, <3>5
  <2> QED
    BY <1>2, <2>4, <2>5
<1>14. \A i \in 1..(l + 1) : t[i][2] >= i
  <2>1. CASE l = 0
    BY <1>1, <1>2, <1>5, <1>6, <2>1
  <2>2. CASE l >= 1
    <3>1. l \in 1..l /\ rx[l][2] >= l /\ rx[l][2] + (l - l) < h[2]
      BY <1>2, <1>7, <1>10, <2>2
    <3>2. h[2] >= l + 1
      BY <1>1, <1>2, <1>5, <1>6, <3>1
    <3> QED
      BY <1>2, <1>7, <3>2
  <2> QED
    BY <1>2, <2>1, <2>2
<1>15. Some(t, v, p, n)
  BY <1>2, <1>4, <1>8, <1>9, <1>11, <1>12, <1>13, <1>14 DEF Some, Rising
<1> QED
  BY <1>15 DEF t, v, h

\* The position after n.
After(n) == IF n = Length THEN 1 ELSE n + 1

\* The transmitter sends the next byte of the packet, and the line loses it.
LEMMA SomeGarbled ==
  ASSUME NEW rx \in Seq(Bytes), NEW u \in Seq(Bytes), NEW p, NEW n \in 1..Length,
         n # 1, Some(rx, u, p, n)
  PROVE  Some(rx, u, p, After(n))
<1>1. ASSUME NEW b \in Bytes, Sent(b, p, n)
      PROVE  Sent(b, p, After(n))
  BY <1>1, ByteParts, Constants DEF Sent, After
<1>2. (\A i \in DOMAIN rx : rx[i] \in Bytes) /\ \A i \in DOMAIN u : u[i] \in Bytes
  OBVIOUS
<1> QED
  BY <1>1, <1>2 DEF Some

\* The handler pushes the next byte of the packet.
LEMMA SomeArrived ==
  ASSUME NEW rx \in Seq(Bytes), NEW u \in Seq(Bytes), NEW p \in {0, 1},
         NEW n \in 1..Length, Some(rx, u, p, n),
         n = 1 => rx = <<>> /\ u = <<>>
  PROVE  Some(rx, Append(u, <<p, n>>), p, After(n))
<1> DEFINE b == <<p, n>>
           t == Append(u, b)
           l == Len(rx)
           m == Len(u)
<1>1. b \in Bytes /\ b[1] = p /\ b[2] = n
  BY ByteParts
<1> HIDE DEF b
<1>2. /\ t \in Seq(Bytes) /\ Len(t) = m + 1 /\ m \in Nat /\ t[m + 1] = b
      /\ \A i \in 1..m : t[i] = u[i]
  BY <1>1, Appended
<1>3. /\ l \in Nat /\ DOMAIN rx = 1..l /\ DOMAIN u = 1..m /\ DOMAIN t = 1..(m + 1)
      /\ \A i \in 1..l : rx[i] \in Bytes
      /\ \A i \in 1..m : u[i] \in Bytes
  BY <1>2
<1>4. n = 1 => l = 0 /\ m = 0
  OBVIOUS
<1> HIDE DEF t, l, m
<1>5. /\ \A i \in 1..l : Sent(rx[i], p, n) /\ rx[i][2] >= i
      /\ \A i \in 1..m : Sent(u[i], p, n)
      /\ \A i, j \in 1..l : i < j => rx[i][2] + (j - i) <= rx[j][2]
      /\ \A i, j \in 1..m : i < j => u[i][2] + (j - i) <= u[j][2]
      /\ \A i \in 1..l : \A j \in 1..m : rx[i][2] + (l - i) < u[j][2]
  BY <1>3 DEF Some, Rising, l
<1>6. ASSUME NEW c \in Bytes, Sent(c, p, n), n # 1
      PROVE  Sent(c, p, After(n)) /\ c[2] < n /\ c[2] \in Int
  BY <1>6, ByteParts, Constants DEF Sent, After
<1>7. Sent(b, p, After(n))
  BY <1>1, Constants DEF Sent, After
<1>8. /\ \A i \in 1..l : Sent(rx[i], p, After(n)) /\ rx[i][2] < n /\ rx[i][2] \in Int
      /\ \A i \in 1..m : Sent(u[i], p, After(n)) /\ u[i][2] < n /\ u[i][2] \in Int
  BY <1>3, <1>4, <1>5, <1>6
<1>9. ASSUME NEW i \in 1..m
      PROVE  u[i][2] + (m - i) < n
  <2>1. m \in 1..m /\ u[m][2] < n /\ u[m][2] \in Int /\ u[i][2] \in Int
    BY <1>2, <1>8
  <2>2. CASE i = m
    BY <1>2, <2>1, <2>2
  <2>3. CASE i < m
    <3>1. u[i][2] + (m - i) <= u[m][2]
      BY <1>5, <2>1, <2>3
    <3>2. n \in Int /\ i \in Int /\ m \in Int
      BY <1>2
    <3> QED
      BY <2>1, <3>1, <3>2
  <2> QED
    BY <1>2, <2>2, <2>3
<1>10. ASSUME NEW i \in 1..l
       PROVE  rx[i][2] + (l - i) < n
  <2>1. l \in 1..l /\ rx[l][2] < n /\ rx[l][2] \in Int /\ rx[i][2] \in Int
    BY <1>3, <1>8
  <2>2. CASE i = l
    BY <1>3, <2>1, <2>2
  <2>3. CASE i < l
    <3>1. rx[i][2] + (l - i) <= rx[l][2]
      BY <1>5, <2>1, <2>3
    <3> QED
      BY <1>3, <2>1, <3>1, Constants
  <2> QED
    BY <1>3, <2>2, <2>3
<1>11. \A i \in 1..(m + 1) : Sent(t[i], p, After(n))
  BY <1>2, <1>7, <1>8
<1>12. \A i, j \in 1..(m + 1) : i < j => t[i][2] + (j - i) <= t[j][2]
  <2>1. SUFFICES ASSUME NEW i \in 1..(m + 1), NEW j \in 1..(m + 1), i < j
                 PROVE  t[i][2] + (j - i) <= t[j][2]
    OBVIOUS
  <2>2. i \in 1..m /\ t[i] = u[i]
    BY <1>2, <2>1
  <2>3. CASE j = m + 1
    <3>1. t[j][2] = n /\ t[i][2] = u[i][2] /\ u[i][2] \in Int
      BY <1>1, <1>2, <1>8, <2>2, <2>3
    <3>2. u[i][2] + (m - i) < n
      BY <1>9, <2>2
    <3>3. \A a \in Int : a + (m - i) < n => a + ((m + 1) - i) <= n
      BY <1>2, <2>2, Constants
    <3> QED
      BY <2>3, <3>1, <3>2, <3>3
  <2>4. CASE j \in 1..m
    BY <1>2, <1>5, <2>1, <2>2, <2>4
  <2> QED
    BY <1>2, <2>3, <2>4
<1>13. \A i \in 1..l : \A j \in 1..(m + 1) : rx[i][2] + (l - i) < t[j][2]
  <2>1. SUFFICES ASSUME NEW i \in 1..l, NEW j \in 1..(m + 1)
                 PROVE  rx[i][2] + (l - i) < t[j][2]
    OBVIOUS
  <2>2. CASE j = m + 1
    BY <1>1, <1>2, <1>10, <2>2
  <2>3. CASE j \in 1..m
    BY <1>2, <1>5, <2>3
  <2> QED
    BY <1>2, <2>2, <2>3
<1>14. Some(rx, t, p, After(n))
  BY <1>3, <1>5, <1>8, <1>11, <1>12, <1>13 DEF Some, Rising, l
<1> QED
  BY <1>14 DEF t, b

\* A full buffer is a packet.
LEMMA SomeWhole ==
  ASSUME NEW rx \in Seq(Bytes), NEW u \in Seq(Bytes), NEW p \in {0, 1}, NEW n,
         Some(rx, u, p, n), Len(rx) = Length
  PROVE  rx = [k \in 1..Length |-> <<p, k>>]
<1>1. /\ DOMAIN rx = 1..Length /\ rx = [k \in 1..Length |-> rx[k]]
      /\ \A i \in 1..Length : rx[i] \in Bytes
  OBVIOUS
<1>2. ASSUME NEW k \in 1..Length
      PROVE  rx[k] = <<p, k>>
  <2>1. Length \in 1..Length /\ k \in Int
    BY Constants
  <2>2. rx[k][2] \in Int /\ rx[Length][2] <= Length /\ rx[Length][2] \in Int
    BY <1>1, <2>1, ByteParts, Constants
  <2>3. rx[k][1] = p /\ rx[k][2] >= k
    BY <1>1 DEF Some, Sent
  <2>4. rx[k][2] <= k
    <3>1. CASE k = Length
      BY <2>2, <3>1
    <3>2. CASE k < Length
      <4>1. rx[k][2] + (Length - k) <= rx[Length][2]
        BY <1>1, <2>1, <3>2 DEF Some, Rising
      <4> QED
        BY <2>1, <2>2, <4>1, Constants
    <3> QED
      BY <2>1, <3>1, <3>2, Constants
  <2>5. rx[k][2] = k
    BY <2>1, <2>2, <2>3, <2>4
  <2> QED
    BY <1>1, <2>3, <2>5, ByteParts
<1> QED
  BY <1>1, <1>2

-----------------------------------------------------------------------------
(* The invariant is inductive: one lemma per action.                       *)

LEMMA OnePacketPrimed ==
  OnePacket' <=> Some(rxBuffer', uart', packet', next')
BY DEF OnePacket, Some, Rising, Sent

\* When a pause is over both buffers are empty.
LEMMA PauseEmpties ==
  ASSUME PauseSeparates, Inv
  PROVE  silence >= Gap => rxBuffer = <<>> /\ uart = <<>>
<1>1. silence \in Nat /\ age \in Nat
  BY Constants DEF Inv, TypeOK, Dark, Stale
<1>2. ASSUME uart # <<>>
      PROVE  silence <= 2
  BY <1>1, <1>2 DEF Inv, UartPrompt, Due
<1>3. ASSUME rxBuffer # <<>>
      PROVE  silence <= ReadTimeout + 4
  <2>1. age <= ReadTimeout + 2
    BY <1>1, <1>3, Constants DEF Inv, BufferPrompt, Due
  <2> QED
    BY <1>1, <1>3, <2>1, Constants DEF Inv, Stamped, PauseSeparates
<1> QED
  BY <1>1, <1>2, <1>3, Constants DEF PauseSeparates

LEMMA InitInv ==
  ASSUME PauseSeparates, Init
  PROVE  Inv
<1>1. OnePacket
  BY SomeOfNone DEF Init, OnePacket
<1>2. silence \in 0..Dark /\ age \in 0..Stale /\ next \in 1..Length
  BY Constants DEF Init, Dark, Stale, PauseSeparates
<1>3. <<>> \in Seq(Bytes) /\ Len(<<>>) = 0 /\ Len(<<>>) <= Length
  BY Constants
<1>4. TypeOK
  BY <1>2, <1>3 DEF Init, TypeOK
<1> QED
  BY <1>1, <1>4, Constants DEF Init, Inv, UartPrompt, BufferPrompt, Stamped,
                   DisconnectPrompt, FramesWhole

LEMMA SwitchPreserves ==
  ASSUME PauseSeparates, Inv, SwitchOn \/ SwitchOff
  PROVE  Inv'
<1>1. UNCHANGED <<silence, uart, rxBuffer, connected, remote, pc, age, done>>
  BY DEF SwitchOn, SwitchOff, reader
<1>2. on' \in BOOLEAN /\ next' \in 1..Length /\ packet' \in {0, 1}
  <2>1. on \in BOOLEAN /\ next \in 1..Length /\ packet \in {0, 1}
    BY DEF Inv, TypeOK
  <2>2. packet' \in {0, 1}
    BY <2>1 DEF SwitchOn, SwitchOff
  <2> QED
    BY <2>1, <2>2 DEF SwitchOn, SwitchOff
<1>5. TypeOK'
  BY <1>1, <1>2 DEF Inv, TypeOK
<1>3. OnePacket'
  <2>1. CASE SwitchOn
    BY <1>1, <2>1, PauseEmpties, SomeOfNone, OnePacketPrimed DEF SwitchOn
  <2>2. CASE SwitchOff
    BY <1>1, <2>2, OnePacketPrimed DEF SwitchOff, Inv, OnePacket
  <2> QED
    BY <2>1, <2>2
<1>4. (UartPrompt /\ BufferPrompt /\ Stamped /\ DisconnectPrompt /\ FramesWhole)'
  BY <1>1 DEF Inv, UartPrompt, BufferPrompt, Stamped, DisconnectPrompt, FramesWhole, Due
<1> QED
  BY <1>3, <1>4, <1>5 DEF Inv

LEMMA BytePreserves ==
  ASSUME PauseSeparates, Inv, Byte
  PROVE  Inv'
<1>1. /\ UNCHANGED <<on, rxBuffer, connected, remote, pc, age, done>>
      /\ silence' = 0 /\ next' = After(next)
      /\ packet' = IF next = 1 THEN 1 - packet ELSE packet
      /\ uart' = Append(uart, <<packet', next>>) \/ uart' = uart
      /\ next = 1 => rxBuffer = <<>> /\ uart = <<>>
  BY PauseEmpties DEF Byte, After, reader
<1>2. /\ next \in 1..Length /\ next' \in 1..Length /\ packet' \in {0, 1}
      /\ uart \in Seq(Bytes) /\ rxBuffer \in Seq(Bytes)
  BY <1>1, Constants DEF Inv, TypeOK, After
<1>3. uart' \in Seq(Bytes)
  <2>1. <<packet', next>> \in Bytes
    BY <1>2, ByteParts
  <2>2. PICK b \in Bytes : b = <<packet', next>>
    BY <2>1
  <2>3. Append(uart, b) \in Seq(Bytes)
    BY <1>2, Appended
  <2> QED
    BY <1>1, <1>2, <2>2, <2>3
<1>4. Some(rxBuffer, uart, packet', next)
  <2>1. CASE next = 1
    BY <1>1, <2>1, SomeOfNone
  <2>2. CASE next # 1
    BY <1>1, <2>2 DEF Inv, OnePacket
  <2> QED
    BY <2>1, <2>2
<1>5. Some(rxBuffer', uart', packet', next')
  <2>1. CASE uart' = Append(uart, <<packet', next>>)
    <3>1. PICK p : p = packet'
      OBVIOUS
    <3>2. Some(rxBuffer, Append(uart, <<p, next>>), p, After(next))
      BY <1>1, <1>2, <1>4, <3>1, SomeArrived
    <3> QED
      BY <1>1, <2>1, <3>1, <3>2
  <2>2. CASE uart' = uart
    <3>1. CASE next = 1
      BY <1>1, <2>2, <3>1, SomeOfNone
    <3>2. CASE next # 1
      <4>1. PICK p : p = packet'
        OBVIOUS
      <4>2. Some(rxBuffer, uart, p, After(next))
        BY <1>2, <1>4, <3>2, <4>1, SomeGarbled
      <4> QED
        BY <1>1, <2>2, <4>1, <4>2
    <3> QED
      BY <3>1, <3>2
  <2> QED
    BY <1>1, <2>1, <2>2
<1>6. Len(uart') <= Length
  <2>1. PICK u, p, n : u = uart' /\ p = packet' /\ n = next'
    OBVIOUS
  <2>2. Len(u) <= Length
    BY <1>1, <1>2, <1>3, <1>5, <2>1, SomeFits
  <2> QED
    BY <2>1, <2>2
<1>7. TypeOK'
  BY <1>1, <1>2, <1>3, <1>6, Constants DEF Inv, TypeOK, Dark
<1>8. OnePacket'
  BY <1>5, OnePacketPrimed
<1>9. (UartPrompt /\ BufferPrompt /\ Stamped /\ DisconnectPrompt /\ FramesWhole)'
  BY <1>1, Constants
     DEF Inv, TypeOK, UartPrompt, BufferPrompt, Stamped, DisconnectPrompt, FramesWhole, Due, Stale
<1> QED
  BY <1>7, <1>8, <1>9 DEF Inv

LEMMA TickPreserves ==
  ASSUME PauseSeparates, Inv, Tick
  PROVE  Inv'
<1>1. /\ UNCHANGED <<on, next, packet, uart, rxBuffer, connected, remote, pc>>
      /\ done /\ done' = FALSE
      /\ silence' = UpTo(silence + 1, Dark) /\ age' = UpTo(age + 1, Stale)
  BY DEF Tick, reader
<1>2. silence \in Nat /\ age \in Nat /\ silence' \in 0..Dark /\ age' \in 0..Stale
  BY <1>1, Constants DEF Inv, TypeOK, Dark, Stale, UpTo
<1>3. silence' <= silence + 1 /\ age' <= age + 1
  BY <1>1, <1>2, Constants DEF UpTo, Dark, Stale
<1>4. age' <= DisconnectTimeout => age' = age + 1
  BY <1>1, <1>2, Constants DEF UpTo, Stale
<1>5. TypeOK'
  BY <1>1, <1>2 DEF Inv, TypeOK
<1>6. OnePacket'
  BY <1>1, OnePacketPrimed DEF Inv, OnePacket
<1>7. UartPrompt'
  BY <1>1, <1>2, <1>3 DEF Inv, UartPrompt, Due, Dark
<1>8. BufferPrompt'
  BY <1>1, <1>2, <1>3, Constants DEF Inv, BufferPrompt, Due, Stale
<1>9. Stamped'
  BY <1>1, <1>2, <1>3, <1>4, Constants DEF Inv, Stamped, Stale, Dark
<1>10. DisconnectPrompt'
  BY <1>1, <1>2, <1>3, Constants DEF Inv, DisconnectPrompt, Due, Dark
<1>11. FramesWhole'
  BY <1>1 DEF Inv, FramesWhole
<1> QED
  BY <1>5, <1>6, <1>7, <1>8, <1>9, <1>10, <1>11 DEF Inv

\* What the steps of read() have in common.
LEMMA ReadCommon ==
  ASSUME Inv
  PROVE  /\ silence \in Nat /\ age \in Nat
         /\ rxBuffer \in Seq(Bytes) /\ uart \in Seq(Bytes)
         /\ <<>> \in Seq(Bytes) /\ Len(<<>>) = 0
BY Constants DEF Inv, TypeOK, Dark, Stale

\* clearRxBuffer() empties both buffers.
LEMMA Cleared ==
  ASSUME rxBuffer' = <<>>, uart' = <<>>
  PROVE  OnePacket' /\ UartPrompt' /\ BufferPrompt'
<1>1. OnePacket'
  BY OnePacketPrimed, SomeOfNone
<1> QED
  BY <1>1 DEF UartPrompt, BufferPrompt

LEMMA CheckDisconnectPreserves ==
  ASSUME PauseSeparates, Inv, CheckDisconnect
  PROVE  Inv'
<1>1. UNCHANGED <<on, next, packet, silence, age, done>> /\ pc = "idle" /\ pc' = "bytes"
  BY DEF CheckDisconnect, Step, sender
<1>2. CASE age > DisconnectTimeout
  <2>1. connected' = FALSE /\ remote' = <<>> /\ rxBuffer' = <<>> /\ uart' = <<>>
    BY <1>2 DEF CheckDisconnect, clearRxBuffer
  <2>2. TypeOK'
    <3>1. /\ rxBuffer' \in Seq(Bytes) /\ Len(rxBuffer') <= Length
          /\ uart' \in Seq(Bytes) /\ Len(uart') <= Length /\ remote' \in Seq(Bytes)
      BY <2>1, ReadCommon, Constants
    <3> QED
      BY <1>1, <2>1, <3>1 DEF Inv, TypeOK
  <2>3. Stamped' /\ DisconnectPrompt' /\ FramesWhole'
    BY <2>1 DEF Stamped, DisconnectPrompt, FramesWhole
  <2> QED
    BY <2>1, <2>2, <2>3, Cleared DEF Inv
<1>3. CASE ~(age > DisconnectTimeout)
  <2>1. UNCHANGED <<connected, remote, rxBuffer, uart>>
    BY <1>3 DEF CheckDisconnect
  <2>2. TypeOK'
    BY <1>1, <2>1 DEF Inv, TypeOK
  <2>3. OnePacket'
    BY <1>1, <2>1, OnePacketPrimed DEF Inv, OnePacket
  <2>4. UartPrompt' /\ BufferPrompt' /\ Stamped' /\ FramesWhole'
    BY <1>1, <2>1 DEF Inv, UartPrompt, BufferPrompt, Stamped, FramesWhole, Due
  <2>5. DisconnectPrompt'
    BY <1>1, <1>3, <2>1, ReadCommon, Constants DEF Inv, Stamped, DisconnectPrompt, Due
  <2> QED
    BY <2>2, <2>3, <2>4, <2>5 DEF Inv
<1> QED
  BY <1>2, <1>3

LEMMA ReadBytePreserves ==
  ASSUME PauseSeparates, Inv, ReadByte
  PROVE  Inv'
<1>1. Len(rxBuffer) < Length /\ uart # <<>>
  BY ReadCommon, SomeFits DEF ReadByte, Inv, OnePacket
<1>2. /\ UNCHANGED <<on, next, packet, silence, done, connected, remote>>
      /\ pc = "bytes" /\ pc' = "bytes"
      /\ uart' = Tail(uart) /\ rxBuffer' = Append(rxBuffer, Head(uart)) /\ age' = 0
  BY <1>1 DEF ReadByte, Step, sender
<1>3. uart' \in Seq(Bytes) /\ rxBuffer' \in Seq(Bytes)
  BY <1>1, <1>2, ReadCommon, Beheaded, Appended
<1>4. Some(rxBuffer', uart', packet', next')
  BY <1>1, <1>2, ReadCommon, SomeMoved DEF Inv, OnePacket
<1>5. Len(uart') <= Length /\ Len(rxBuffer') <= Length
  <2>1. PICK r, u, p, n : r = rxBuffer' /\ u = uart' /\ p = packet' /\ n = next'
    OBVIOUS
  <2>2. Len(r) <= Length /\ Len(u) <= Length
    BY <1>3, <1>4, <2>1, SomeFits
  <2> QED
    BY <2>1, <2>2
<1>6. TypeOK'
  BY <1>2, <1>3, <1>5, Constants DEF Inv, TypeOK, Stale
<1>7. OnePacket'
  BY <1>4, OnePacketPrimed
<1>8. silence <= 2 /\ (done => silence <= 1)
  BY <1>1, <1>2, ReadCommon DEF Inv, UartPrompt, Due
<1>9. UartPrompt' /\ BufferPrompt' /\ FramesWhole'
  BY <1>1, <1>2, <1>8, ReadCommon, Constants
     DEF Inv, UartPrompt, BufferPrompt, FramesWhole, Due
<1>10. Stamped' /\ DisconnectPrompt'
  BY <1>2, <1>8, ReadCommon, Constants DEF Inv, Stamped, DisconnectPrompt, Due
<1> QED
  BY <1>6, <1>7, <1>9, <1>10 DEF Inv

LEMMA NoBytePreserves ==
  ASSUME PauseSeparates, Inv, NoByte
  PROVE  Inv'
<1>1. /\ UNCHANGED <<on, next, packet, silence, age, done, connected, remote, rxBuffer, uart>>
      /\ pc = "bytes" /\ pc' = "timeout" /\ uart = <<>>
  BY DEF NoByte, Step, sender
<1>2. TypeOK'
  BY <1>1 DEF Inv, TypeOK
<1>3. OnePacket'
  BY <1>1, OnePacketPrimed DEF Inv, OnePacket
<1>4. UartPrompt' /\ BufferPrompt' /\ Stamped' /\ DisconnectPrompt' /\ FramesWhole'
  BY <1>1 DEF Inv, UartPrompt, BufferPrompt, Stamped, DisconnectPrompt, FramesWhole, Due
<1> QED
  BY <1>2, <1>3, <1>4 DEF Inv

LEMMA CheckTimeoutPreserves ==
  ASSUME PauseSeparates, Inv, CheckTimeout
  PROVE  Inv'
<1>1. /\ UNCHANGED <<on, next, packet, silence, age, done, connected, remote>>
      /\ pc = "timeout" /\ pc' = "parse"
  BY DEF CheckTimeout, Step, sender
<1>2. DisconnectPrompt' /\ FramesWhole'
  BY <1>1 DEF Inv, DisconnectPrompt, FramesWhole, Due
<1>3. CASE age > ReadTimeout
  <2>1. rxBuffer' = <<>> /\ uart' = <<>>
    BY <1>3 DEF CheckTimeout, clearRxBuffer
  <2>2. TypeOK'
    BY <1>1, <2>1, ReadCommon, Constants DEF Inv, TypeOK
  <2>3. Stamped'
    BY <1>1, <2>1 DEF Inv, Stamped
  <2> QED
    BY <1>2, <2>1, <2>2, <2>3, Cleared DEF Inv
<1>4. CASE ~(age > ReadTimeout)
  <2>1. UNCHANGED <<rxBuffer, uart>>
    BY <1>4 DEF CheckTimeout
  <2>2. TypeOK'
    BY <1>1, <2>1 DEF Inv, TypeOK
  <2>3. OnePacket'
    BY <1>1, <2>1, OnePacketPrimed DEF Inv, OnePacket
  <2>4. UartPrompt' /\ Stamped'
    BY <1>1, <2>1 DEF Inv, UartPrompt, Stamped, Due
  <2>5. BufferPrompt'
    BY <1>1, <1>4, <2>1, ReadCommon, Constants DEF BufferPrompt, Due
  <2> QED
    BY <1>2, <2>2, <2>3, <2>4, <2>5 DEF Inv
<1> QED
  BY <1>3, <1>4

LEMMA ParseBufferPreserves ==
  ASSUME PauseSeparates, Inv, ParseBuffer
  PROVE  Inv'
<1>1. /\ UNCHANGED <<on, next, packet, silence, age>>
      /\ pc = "parse" /\ pc' = "idle" /\ done' = TRUE
  BY DEF ParseBuffer, Step, sender
<1>2. rxBuffer # <<>> => age <= ReadTimeout + 1
  BY <1>1, ReadCommon, Constants DEF Inv, BufferPrompt, Due
<1>3. CASE Len(rxBuffer) = Length
  <2>1. connected' = TRUE /\ remote' = rxBuffer /\ rxBuffer' = <<>> /\ uart' = <<>>
    BY <1>3 DEF ParseBuffer, clearRxBuffer
  <2>2. TypeOK'
    BY <1>1, <2>1, ReadCommon, Constants DEF Inv, TypeOK
  <2>3. rxBuffer # <<>> /\ silence <= age + 2
    BY <1>2, <1>3, ReadCommon, Constants DEF Inv, Stamped, PauseSeparates
  <2>4. Stamped' /\ DisconnectPrompt'
    BY <1>1, <1>2, <2>1, <2>3, ReadCommon, Constants
       DEF Stamped, DisconnectPrompt, Due, PauseSeparates
  <2>5. rxBuffer = [k \in 1..Length |-> <<packet, k>>] /\ packet \in {0, 1}
    BY <1>3, ReadCommon, SomeWhole DEF Inv, TypeOK, OnePacket
  <2>6. FramesWhole'
    BY <2>1, <2>5 DEF FramesWhole
  <2> QED
    BY <2>1, <2>2, <2>4, <2>6, Cleared DEF Inv
<1>4. CASE Len(rxBuffer) # Length
  <2>1. UNCHANGED <<connected, remote, rxBuffer, uart>>
    BY <1>4 DEF ParseBuffer
  <2>2. TypeOK'
    BY <1>1, <2>1 DEF Inv, TypeOK
  <2>3. OnePacket'
    BY <1>1, <2>1, OnePacketPrimed DEF Inv, OnePacket
  <2>4. UartPrompt'
    BY <1>1, <2>1, ReadCommon DEF Inv, UartPrompt, Due
  <2>5. BufferPrompt'
    BY <1>1, <1>2, <2>1 DEF BufferPrompt, Due
  <2>6. Stamped' /\ FramesWhole'
    BY <1>1, <2>1 DEF Inv, Stamped, FramesWhole
  <2>7. DisconnectPrompt'
    BY <1>1, <2>1, ReadCommon, Constants DEF Inv, DisconnectPrompt, Due
  <2> QED
    BY <2>2, <2>3, <2>4, <2>5, <2>6, <2>7 DEF Inv
<1> QED
  BY <1>3, <1>4

LEMMA NextInv ==
  ASSUME PauseSeparates, Inv, [Next]_vars
  PROVE  Inv'
<1>1. CASE UNCHANGED vars
  <2>1. UNCHANGED <<on, next, packet, silence, uart, pc, rxBuffer, age, connected, remote, done>>
    BY <1>1 DEF vars, sender, reader
  <2>2. OnePacket'
    BY <2>1, OnePacketPrimed DEF Inv, OnePacket
  <2> QED
    BY <2>1, <2>2 DEF Inv, TypeOK, UartPrompt, BufferPrompt, Stamped,
                      DisconnectPrompt, FramesWhole, Due
<1>2. CASE Read
  BY <1>2, CheckDisconnectPreserves, ReadBytePreserves, NoBytePreserves,
     CheckTimeoutPreserves, ParseBufferPreserves DEF Read
<1> QED
  BY <1>1, <1>2, SwitchPreserves, BytePreserves, TickPreserves DEF Next

THEOREM Invariance ==
  ASSUME PauseSeparates
  PROVE  Spec => []Inv
<1>1. Init => Inv
  BY InitInv
<1>2. Inv /\ [Next]_vars => Inv'
  BY NextInv
<1> QED
  BY <1>1, <1>2, PTL DEF Spec

-----------------------------------------------------------------------------
(* The results.                                                            *)

\* Every variable stays in its range: no queue of the UART needs more room
\* than the bytes of one packet.
THEOREM TypeCorrect ==
  ASSUME PauseSeparates
  PROVE  Spec => []TypeOK
<1>1. Inv => TypeOK
  BY DEF Inv
<1> QED
  BY <1>1, Invariance, PTL

\* parseBuffer() sees all the bytes of one packet, in order, or nothing,
\* whatever the line lost and wherever reception began.
THEOREM WholePackets ==
  ASSUME PauseSeparates
  PROVE  Spec => []FramesWhole
<1>1. Inv => FramesWhole
  BY DEF Inv
<1> QED
  BY <1>1, Invariance, PTL

\* Four ticks after the disconnect timeout of the last byte the remote is no
\* longer connected, and its values are those of reset().
THEOREM SilenceIsNoticed ==
  ASSUME PauseSeparates
  PROVE  Spec => []SilenceDisconnects
<1>1. Inv => SilenceDisconnects
  BY ReadCommon, Constants DEF Inv, DisconnectPrompt, Due, SilenceDisconnects
<1> QED
  BY <1>1, Invariance, PTL

\* Every step of the reception is one of RemoteLink or leaves it alone: the
\* buffer that parseBuffer() sees holds the transmitter's latest packet.
LEMMA StepIsLink ==
  ASSUME PauseSeparates, Inv, [Next]_vars
  PROVE  [Link!Next]_(Link!link)
<1>1. CASE UNCHANGED vars
  BY <1>1 DEF vars, sender, reader, Link!link
<1>2. CASE SwitchOn
  <2>1. packet' = packet \/ packet' = 1 - packet
    BY <1>2 DEF SwitchOn
  <2>2. UNCHANGED <<connected, remote>>
    BY <1>2 DEF SwitchOn, reader
  <2> QED
    BY <2>1, <2>2 DEF Link!Next, Link!NewPacket, Link!link
<1>3. CASE Byte
  <2>1. packet' = packet \/ packet' = 1 - packet
    BY <1>3 DEF Byte
  <2>2. UNCHANGED <<connected, remote>>
    BY <1>3 DEF Byte, reader
  <2> QED
    BY <2>1, <2>2 DEF Link!Next, Link!NewPacket, Link!link
<1>4. CASE SwitchOff \/ Tick
  <2>1. UNCHANGED <<packet, connected, remote>>
    BY <1>4 DEF SwitchOff, Tick, reader
  <2> QED
    BY <2>1 DEF Link!link
<1>5. CASE CheckDisconnect
  <2>1. UNCHANGED packet
    BY <1>5 DEF CheckDisconnect, sender
  <2>2. \/ connected' = FALSE /\ remote' = <<>>
        \/ UNCHANGED <<connected, remote>>
    BY <1>5 DEF CheckDisconnect
  <2> QED
    BY <2>1, <2>2 DEF Link!Next, Link!Lose, Link!link
<1>6. CASE ReadByte \/ NoByte \/ CheckTimeout
  <2>1. UNCHANGED <<packet, connected, remote>>
    BY <1>6 DEF ReadByte, NoByte, CheckTimeout, sender
  <2> QED
    BY <2>1 DEF Link!link
<1>7. CASE ParseBuffer
  <2>1. UNCHANGED packet
    BY <1>7 DEF ParseBuffer, sender
  <2>2. CASE Len(rxBuffer) = Length
    <3>1. connected' = TRUE /\ remote' = rxBuffer
      BY <1>7, <2>2 DEF ParseBuffer
    <3>2. rxBuffer = [k \in 1..Length |-> <<packet, k>>]
      BY <2>2, SomeWhole DEF Inv, TypeOK, OnePacket
    <3> QED
      BY <2>1, <3>1, <3>2 DEF Link!Next, Link!Show, Link!Whole
  <2>3. CASE Len(rxBuffer) # Length
    <3>1. UNCHANGED <<connected, remote>>
      BY <1>7, <2>3 DEF ParseBuffer
    <3> QED
      BY <2>1, <3>1 DEF Link!link
  <2> QED
    BY <2>2, <2>3
<1> QED
  BY <1>1, <1>2, <1>3, <1>4, <1>5, <1>6, <1>7 DEF Next, Read

\* Reading the remote implements RemoteLink: users see whole packets only, and
\* each of them while it is the transmitter's latest.
THEOREM Refinement ==
  ASSUME PauseSeparates
  PROVE  Spec => ImplementsRemoteLink
<1>1. Init => Link!Init
  BY DEF Init, Link!Init
<1>2. Inv /\ [Next]_vars => [Link!Next]_(Link!link)
  BY StepIsLink
<1> QED
  BY <1>1, <1>2, Invariance, PTL DEF Spec, ImplementsRemoteLink, Link!Spec
=============================================================================
