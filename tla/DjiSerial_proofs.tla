-------------------------- MODULE DjiSerial_proofs --------------------------
(***************************************************************************)
(* The serial link, proved for frames and buffers of any length, any       *)
(* number of frames and errors: what is delivered are whole frames, in     *)
(* order, and the transmitting UART neither cuts a frame short nor forgets *)
(* bytes in its queue.                                                     *)
(***************************************************************************)
EXTENDS DjiSerial, TLAPS

-----------------------------------------------------------------------------
(* The inductive invariant.                                                *)

\* The bytes that write() has yet to hand over.
Rest == IF writer = "enable" THEN Tail(outgoing) ELSE outgoing

\* The length of the frame that was sent last.
Current == IF sent = 0 THEN 0 ELSE FrameLength(sent)

\* The bytes of it that have left the sender.
Gone == Current - (Len(register) + Len(txBuffer) + Len(Rest))

\* s holds consecutive bytes of frame n, the first behind place p.
Consecutive(s, n, p) ==
  \A i \in 1..Len(s) : s[i] = [frame |-> n, place |-> p + i]

\* The rest of the frame is lined up in the register, the queue and the array.
\* A byte is stored only with nothing ahead of it, and pushed behind the first.
Sending ==
  /\ Gone \in 0..Current
  /\ Consecutive(register, sent, Gone)
  /\ Consecutive(txBuffer, sent, Gone + Len(register))
  /\ Consecutive(Rest, sent, Gone + Len(register) + Len(txBuffer))
  /\ writer \in {"testRegister", "store"} => txBuffer = <<>>
  /\ writer = "store" => register = <<>>
  /\ writer \in {"push", "enable"} \/ txBuffer # <<>> => Gone + Len(register) >= 1

Genuine(b) == b.frame # 0

Before(a, b) ==
  \/ a.frame < b.frame
  \/ a.frame = b.frame /\ a.place < b.place

\* Every genuine byte of s comes before every genuine byte of t.
AllBefore(s, t) ==
  \A i \in 1..Len(s), j \in 1..Len(t) :
    Genuine(s[i]) /\ Genuine(t[j]) => Before(s[i], t[j])

Ordered(s) ==
  \A i, j \in 1..Len(s) :
    i < j /\ Genuine(s[i]) /\ Genuine(s[j]) => Before(s[i], s[j])

\* Header, body and queue hold genuine bytes in the order they were sent.
InOrder(h, d, r) ==
  /\ Ordered(h) /\ Ordered(d) /\ Ordered(r)
  /\ AllBefore(h, d) /\ AllBefore(h, r) /\ AllBefore(d, r)

Within(b, s) == \E i \in 1..Len(s) : s[i] = b

Within3(b, h, d, r) == Within(b, h) \/ Within(b, d) \/ Within(b, r)

Received(b) == Within3(b, frameHeader, data, rxBuffer)

\* The header is one of frame n, and acceptable.
Announces(header, n) == header[1] = [frame |-> n, place |-> 1] /\ Acceptable(n)

\* What was read agrees with the state of the parser.
Parsing ==
  /\ rxState = "SERIAL_HEADER_SEARCH" => frameHeader = <<>>
  /\ rxState # "SERIAL_HEADER_SEARCH" => frameHeader # <<>>
  /\ rxState = "PROCESS_FRAME_DATA" =>
       /\ Len(frameHeader) = FRAME_HEADER_LENGTH
       /\ \E n \in 1..MaxFrames : Announces(frameHeader, n) /\ Len(data) < BodyLength(n)
  /\ rxState # "PROCESS_FRAME_DATA" => data = <<>>

\* Only what left the sender is received.
OnlySent ==
  \A b \in Byte : Received(b) /\ Genuine(b) =>
    b.frame < sent \/ (b.frame = sent /\ b.place <= Gone)

\* A harmed frame lacks a byte that has left the sender: it is never complete.
Missing ==
  \A n \in harmed :
    /\ n <= sent
    /\ \E p \in 1..FrameLength(n) :
         /\ ~Received([frame |-> n, place |-> p])
         /\ n = sent => p <= Gone

\* Nothing of a delivered frame, or of one before it, is left anywhere.
Behind ==
  \A k \in 1..Len(delivered) :
    /\ \A b \in Byte : Received(b) /\ Genuine(b) => delivered[k] < b.frame
    /\ delivered[k] = sent => Gone = Current

\* Frames are delivered in the order they were sent, each at most once and only
\* if every byte of it came through, whatever the line did to the others and
\* however the handlers and both main loops interleave.
OnlyWholeFrames ==
  /\ \A k \in 1..Len(delivered) : delivered[k] \in (1..sent) \ harmed
  /\ \A k \in 1..Len(delivered) - 1 : delivered[k] < delivered[k + 1]

Inv ==
  /\ TypeOK
  /\ Sending
  /\ Parsing
  /\ InOrder(frameHeader, data, rxBuffer)
  /\ OnlySent
  /\ Missing
  /\ Behind
  /\ OnlyWholeFrames
  /\ InterruptOn

-----------------------------------------------------------------------------
(* Numbers, bytes and sequences of bytes.                                  *)

LEMMA Lengths ==
  /\ FRAME_HEADER_LENGTH \in Nat \ {0} /\ Crc8Length \in 1..FRAME_HEADER_LENGTH
  /\ \A n \in 1..MaxFrames :
       /\ BodyLength(n) \in Nat /\ FrameLength(n) \in Nat \ {0}
       /\ FrameLength(n) = FRAME_HEADER_LENGTH + BodyLength(n)
       /\ Acceptable(n) => BodyLength(n) >= 1 /\ BodyLength(n) <= SERIAL_RX_BUFF_SIZE
<1>1. FRAME_HEADER_LENGTH \in Nat \ {0} /\ Crc8Length \in 1..FRAME_HEADER_LENGTH
  BY HeaderType
<1>2. ASSUME NEW n \in 1..MaxFrames
      PROVE  /\ BodyLength(n) \in Nat /\ FrameLength(n) \in Nat \ {0}
             /\ FrameLength(n) = FRAME_HEADER_LENGTH + BodyLength(n)
             /\ Acceptable(n) => BodyLength(n) >= 1 /\ BodyLength(n) <= SERIAL_RX_BUFF_SIZE
  <2>1. DataLength[n] \in Nat
    BY <1>2, LengthType
  <2> QED
    BY <1>1, <2>1, LengthType, SizeTypes DEF BodyLength, FrameLength, Acceptable
<1> QED
  BY <1>1, <1>2

LEMMA ByteFacts ==
  /\ \A b \in Byte : /\ b.frame \in 0..MaxFrames /\ b.place \in Nat
                     /\ b.frame \in Int /\ b.place \in Int
                     /\ Genuine(b) => b.frame \in 1..MaxFrames /\ b.place \in 1..FrameLength(b.frame)
  /\ \A n \in 1..MaxFrames : \A p \in 1..FrameLength(n) :
       /\ [frame |-> n, place |-> p] \in Byte
       /\ [frame |-> n, place |-> p].frame = n /\ [frame |-> n, place |-> p].place = p
       /\ Genuine([frame |-> n, place |-> p])
  /\ Noise \in Byte /\ FalseHead \in Byte /\ ~Genuine(Noise) /\ ~Genuine(FalseHead)
<1>1. ASSUME NEW n \in 1..MaxFrames, NEW p \in 1..FrameLength(n)
      PROVE  /\ [frame |-> n, place |-> p] \in Byte
             /\ [frame |-> n, place |-> p].frame = n /\ [frame |-> n, place |-> p].place = p
             /\ Genuine([frame |-> n, place |-> p])
  BY <1>1, ByteType, BoundTypes DEF SerialByte, Genuine
<1>2. ASSUME NEW b \in Byte
      PROVE  /\ b.frame \in 0..MaxFrames /\ b.place \in Nat
             /\ b.frame \in Int /\ b.place \in Int
             /\ Genuine(b) => b.frame \in 1..MaxFrames /\ b.place \in 1..FrameLength(b.frame)
  <2>1. \/ b = Noise \/ b = FalseHead
        \/ \E n \in 1..MaxFrames : b \in [frame : {n}, place : 1..FrameLength(n)]
    BY ByteType DEF SerialByte
  <2>2. CASE b = Noise \/ b = FalseHead
    BY <2>2, BoundTypes DEF Noise, FalseHead, Genuine
  <2>3. CASE \E n \in 1..MaxFrames : b \in [frame : {n}, place : 1..FrameLength(n)]
    <3>1. PICK n \in 1..MaxFrames : b.frame = n /\ b.place \in 1..FrameLength(n)
      BY <2>3
    <3> QED
      BY <3>1, BoundTypes, Lengths
  <2> QED
    BY <2>1, <2>2, <2>3
<1>3. Noise \in Byte /\ FalseHead \in Byte /\ ~Genuine(Noise) /\ ~Genuine(FalseHead)
  BY ByteType DEF SerialByte, Noise, FalseHead, Genuine
<1> QED
  BY <1>1, <1>2, <1>3

\* s falls into f and w; m is a and f behind it.
Cut(s, f, w) ==
  /\ Len(s) \in Nat /\ Len(f) \in Nat /\ Len(w) \in Nat /\ Len(s) = Len(f) + Len(w)
  /\ \A i \in 1..Len(f) : f[i] = s[i]
  /\ \A i \in 1..Len(w) : w[i] = s[Len(f) + i]

Link(a, f, m) ==
  /\ Len(a) \in Nat /\ Len(f) \in Nat /\ Len(m) = Len(a) + Len(f)
  /\ \A i \in 1..Len(a) : m[i] = a[i]
  /\ \A i \in 1..Len(f) : m[Len(a) + i] = f[i]

\* Reading takes the first bytes of the queue and leaves the others.
LEMMA Split ==
  ASSUME NEW s \in Seq(Byte), NEW c \in Nat
  PROVE  /\ FirstBytes(s, c) \in Seq(Byte) /\ Without(s, c) \in Seq(Byte)
         /\ Len(FirstBytes(s, c)) = IF Len(s) < c THEN Len(s) ELSE c
         /\ Cut(s, FirstBytes(s, c), Without(s, c))
<1>1. Len(s) \in Nat
  OBVIOUS
<1>2. CASE Len(s) < c
  <2>1. FirstBytes(s, c) = SubSeq(s, 1, Len(s)) /\ Without(s, c) = SubSeq(s, c + 1, Len(s))
    BY <1>2 DEF FirstBytes, Without
  <2>2. SubSeq(s, 1, Len(s)) = s /\ SubSeq(s, c + 1, Len(s)) = <<>>
    BY <1>1, <1>2
  <2>3. FirstBytes(s, c) = s /\ Without(s, c) = <<>>
    BY <2>1, <2>2
  <2> QED
    BY <1>1, <1>2, <2>3 DEF Cut
<1>3. CASE c <= Len(s)
  <2>1. FirstBytes(s, c) = SubSeq(s, 1, c) /\ Without(s, c) = SubSeq(s, c + 1, Len(s))
    BY <1>1, <1>3 DEF FirstBytes, Without
  <2>2. /\ SubSeq(s, 1, c) \in Seq(Byte) /\ Len(SubSeq(s, 1, c)) = c
        /\ \A i \in 1..c : SubSeq(s, 1, c)[i] = s[i]
    BY <1>1, <1>3
  <2>3. /\ SubSeq(s, c + 1, Len(s)) \in Seq(Byte) /\ Len(SubSeq(s, c + 1, Len(s))) = Len(s) - c
        /\ \A i \in 1..(Len(s) - c) : SubSeq(s, c + 1, Len(s))[i] = s[c + i]
    BY <1>1, <1>3
  <2>4. /\ FirstBytes(s, c) \in Seq(Byte) /\ Len(FirstBytes(s, c)) = c
        /\ \A i \in 1..c : FirstBytes(s, c)[i] = s[i]
    BY <2>1, <2>2
  <2>5. /\ Without(s, c) \in Seq(Byte) /\ Len(Without(s, c)) = Len(s) - c
        /\ \A i \in 1..(Len(s) - c) : Without(s, c)[i] = s[c + i]
    BY <2>1, <2>3
  <2> QED
    BY <1>1, <1>3, <2>4, <2>5 DEF Cut
<1> QED
  BY <1>1, <1>2, <1>3

LEMMA Joined ==
  ASSUME NEW a \in Seq(Byte), NEW t \in Seq(Byte)
  PROVE  a \o t \in Seq(Byte) /\ Link(a, t, a \o t)
BY DEF Link

LEMMA Appended ==
  ASSUME NEW s \in Seq(Byte), NEW b \in Byte
  PROVE  /\ Append(s, b) \in Seq(Byte) /\ Len(s) \in Nat /\ Len(Append(s, b)) = Len(s) + 1
         /\ \A i \in 1..Len(s) : Append(s, b)[i] = s[i]
         /\ Append(s, b)[Len(s) + 1] = b
OBVIOUS

LEMMA HeadTail ==
  ASSUME NEW s \in Seq(Byte), s # <<>>
  PROVE  /\ Len(s) \in Nat \ {0} /\ Head(s) = s[1] /\ Head(s) \in Byte
         /\ Tail(s) \in Seq(Byte) /\ Len(Tail(s)) \in Nat /\ Len(Tail(s)) = Len(s) - 1
         /\ \A i \in 1..Len(Tail(s)) : i + 1 \in 1..Len(s) /\ Tail(s)[i] = s[i + 1]
OBVIOUS

LEMMA Nothing ==
  /\ <<>> \in Seq(Byte) /\ Len(<<>>) = 0
  /\ \A b : ~Within(b, <<>>)
  /\ Ordered(<<>>)
  /\ \A s : AllBefore(<<>>, s) /\ AllBefore(s, <<>>)
  /\ \A n, p : Consecutive(<<>>, n, p)
  /\ \A s \in Seq(Byte) : Len(s) \in Nat /\ (s # <<>> <=> Len(s) >= 1)
BY DEF Within, Ordered, AllBefore, Consecutive

LEMMA Single ==
  ASSUME NEW b \in Byte
  PROVE  <<b>> \in Seq(Byte) /\ Len(<<b>>) = 1 /\ <<b>>[1] = b
OBVIOUS
-----------------------------------------------------------------------------
(* The order of the bytes received.                                        *)

\* What is taken from the queue and put behind what was read before is in
\* order with it, with what is left, and with what was read before that.
LEMMA MovedInOrder ==
  ASSUME NEW h, NEW a, NEW s, NEW f, NEW w, NEW m, Cut(s, f, w), Link(a, f, m),
         Ordered(a), Ordered(s), AllBefore(a, s), AllBefore(h, a), AllBefore(h, s)
  PROVE  Ordered(m) /\ Ordered(w) /\ AllBefore(m, w) /\ AllBefore(h, m) /\ AllBefore(h, w)
<1>2. /\ Len(s) \in Nat /\ Len(f) \in Nat /\ Len(w) \in Nat
      /\ \A i \in 1..Len(f) : i \in 1..Len(s) /\ f[i] = s[i]
      /\ \A i \in 1..Len(w) : Len(f) + i \in 1..Len(s) /\ w[i] = s[Len(f) + i]
  BY DEF Cut
<1>3. Len(a) \in Nat /\ Len(m) = Len(a) + Len(f)
  BY DEF Link
<1>4. \A i \in 1..Len(m) : \/ i \in 1..Len(a) /\ m[i] = a[i]
                           \/ i - Len(a) \in 1..Len(f) /\ m[i] = f[i - Len(a)]
  <2>1. \A i \in 1..Len(m) : i \in 1..Len(a) \/ i - Len(a) \in 1..Len(f)
    BY <1>2, <1>3
  <2>2. \A i \in 1..Len(m) : i - Len(a) \in 1..Len(f) => m[Len(a) + (i - Len(a))] = f[i - Len(a)]
    BY DEF Link
  <2>3. \A i \in 1..Len(m) : Len(a) + (i - Len(a)) = i
    BY <1>3
  <2> QED
    BY <2>1, <2>2, <2>3 DEF Link
<1>5. Ordered(w)
  BY <1>2 DEF Ordered
<1>6. AllBefore(h, w)
  BY <1>2 DEF AllBefore
<1>7. ASSUME NEW i \in 1..Len(m), NEW j \in 1..Len(m), i < j, Genuine(m[i]), Genuine(m[j])
      PROVE  Before(m[i], m[j])
  <2>1. CASE i \in 1..Len(a) /\ j \in 1..Len(a)
    BY <1>4, <1>7, <2>1 DEF Ordered
  <2>2. CASE i \in 1..Len(a) /\ ~(j \in 1..Len(a))
    <3>1. j - Len(a) \in 1..Len(f) /\ m[j] = f[j - Len(a)]
      BY <1>4, <2>2
    <3>2. j - Len(a) \in 1..Len(s) /\ m[j] = s[j - Len(a)]
      BY <1>2, <3>1
    <3>3. m[i] = a[i]
      BY <2>2 DEF Link
    <3> QED
      BY <1>7, <2>2, <3>2, <3>3 DEF AllBefore
  <2>3. CASE ~(i \in 1..Len(a))
    <3>1. i - Len(a) \in 1..Len(f) /\ j - Len(a) \in 1..Len(f) /\ i - Len(a) < j - Len(a)
      <4>1. Len(f) \in Nat
        BY <1>2
      <4>2. i \in Int /\ j \in Int /\ Len(a) < i /\ j <= Len(a) + Len(f)
        BY <1>3, <2>3, <4>1
      <4> QED
        BY <1>3, <1>7, <4>1, <4>2
    <3>2. m[i] = f[i - Len(a)] /\ m[j] = f[j - Len(a)]
      <4>1. ~(j \in 1..Len(a))
        BY <1>3, <1>7, <2>3
      <4> QED
        BY <1>4, <2>3, <4>1
    <3>3. /\ i - Len(a) \in 1..Len(s) /\ f[i - Len(a)] = s[i - Len(a)]
          /\ j - Len(a) \in 1..Len(s) /\ f[j - Len(a)] = s[j - Len(a)]
      BY <1>2, <3>1
    <3> QED
      BY <1>7, <3>1, <3>2, <3>3 DEF Ordered
  <2> QED
    BY <2>1, <2>2, <2>3
<1>8. ASSUME NEW i \in 1..Len(m), NEW j \in 1..Len(w), Genuine(m[i]), Genuine(w[j])
      PROVE  Before(m[i], w[j])
  <2>1. Len(f) + j \in 1..Len(s) /\ w[j] = s[Len(f) + j]
    BY <1>2
  <2>2. CASE i \in 1..Len(a)
    BY <1>4, <1>8, <2>1, <2>2, <1>2 DEF AllBefore
  <2>3. CASE ~(i \in 1..Len(a))
    <3>1. i - Len(a) \in 1..Len(s) /\ m[i] = s[i - Len(a)] /\ i - Len(a) < Len(f) + j
      BY <1>2, <1>4, <2>3
    <3> QED
      BY <1>8, <2>1, <3>1 DEF Ordered
  <2> QED
    BY <2>2, <2>3
<1>9. ASSUME NEW i \in 1..Len(h), NEW j \in 1..Len(m), Genuine(h[i]), Genuine(m[j])
      PROVE  Before(h[i], m[j])
  BY <1>2, <1>4, <1>9 DEF AllBefore
<1> QED
  BY <1>5, <1>6, <1>7, <1>8, <1>9 DEF Ordered, AllBefore

\* A joined sequence holds nothing but what its parts hold.
LEMMA LinkWithin ==
  ASSUME NEW a, NEW f, NEW m, Link(a, f, m), NEW b, Within(b, m)
  PROVE  Within(b, a) \/ Within(b, f)
<1>1. ASSUME NEW i \in 1..Len(m), m[i] = b
      PROVE  Within(b, a) \/ Within(b, f)
  <2>1. CASE i \in 1..Len(a)
    BY <1>1, <2>1 DEF Link, Within
  <2>2. CASE ~(i \in 1..Len(a))
    <3>1. i - Len(a) \in 1..Len(f) /\ Len(a) + (i - Len(a)) = i
      BY <1>1, <2>2 DEF Link
    <3>2. m[Len(a) + (i - Len(a))] = f[i - Len(a)]
      BY <3>1 DEF Link
    <3> QED
      BY <1>1, <3>1, <3>2 DEF Within
  <2> QED
    BY <2>1, <2>2
<1> QED
  BY <1>1 DEF Within

\* Taking bytes from the queue invents none.
LEMMA MovedWithin ==
  ASSUME NEW a, NEW s, NEW f, NEW w, NEW m, Cut(s, f, w), Link(a, f, m), NEW b
  PROVE  /\ Within(b, m) => Within(b, a) \/ Within(b, f)
         /\ Within(b, f) => Within(b, s)
         /\ Within(b, w) => Within(b, s)
<1>1. Within(b, f) => Within(b, s)
  BY DEF Cut, Within
<1>2. Within(b, w) => Within(b, s)
  BY DEF Cut, Within
<1>3. Within(b, m) => Within(b, a) \/ Within(b, f)
  BY LinkWithin
<1> QED
  BY <1>1, <1>2, <1>3

\* A byte that arrives behind all others keeps the queue in order.
LEMMA AppendedInOrder ==
  ASSUME NEW h \in Seq(Byte), NEW d \in Seq(Byte), NEW s \in Seq(Byte), NEW b \in Byte,
         InOrder(h, d, s),
         \A x \in Byte : Within3(x, h, d, s) /\ Genuine(x) /\ Genuine(b) => Before(x, b)
  PROVE  InOrder(h, d, Append(s, b))
<1>1. PICK t \in Seq(Byte) : t = Append(s, b)
  BY Appended
<1>2. /\ Len(s) \in Nat /\ Len(t) = Len(s) + 1 /\ t[Len(s) + 1] = b
      /\ \A i \in 1..Len(s) : t[i] = s[i]
  BY <1>1, Appended
<1>3. \A i \in 1..Len(t) : i \in 1..Len(s) \/ i = Len(s) + 1
  BY <1>2
<1>4. /\ \A i \in 1..Len(h) : Genuine(h[i]) /\ Genuine(b) => Before(h[i], b)
      /\ \A i \in 1..Len(d) : Genuine(d[i]) /\ Genuine(b) => Before(d[i], b)
      /\ \A i \in 1..Len(s) : Genuine(s[i]) /\ Genuine(b) => Before(s[i], b)
  <2>1. /\ \A i \in 1..Len(h) : h[i] \in Byte
        /\ \A i \in 1..Len(d) : d[i] \in Byte
        /\ \A i \in 1..Len(s) : s[i] \in Byte
    OBVIOUS
  <2> QED
    BY <2>1 DEF Within3, Within
<1>5. AllBefore(h, t) /\ AllBefore(d, t)
  BY <1>2, <1>3, <1>4 DEF AllBefore, InOrder
<1>6. Ordered(t)
  <2>1. ASSUME NEW i \in 1..Len(t), NEW j \in 1..Len(t), i < j, Genuine(t[i]), Genuine(t[j])
        PROVE  Before(t[i], t[j])
    <3>1. i \in 1..Len(s)
      BY <1>2, <2>1
    <3>2. CASE j \in 1..Len(s)
      BY <1>2, <2>1, <3>1, <3>2 DEF InOrder, Ordered
    <3>3. CASE j = Len(s) + 1
      BY <1>2, <1>4, <2>1, <3>1, <3>3
    <3> QED
      BY <1>3, <3>2, <3>3
  <2> QED
    BY <2>1 DEF Ordered
<1> QED
  BY <1>1, <1>5, <1>6 DEF InOrder

LEMMA AppendedWithin ==
  ASSUME NEW s \in Seq(Byte), NEW b \in Byte, NEW x
  PROVE  Within(x, Append(s, b)) => Within(x, s) \/ x = b
<1>1. /\ Len(s) \in Nat /\ Len(Append(s, b)) = Len(s) + 1 /\ Append(s, b)[Len(s) + 1] = b
      /\ \A i \in 1..Len(s) : Append(s, b)[i] = s[i]
  BY Appended
<1>2. \A i \in 1..(Len(s) + 1) : i \in 1..Len(s) \/ i = Len(s) + 1
  BY <1>1
<1> QED
  BY <1>1, <1>2 DEF Within
-----------------------------------------------------------------------------
(* The sender.                                                             *)

LEMMA FrameType ==
  ASSUME NEW n \in 1..MaxFrames
  PROVE  Frame(n) \in Seq(Byte) /\ Len(Frame(n)) = FrameLength(n) /\ Consecutive(Frame(n), n, 0)
<1>1. Frame(n) \in [1..FrameLength(n) -> Byte]
  BY ByteFacts DEF Frame
<1>2. \A k \in 1..FrameLength(n) : Frame(n)[k] = [frame |-> n, place |-> k]
  BY DEF Frame
<1>3. \A k \in 1..FrameLength(n) : 0 + k = k
  BY Lengths
<1> HIDE DEF Frame
<1>4. \A S, f : \A m \in Nat : f \in [1..m -> S] => f \in Seq(S) /\ Len(f) = m
  OBVIOUS
<1>5. Frame(n) \in Seq(Byte) /\ Len(Frame(n)) = FrameLength(n)
  BY <1>1, <1>4, Lengths
<1> QED
  BY <1>2, <1>3, <1>5 DEF Consecutive

LEMMA CurrentLength ==
  ASSUME sent \in 0..MaxFrames
  PROVE  /\ Current \in Nat /\ Current <= TxCapacity
         /\ sent = 0 => Current = 0
         /\ sent # 0 => sent \in 1..MaxFrames /\ Current = FrameLength(sent)
<1>1. CASE sent = 0
  BY <1>1, TxCapacityType DEF Current
<1>2. CASE sent # 0
  <2>1. sent \in 1..MaxFrames /\ Current = FrameLength(sent)
    BY <1>2, BoundTypes DEF Current
  <2>2. FrameLength(sent) \in Nat /\ FrameLength(sent) < SERIAL_TX_BUFF_SIZE
    BY <2>1, Lengths, FrameFits
  <2> QED
    BY <1>2, <2>1, <2>2, FrameFits, SizeTypes, TxCapacityType
<1> QED
  BY <1>1, <1>2

LEMMA RestType ==
  ASSUME TypeOK
  PROVE  /\ Rest \in Seq(Byte) /\ Len(Rest) \in Nat /\ Len(txBuffer) \in Nat /\ Len(register) \in 0..1
         /\ Gone \in Int /\ Gone + Len(register) + Len(txBuffer) + Len(Rest) = Current
         /\ writer \notin {"idle", "enable"} => Rest = outgoing /\ Rest # <<>>
         /\ writer = "enable" => Rest = Tail(outgoing) /\ outgoing # <<>>
<1>1. outgoing \in Seq(Byte) /\ txBuffer \in Seq(Byte) /\ register \in Seq(Byte) /\ Len(register) <= 1
  BY DEF TypeOK, UartTypeOK
<1>2. writer # "idle" => outgoing # <<>>
  BY DEF TypeOK, UartTypeOK
<1>3. Rest \in Seq(Byte)
  BY <1>1, <1>2, HeadTail DEF Rest
<1>4. Len(Rest) \in Nat /\ Len(txBuffer) \in Nat /\ Len(register) \in 0..1
  <2>1. Len(Rest) \in Nat /\ Len(txBuffer) \in Nat /\ Len(register) \in Nat
    BY <1>1, <1>3, Nothing
  <2>2. Len(register) <= 1
    BY <1>1
  <2>3. \A n \in Nat : n <= 1 => n \in 0..1
    OBVIOUS
  <2>4. Len(register) \in 0..1
    BY <2>1, <2>2, <2>3
  <2> QED
    BY <2>1, <2>4
<1>5. Gone \in Int /\ Gone + Len(register) + Len(txBuffer) + Len(Rest) = Current
  BY <1>4, CurrentLength DEF Gone, TypeOK
<1> QED
  BY <1>2, <1>3, <1>4, <1>5 DEF Rest

\* A test, and enabling the interrupt, move no byte.
LEMMA TestsKeep ==
  ASSUME TypeOK, Sending, TestBuffer \/ TestRegister \/ EnableInterrupt, sent' = sent
  PROVE  Gone' = Gone /\ Sending'
<1>1. UartTypeOK
  BY DEF TypeOK
<1>2. UNCHANGED <<txBuffer, register>>
  BY DEF TestBuffer, TestRegister, EnableInterrupt
<1>3. Rest' = Rest
  BY <1>1 DEF TestBuffer, TestRegister, EnableInterrupt, Written, Rest
<1>4. Gone' = Gone
  BY <1>2, <1>3 DEF Gone, Current
<1>5. writer' \in {"testRegister", "store"} => txBuffer = <<>>
  BY DEF TestBuffer, TestRegister, EnableInterrupt, Written, Sending
<1>6. writer' = "store" => register = <<>>
  BY DEF TestBuffer, TestRegister, EnableInterrupt, Written, TransmitRegisterEmpty
<1>7. writer' \in {"push", "enable"} \/ txBuffer # <<>> => Gone + Len(register) >= 1
  <2>1. register # <<>> => Len(register) >= 1
    BY <1>1, Nothing DEF UartTypeOK
  <2>2. Gone >= 0 /\ Gone \in Int /\ Len(register) \in Nat
    BY <1>1, RestType DEF Sending
  <2>3. writer' \in {"push", "enable"} => txBuffer # <<>> \/ register # <<>>
    BY DEF TestBuffer, TestRegister, EnableInterrupt, Written, TransmitRegisterEmpty
  <2> QED
    BY <2>1, <2>2, <2>3 DEF Sending
<1> QED
  BY <1>2, <1>3, <1>4, <1>5, <1>6, <1>7 DEF Sending, Current, Consecutive

\* A byte of the array, the queue or the register is the next but what is ahead.
LEMMA Placed ==
  ASSUME NEW s \in Seq(Byte), NEW n \in Nat, NEW p \in Int, Consecutive(s, n, p), s # <<>>
  PROVE  /\ Head(s) = [frame |-> n, place |-> p + 1]
         /\ Consecutive(Tail(s), n, p + 1)
<1>1. /\ Len(s) \in Nat \ {0} /\ Head(s) = s[1] /\ Len(Tail(s)) = Len(s) - 1
      /\ \A i \in 1..Len(Tail(s)) : i + 1 \in 1..Len(s) /\ Tail(s)[i] = s[i + 1]
  BY HeadTail
<1>2. 1 \in 1..Len(s)
  BY <1>1
<1>3. \A i \in 1..Len(Tail(s)) : p + (i + 1) = (p + 1) + i
  BY <1>1
<1> QED
  BY <1>1, <1>2, <1>3 DEF Consecutive

LEMMA PlacedBehind ==
  ASSUME NEW s \in Seq(Byte), NEW n \in Nat, NEW p \in Int, Consecutive(s, n, p), NEW b \in Byte,
         b = [frame |-> n, place |-> p + Len(s) + 1]
  PROVE  Consecutive(Append(s, b), n, p)
<1>1. /\ Len(s) \in Nat /\ Len(Append(s, b)) = Len(s) + 1
      /\ \A i \in 1..Len(s) : Append(s, b)[i] = s[i]
      /\ Append(s, b)[Len(s) + 1] = b
  BY Appended
<1>2. \A i \in 1..(Len(s) + 1) : i \in 1..Len(s) \/ (i = Len(s) + 1 /\ p + i = p + Len(s) + 1)
  BY <1>1
<1> QED
  BY <1>1, <1>2 DEF Consecutive

LEMMA PlacedAlone ==
  ASSUME NEW b \in Byte, NEW n, NEW p \in Int, b = [frame |-> n, place |-> p + 1]
  PROVE  Consecutive(<<b>>, n, p)
<1>1. \A i \in 1..1 : i = 1
  OBVIOUS
<1> QED
  BY <1>1, Single DEF Consecutive

LEMMA StoreKeeps ==
  ASSUME TypeOK, Sending, Store, sent' = sent
  PROVE  Gone' = Gone /\ Sending'
<1>1. UartTypeOK /\ sent \in Nat
  BY DEF TypeOK
<1>2. /\ writer = "store" /\ register = <<>> /\ txBuffer = <<>>
      /\ register' = <<Head(outgoing)>> /\ txBuffer' = <<>>
      /\ outgoing' = Tail(outgoing) /\ writer' \in {"idle", "test"}
  BY DEF Store, Written, Sending
<1>3. Rest = outgoing /\ Rest # <<>> /\ Rest' = Tail(Rest)
  BY <1>1, <1>2, RestType DEF Rest
<1>4. /\ Len(Rest) \in Nat \ {0} /\ Len(Rest') = Len(Rest) - 1 /\ Len(register) = 0
      /\ Len(txBuffer) = 0 /\ Len(register') = 1 /\ Len(txBuffer') = 0 /\ Gone \in Int /\ Gone >= 0
  <2>1. Head(outgoing) \in Byte
    BY <1>1, <1>3, HeadTail DEF UartTypeOK
  <2> QED
    BY <2>1, <1>1, <1>2, <1>3, RestType, HeadTail, Nothing, Single DEF Sending
<1>5. Gone' = Gone
  BY <1>4, CurrentLength DEF Gone, Current
<1>6. Consecutive(Rest, sent, Gone)
  BY <1>4 DEF Sending
<1>7. Head(Rest) = [frame |-> sent, place |-> Gone + 1] /\ Consecutive(Tail(Rest), sent, Gone + 1)
  BY <1>1, <1>3, <1>4, <1>6, RestType, Placed
<1>8. Consecutive(register', sent, Gone)
  BY <1>1, <1>2, <1>3, <1>4, <1>7, RestType, HeadTail, PlacedAlone
<1>9. Consecutive(Rest', sent, Gone + Len(register') + Len(txBuffer'))
  BY <1>3, <1>4, <1>7
<1> QED
  BY <1>2, <1>4, <1>5, <1>8, <1>9, Nothing DEF Sending, Current, Consecutive

\* The queue has room: the first byte of the frame went ahead of it.
LEMMA PushFits ==
  ASSUME TypeOK, Sending, writer = "push"
  PROVE  Len(txBuffer) < TxCapacity
<1>1. UartTypeOK
  BY DEF TypeOK
<1>2. Len(Rest) >= 1
  BY <1>1, RestType, Nothing
<1>3. Gone + Len(register) >= 1
  BY DEF Sending
<1>4. Current \in Nat /\ Current <= TxCapacity
  BY CurrentLength DEF TypeOK
<1> QED
  BY <1>1, <1>2, <1>3, <1>4, RestType, TxCapacityType

LEMMA PushKeeps ==
  ASSUME TypeOK, Sending, Push, sent' = sent
  PROVE  Gone' = Gone /\ Sending'
<1>1. UartTypeOK /\ sent \in Nat
  BY DEF TypeOK
<1>2. /\ writer = "push" /\ register' = register
      /\ txBuffer' = Append(txBuffer, Head(outgoing))
      /\ outgoing' = outgoing /\ writer' = "enable"
  BY PushFits DEF Push
<1>3. Rest = outgoing /\ Rest # <<>> /\ Rest' = Tail(Rest)
  BY <1>1, <1>2, RestType DEF Rest
<1>4. /\ Head(Rest) \in Byte /\ Len(Rest) \in Nat \ {0} /\ Len(Rest') = Len(Rest) - 1
      /\ txBuffer \in Seq(Byte) /\ Len(txBuffer) \in Nat /\ Len(txBuffer') = Len(txBuffer) + 1
      /\ Len(register) \in 0..1 /\ Gone \in Int /\ txBuffer' # <<>>
  <2>1. Head(Rest) \in Byte /\ Len(Rest) \in Nat \ {0} /\ Len(Rest') = Len(Rest) - 1
    BY <1>1, <1>3, RestType, HeadTail
  <2>2. txBuffer \in Seq(Byte) /\ txBuffer' = Append(txBuffer, Head(Rest))
    BY <1>1, <1>2, <1>3 DEF UartTypeOK
  <2>3. txBuffer' \in Seq(Byte) /\ Len(txBuffer') = Len(txBuffer) + 1 /\ Len(txBuffer) \in Nat
    BY <2>1, <2>2, Appended
  <2>4. txBuffer' # <<>>
    BY <2>3, Nothing
  <2> QED
    BY <1>1, <2>1, <2>2, <2>3, <2>4, RestType
<1>5. Gone' = Gone
  BY <1>2, <1>4, CurrentLength DEF Gone, Current
<1>6. /\ Head(Rest) = [frame |-> sent, place |-> Gone + Len(register) + Len(txBuffer) + 1]
      /\ Consecutive(Tail(Rest), sent, Gone + Len(register) + Len(txBuffer) + 1)
  <2>1. PICK q \in Int : q = Gone + Len(register) + Len(txBuffer)
    BY <1>4
  <2>2. Consecutive(Rest, sent, q)
    BY <2>1 DEF Sending
  <2>3. /\ Head(Rest) = [frame |-> sent, place |-> q + 1]
        /\ Consecutive(Tail(Rest), sent, q + 1)
    BY <1>1, <1>3, <2>2, RestType, Placed
  <2> QED
    BY <2>1, <2>3
<1>7. Consecutive(txBuffer', sent, Gone + Len(register))
  <2>1. PICK q \in Int : q = Gone + Len(register)
    BY <1>4
  <2>2. Consecutive(txBuffer, sent, q)
    BY <2>1 DEF Sending
  <2>3. Head(Rest) = [frame |-> sent, place |-> q + Len(txBuffer) + 1]
    BY <1>6, <2>1
  <2>4. Consecutive(Append(txBuffer, Head(Rest)), sent, q)
    BY <1>1, <1>4, <2>2, <2>3, PlacedBehind
  <2> QED
    BY <1>2, <1>3, <2>1, <2>4
<1>8. Consecutive(Rest', sent, Gone + Len(register) + Len(txBuffer'))
  <2>1. Gone + Len(register) + Len(txBuffer') = Gone + Len(register) + Len(txBuffer) + 1
    BY <1>4
  <2> QED
    BY <1>3, <1>6, <2>1
<1>9. Gone + Len(register) >= 1
  BY <1>2 DEF Sending
<1> QED
  BY <1>2, <1>5, <1>7, <1>8, <1>9 DEF Sending, Current, Consecutive

\* The handler moves the first queued byte into the empty register.
LEMMA TransmitKeeps ==
  ASSUME TypeOK, Sending, TransmitPart, sent' = sent
  PROVE  Gone' = Gone /\ Sending'
<1>1. UartTypeOK /\ sent \in Nat
  BY DEF TypeOK
<1>2. register = <<>> /\ writer' = writer /\ Rest' = Rest
  BY DEF TransmitPart, TransmitRegisterEmpty, Rest
<1>3. CASE txBuffer = <<>>
  <2>1. register' = register /\ txBuffer' = txBuffer
    BY <1>3 DEF TransmitPart
  <2>2. Gone' = Gone
    BY <1>2, <2>1 DEF Gone, Current
  <2> QED
    BY <1>2, <2>1, <2>2 DEF Sending, Current, Consecutive
<1>4. CASE txBuffer # <<>>
  <2>1. /\ register' = <<Head(txBuffer)>> /\ txBuffer' = Tail(txBuffer)
        /\ txBuffer \in Seq(Byte)
    BY <1>1, <1>4 DEF TransmitPart, UartTypeOK
  <2>2. /\ Len(register) = 0 /\ Len(register') = 1 /\ Head(txBuffer) \in Byte
        /\ Len(txBuffer) \in Nat \ {0} /\ Len(txBuffer') = Len(txBuffer) - 1
        /\ Len(Rest) \in Nat /\ Gone \in Int
    BY <1>1, <1>2, <1>4, <2>1, HeadTail, RestType, Nothing, Single
  <2>3. Gone' = Gone
    BY <1>2, <2>2, CurrentLength DEF Gone, Current
  <2>4. writer \notin {"testRegister", "store"} /\ Gone >= 0
    BY <1>4 DEF Sending
  <2>5. Consecutive(txBuffer, sent, Gone)
    BY <2>2 DEF Sending
  <2>6. /\ Head(txBuffer) = [frame |-> sent, place |-> Gone + 1]
        /\ Consecutive(Tail(txBuffer), sent, Gone + 1)
    BY <1>1, <1>4, <2>1, <2>2, <2>5, Placed
  <2>7. Consecutive(register', sent, Gone)
    BY <2>1, <2>2, <2>6, PlacedAlone
  <2>8. Consecutive(txBuffer', sent, Gone + Len(register'))
    BY <2>1, <2>2, <2>6
  <2>9. Gone + Len(register') + Len(txBuffer') = Gone + Len(register) + Len(txBuffer)
    BY <2>2
  <2>10. Consecutive(Rest', sent, Gone + Len(register') + Len(txBuffer'))
    BY <1>2, <2>9 DEF Sending
  <2>11. Gone + Len(register') >= 1
    BY <2>2, <2>4
  <2> QED
    BY <1>2, <2>3, <2>4, <2>7, <2>8, <2>10, <2>11 DEF Sending, Current, Consecutive
<1> QED
  BY <1>3, <1>4

\* The register's byte is the next of its frame, and leaves.
LEMMA ShiftMoves ==
  ASSUME TypeOK, Sending, Shift, sent' = sent
  PROVE  /\ sent \in 1..MaxFrames /\ Gone + 1 \in 1..FrameLength(sent)
         /\ register[1] = [frame |-> sent, place |-> Gone + 1]
         /\ Gone' = Gone + 1 /\ Sending'
<1>1. UartTypeOK /\ sent \in 0..MaxFrames /\ MaxFrames \in Nat
  BY BoundTypes DEF TypeOK
<1>2. /\ register # <<>> /\ register' = <<>> /\ txBuffer' = txBuffer
      /\ writer' = writer /\ Rest' = Rest
  BY DEF Shift, TransmitRegisterEmpty, Rest
<1>3. Len(register) = 1 /\ Len(register') = 0 /\ Gone \in Int /\ Gone >= 0
  BY <1>1, <1>2, RestType, Nothing DEF Sending, UartTypeOK
<1>4. Len(txBuffer) \in Nat /\ Len(Rest) \in Nat /\ Gone + 1 + Len(txBuffer) + Len(Rest) = Current
  BY <1>1, <1>3, RestType
<1>5. Gone' = Gone + 1
  BY <1>2, <1>3, <1>4, CurrentLength DEF Gone, Current
<1>6. sent \in 1..MaxFrames /\ Gone + 1 \in 1..FrameLength(sent)
  <2>1. Gone + 1 <= Current /\ Gone + 1 >= 1 /\ Current \in Nat
    BY <1>1, <1>3, <1>4, CurrentLength
  <2>2. sent # 0
    BY <1>1, <1>3, <2>1, CurrentLength
  <2>3. sent \in 1..MaxFrames /\ Current = FrameLength(sent)
    BY <1>1, <2>2, CurrentLength
  <2> QED
    BY <1>3, <2>1, <2>3
<1>7. register[1] = [frame |-> sent, place |-> Gone + 1]
  BY <1>3 DEF Sending, Current, Consecutive
<1>8. Consecutive(txBuffer, sent, Gone + 1) /\ Consecutive(Rest, sent, Gone + 1 + Len(txBuffer))
  BY <1>3 DEF Sending
<1>9. Gone + 1 + 0 = Gone + 1
  BY <1>3
<1>10. Gone + 1 >= 1
  BY <1>3
<1>11. writer # "store"
  BY <1>2 DEF Sending
<1> QED
  BY <1>2, <1>3, <1>5, <1>6, <1>7, <1>8, <1>9, <1>10, <1>11, Nothing DEF Sending, Current, Consecutive

LEMMA SendStarts ==
  ASSUME TypeOK, Send
  PROVE  /\ sent \in Nat /\ sent' = sent + 1 /\ sent' \in 1..MaxFrames
         /\ Gone' = 0 /\ Sending' /\ UartTypeOK'
<1>1. sent \in Nat /\ sent' = sent + 1 /\ sent' \in 1..MaxFrames
  BY BoundTypes DEF TypeOK, Send
<1>2. /\ outgoing' = Frame(sent') /\ writer' = "test"
      /\ txBuffer' = <<>> /\ register' = <<>> /\ txEmpty' = txEmpty
  BY DEF Send, Write, isWriteFinished, TransmitRegisterEmpty
<1>3. /\ outgoing' \in Seq(Byte) /\ Len(outgoing') = FrameLength(sent')
      /\ Consecutive(outgoing', sent', 0)
  BY <1>1, <1>2, FrameType
<1>4. FrameLength(sent') \in Nat /\ FrameLength(sent') >= 1 /\ outgoing' # <<>>
  <2>1. FrameLength(sent') \in Nat /\ FrameLength(sent') >= 1
    BY <1>1, Lengths
  <2> QED
    BY <2>1, <1>3, Nothing
<1>5. Rest' = outgoing'
  BY <1>2 DEF Rest
<1>6. Gone' = 0
  <2>1. Len(register') = 0 /\ Len(txBuffer') = 0 /\ Len(Rest') = FrameLength(sent')
    BY <1>2, <1>3, <1>5, Nothing
  <2> QED
    BY <1>1, <2>1, <1>4 DEF Gone, Current
<1>7. UartTypeOK'
  BY <1>2, <1>3, <1>4, Nothing, TxCapacityType DEF UartTypeOK, TypeOK
<1>8. 0 + 0 = 0 /\ 0 + 0 + 0 = 0 /\ 0 \in 0..Current'
  BY <1>1, <1>4 DEF Current
<1> QED
  BY <1>1, <1>2, <1>3, <1>4, <1>5, <1>6, <1>7, <1>8, Nothing DEF Sending

\* The types of the UART.
LEMMA UartTypes ==
  ASSUME UartTypeOK, Writing \/ TransmitPart \/ Shift
  PROVE  UartTypeOK'
<1>1. CASE TestBuffer \/ TestRegister
  BY <1>1 DEF TestBuffer, TestRegister, UartTypeOK
<1>2. ASSUME outgoing # <<>>, Written
      PROVE  /\ outgoing' \in Seq(Byte) /\ writer' \in {"idle", "test"}
             /\ (writer' = "idle" <=> outgoing' = <<>>)
  <2>1. /\ outgoing' = Tail(outgoing) /\ outgoing \in Seq(Byte)
        /\ writer' = IF Len(outgoing) = 1 THEN "idle" ELSE "test"
    BY <1>2 DEF Written, UartTypeOK
  <2>2. /\ outgoing' \in Seq(Byte) /\ Len(outgoing') = Len(outgoing) - 1
        /\ Len(outgoing) \in Nat \ {0}
    BY <1>2, <2>1, HeadTail
  <2>3. outgoing' # <<>> <=> Len(outgoing') >= 1
    BY <2>2, Nothing
  <2>4. outgoing' # <<>> <=> Len(outgoing) # 1
    BY <2>2, <2>3
  <2> QED
    BY <2>1, <2>2, <2>4
<1>3. CASE Store
  <2>1. outgoing # <<>> /\ outgoing \in Seq(Byte) /\ Written
    BY <1>3 DEF Store, UartTypeOK
  <2>2. register' = <<Head(outgoing)>> /\ UNCHANGED <<txBuffer, txEmpty>>
    BY <1>3 DEF Store
  <2>3. register' \in Seq(Byte) /\ Len(register') = 1
    BY <2>1, <2>2, HeadTail, Single
  <2> QED
    BY <1>2, <2>1, <2>2, <2>3 DEF UartTypeOK
<1>4. CASE Push
  <2>1. outgoing # <<>> /\ outgoing \in Seq(Byte) /\ Head(outgoing) \in Byte
    BY <1>4, HeadTail DEF Push, UartTypeOK
  <2>2. CASE Len(txBuffer) < TxCapacity
    <3>1. /\ txBuffer' = Append(txBuffer, Head(outgoing)) /\ writer' = "enable"
          /\ UNCHANGED <<outgoing, register, txEmpty>>
      BY <1>4, <2>2 DEF Push
    <3>2. /\ txBuffer' \in Seq(Byte) /\ Len(txBuffer) \in Nat /\ Len(txBuffer') = Len(txBuffer) + 1
      BY <2>1, <3>1, Appended DEF UartTypeOK
    <3>3. Len(txBuffer') <= TxCapacity
      BY <2>2, <3>2, TxCapacityType
    <3> QED
      BY <2>1, <3>1, <3>2, <3>3 DEF UartTypeOK
  <2>3. CASE ~(Len(txBuffer) < TxCapacity)
    BY <1>4, <2>3, Nothing DEF Push, UartTypeOK
  <2> QED
    BY <2>2, <2>3
<1>5. CASE EnableInterrupt
  <2>1. outgoing # <<>> /\ Written /\ UNCHANGED <<txBuffer, register>> /\ txEmpty' = TRUE
    BY <1>5 DEF EnableInterrupt, UartTypeOK
  <2> QED
    BY <1>2, <2>1 DEF UartTypeOK
<1>6. CASE TransmitPart
  <2>1. CASE txBuffer = <<>>
    BY <1>6, <2>1 DEF TransmitPart, UartTypeOK
  <2>2. CASE txBuffer # <<>>
    <3>1. /\ txBuffer \in Seq(Byte) /\ txBuffer' = Tail(txBuffer)
          /\ register' = <<Head(txBuffer)>> /\ UNCHANGED <<outgoing, writer, txEmpty>>
          /\ Len(txBuffer) <= TxCapacity
      BY <1>6, <2>2 DEF TransmitPart, UartTypeOK
    <3>2. /\ txBuffer' \in Seq(Byte) /\ Len(txBuffer) \in Nat /\ Len(txBuffer') = Len(txBuffer) - 1
          /\ register' \in Seq(Byte) /\ Len(register') = 1
      BY <2>2, <3>1, HeadTail, Single
    <3>3. Len(txBuffer') <= TxCapacity
      BY <3>1, <3>2, TxCapacityType
    <3> QED
      BY <3>1, <3>2, <3>3 DEF UartTypeOK
  <2> QED
    BY <2>1, <2>2
<1>7. CASE Shift
  BY <1>7, Nothing DEF Shift, UartTypeOK
<1> QED
  BY <1>1, <1>3, <1>4, <1>5, <1>6, <1>7 DEF Writing

\* Queued bytes keep the interrupt on.
LEMMA InterruptKept ==
  ASSUME UartTypeOK, InterruptOn, Writing \/ TransmitPart \/ Shift
  PROVE  InterruptOn'
<1>1. CASE TestBuffer \/ TestRegister \/ Shift
  BY <1>1 DEF TestBuffer, TestRegister, Shift, InterruptOn
<1>2. CASE Store \/ EnableInterrupt
  BY <1>2 DEF Store, EnableInterrupt, Written, InterruptOn
<1>3. CASE Push
  BY <1>3 DEF Push, InterruptOn
<1>4. CASE TransmitPart
  <2>1. CASE txBuffer = <<>>
    BY <1>4, <2>1 DEF TransmitPart, InterruptOn
  <2>2. CASE txBuffer # <<>>
    BY <1>4, <2>2 DEF TransmitPart, InterruptOn
  <2> QED
    BY <2>1, <2>2
<1> QED
  BY <1>1, <1>2, <1>3, <1>4 DEF Writing

LEMMA Undisturbed ==
  ASSUME Inv, UartTypeOK', Sending', InterruptOn', sent' = sent, Gone' = Gone,
         UNCHANGED <<errors, harmed, receiver>>
  PROVE  Inv'
<1>1. /\ rxBuffer' = rxBuffer /\ rxState' = rxState /\ frameHeader' = frameHeader
      /\ data' = data /\ delivered' = delivered /\ errors' = errors /\ harmed' = harmed
  BY DEF receiver
<1>2. TypeOK'
  BY <1>1 DEF Inv, TypeOK
<1>3. Parsing' /\ InOrder(frameHeader, data, rxBuffer)'
  BY <1>1 DEF Inv, Parsing, InOrder, Ordered, AllBefore
<1>4. \A b : Received(b)' <=> Received(b)
  BY <1>1 DEF Received, Within3, Within
<1>5. OnlySent'
  BY <1>4 DEF Inv, OnlySent
<1>6. Missing'
  BY <1>1, <1>4 DEF Inv, Missing
<1>7. Behind'
  BY <1>1, <1>4 DEF Inv, Behind, Current
<1>8. OnlyWholeFrames'
  BY <1>1 DEF Inv, OnlyWholeFrames
<1> QED
  BY <1>2, <1>3, <1>5, <1>6, <1>7, <1>8 DEF Inv

LEMMA SenderKeeps ==
  ASSUME Inv, Sender
  PROVE  Inv'
<1>1. TypeOK /\ UartTypeOK /\ Sending /\ InterruptOn
  BY DEF Inv, TypeOK
<1>2. CASE (Writing \/ TransmitPart) /\ UNCHANGED <<sent, errors, harmed, receiver>>
  <2>1. UartTypeOK' /\ InterruptOn'
    BY <1>1, <1>2, UartTypes, InterruptKept
  <2>2. Gone' = Gone /\ Sending'
    BY <1>1, <1>2, TestsKeep, StoreKeeps, PushKeeps, TransmitKeeps DEF Writing
  <2> QED
    BY <1>2, <2>1, <2>2, Undisturbed
<1>3. CASE Send
  <2>1. /\ sent \in Nat /\ sent' = sent + 1 /\ sent' \in 1..MaxFrames
        /\ Gone' = 0 /\ Sending' /\ UartTypeOK'
    BY <1>1, <1>3, SendStarts
  <2>2. /\ rxBuffer' = rxBuffer /\ rxState' = rxState /\ frameHeader' = frameHeader
        /\ data' = data /\ delivered' = delivered /\ errors' = errors /\ harmed' = harmed
        /\ txBuffer' = <<>>
    BY <1>3 DEF Send, receiver, Write, isWriteFinished
  <2>3. TypeOK'
    BY <1>1, <2>1, <2>2, BoundTypes DEF TypeOK
  <2>4. Parsing' /\ InOrder(frameHeader, data, rxBuffer)'
    BY <2>2 DEF Inv, Parsing, InOrder, Ordered, AllBefore
  <2>5. \A b : Received(b)' <=> Received(b)
    BY <2>2 DEF Received, Within3, Within
  <2>6. \A n \in Int : n <= sent => n < sent'
    BY <2>1
  <2>7. OnlySent'
    <3>1. \A b \in Byte : Received(b) /\ Genuine(b) => b.frame <= sent
      BY <2>1, ByteFacts DEF Inv, OnlySent
    <3> QED
      BY <2>5, <2>6, <3>1, ByteFacts DEF OnlySent
  <2>8. \A n \in harmed : n \in Int /\ n <= sent
    BY <1>1 DEF Inv, TypeOK, Missing
  <2>9. Missing'
    <3>1. \A n \in harmed : n <= sent' /\ n # sent'
      BY <2>1, <2>6, <2>8
    <3> QED
      BY <2>2, <2>5, <3>1 DEF Inv, Missing
  <2>10. \A k \in 1..Len(delivered) : delivered[k] \in 1..sent
    BY DEF Inv, OnlyWholeFrames
  <2>11. \A k \in 1..Len(delivered) : delivered[k] \in 1..sent' /\ delivered[k] # sent'
    BY <2>1, <2>10
  <2>12. Behind'
    BY <2>2, <2>5, <2>11 DEF Inv, Behind
  <2>13. OnlyWholeFrames'
    BY <2>2, <2>11 DEF Inv, OnlyWholeFrames
  <2>14. InterruptOn'
    BY <2>2 DEF InterruptOn
  <2> QED
    BY <2>1, <2>3, <2>4, <2>7, <2>9, <2>12, <2>13, <2>14 DEF Inv
<1> QED
  BY <1>2, <1>3 DEF Sender

-----------------------------------------------------------------------------
(* The line.                                                               *)

\* The byte that leaves the register, x, arrives, or noise or nothing instead;
\* its frame counts as harmed if it does not.
LEMMA ByteOnLine ==
  ASSUME Inv, Shift, UNCHANGED <<sent, rxState, frameHeader, data, delivered>>,
         errors' \in 0..MaxErrors,
         NEW x \in Byte, x = register[1],
         NEW b \in Byte, b = x \/ ~Genuine(b),
         \/ rxBuffer' = rxBuffer
         \/ rxBuffer' = Append(rxBuffer, b) /\ Len(rxBuffer) < RxCapacity,
         \/ harmed' = harmed
         \/ harmed' = harmed \cup {sent} /\ (rxBuffer' = rxBuffer \/ ~Genuine(b))
  PROVE  Inv'
<1>1. TypeOK /\ UartTypeOK /\ Sending /\ InterruptOn
  BY DEF Inv, TypeOK
<1>2. /\ sent \in 1..MaxFrames /\ Gone + 1 \in 1..FrameLength(sent)
      /\ x = [frame |-> sent, place |-> Gone + 1]
      /\ Gone' = Gone + 1 /\ Sending' /\ Gone \in Int /\ sent \in Int
  BY <1>1, ShiftMoves, RestType
<1>3. UartTypeOK' /\ InterruptOn'
  BY <1>1, UartTypes, InterruptKept
<1>4. rxBuffer \in Seq(Byte) /\ data \in Seq(Byte) /\ frameHeader \in Seq(Byte)
  BY <1>1 DEF TypeOK
<1>5. x.frame = sent /\ x.place = Gone + 1 /\ Genuine(x)
  BY <1>2, ByteFacts
<1>6. TypeOK'
  <2>1. rxBuffer' \in Seq(Byte) /\ Len(rxBuffer') <= RxCapacity
    <3>1. CASE rxBuffer' = rxBuffer
      BY <1>1, <3>1 DEF TypeOK
    <3>2. CASE rxBuffer' = Append(rxBuffer, b) /\ Len(rxBuffer) < RxCapacity
      BY <1>4, <3>2, Appended, RxCapacityType
    <3> QED
      BY <3>1, <3>2
  <2>2. harmed' \in SUBSET (1..MaxFrames)
    BY <1>1, <1>2 DEF TypeOK
  <2> QED
    BY <1>1, <1>3, <2>1, <2>2 DEF TypeOK
<1>7. Parsing'
  BY DEF Inv, Parsing
<1>8. \A y \in Byte : Received(y) /\ Genuine(y) => Before(y, x)
  <2>1. \A y \in Byte : Received(y) /\ Genuine(y) =>
          y.frame < sent \/ (y.frame = sent /\ y.place < Gone + 1)
    BY <1>2, ByteFacts DEF Inv, OnlySent
  <2> QED
    BY <1>5, <2>1 DEF Before
<1>9. InOrder(frameHeader, data, rxBuffer)'
  <2>1. CASE rxBuffer' = rxBuffer
    BY <2>1 DEF Inv, InOrder, Ordered, AllBefore
  <2>2. CASE rxBuffer' = Append(rxBuffer, b)
    <3>1. \A y \in Byte : Within3(y, frameHeader, data, rxBuffer) /\ Genuine(y) /\ Genuine(b) => Before(y, b)
      BY <1>8 DEF Received
    <3>2. InOrder(frameHeader, data, Append(rxBuffer, b))
      BY <1>4, <3>1, AppendedInOrder DEF Inv
    <3>3. InOrder(frameHeader, data, rxBuffer)' <=> InOrder(frameHeader', data', rxBuffer')
      BY DEF InOrder, Ordered, AllBefore
    <3> QED
      BY <2>2, <3>2, <3>3
  <2> QED
    BY <2>1, <2>2
<1>10. \A y : Received(y)' => Received(y) \/ (rxBuffer' # rxBuffer /\ y = b)
  <2>1. \A y : Received(y)' <=> Within3(y, frameHeader, data, rxBuffer')
    BY DEF Received, Within3, Within
  <2>2. CASE rxBuffer' = rxBuffer
    BY <2>1, <2>2 DEF Received
  <2>3. CASE rxBuffer' # rxBuffer
    <3>1. \A y : Within(y, rxBuffer') => Within(y, rxBuffer) \/ y = b
      BY <1>4, <2>3, AppendedWithin
    <3> QED
      BY <2>1, <2>3, <3>1 DEF Received, Within3
  <2> QED
    BY <2>2, <2>3
<1>11. \A y : Received(y)' /\ Genuine(y) => Received(y) \/ y = x
  BY <1>10
<1>12. OnlySent'
  <2>1. \A y \in Byte : Received(y)' /\ Genuine(y) =>
          y.frame < sent \/ (y.frame = sent /\ y.place <= Gone + 1)
    <3>1. ASSUME NEW y \in Byte, Received(y), Genuine(y)
          PROVE  y.frame < sent \/ (y.frame = sent /\ y.place <= Gone + 1)
      BY <3>1, <1>2, ByteFacts DEF Inv, OnlySent
    <3>2. x.place <= Gone + 1
      BY <1>2, <1>5
    <3> QED
      BY <1>5, <1>11, <3>1, <3>2
  <2> QED
    BY <1>2, <2>1 DEF OnlySent
<1>13. Missing'
  <2>1. ASSUME NEW n \in harmed
        PROVE  /\ n <= sent
               /\ \E p \in 1..FrameLength(n) :
                    /\ ~Received([frame |-> n, place |-> p])'
                    /\ n = sent => p <= Gone + 1
    <3>1. n \in 1..MaxFrames /\ n <= sent
      BY <1>1 DEF Inv, Missing, TypeOK
    <3>2. PICK p \in Int : /\ p \in 1..FrameLength(n)
                           /\ ~Received([frame |-> n, place |-> p])
                           /\ n = sent => p <= Gone
      BY <3>1, Lengths DEF Inv, Missing
    <3>3. n = sent => p < Gone + 1
      BY <1>2, <3>2
    <3>4. /\ [frame |-> n, place |-> p] \in Byte /\ Genuine([frame |-> n, place |-> p])
          /\ [frame |-> n, place |-> p].frame = n /\ [frame |-> n, place |-> p].place = p
      BY <3>1, <3>2, ByteFacts
    <3>5. [frame |-> n, place |-> p] # x
      BY <1>2, <1>5, <3>2, <3>3, <3>4
    <3>6. ~Received([frame |-> n, place |-> p])'
      BY <1>11, <3>2, <3>4, <3>5
    <3> QED
      BY <1>2, <3>1, <3>2, <3>3, <3>6
  <2>2. CASE harmed' = harmed
    BY <1>2, <2>1, <2>2 DEF Missing
  <2>3. CASE harmed' = harmed \cup {sent} /\ (rxBuffer' = rxBuffer \/ ~Genuine(b))
    <3>1. ~Received(x)
      BY <1>2, <1>5, ByteFacts DEF Inv, OnlySent
    <3>2. ~Received(x)'
      BY <1>5, <1>10, <2>3, <3>1
    <3>3. /\ sent <= sent
          /\ \E p \in 1..FrameLength(sent) :
               /\ ~Received([frame |-> sent, place |-> p])'
               /\ sent = sent => p <= Gone + 1
      BY <1>2, <3>2
    <3> QED
      BY <1>2, <2>1, <2>3, <3>3 DEF Missing
  <2> QED
    BY <2>2, <2>3
<1>14. \A k \in 1..Len(delivered) : delivered[k] \in 1..sent /\ delivered[k] # sent /\ delivered[k] < sent
  <2>1. \A k \in 1..Len(delivered) : delivered[k] \in 1..sent
    BY DEF Inv, OnlyWholeFrames
  <2>2. Gone # Current
    BY <1>2, Lengths DEF Current
  <2> QED
    BY <1>2, <2>1, <2>2 DEF Inv, Behind
<1>15. Behind'
  <2>1. \A k \in 1..Len(delivered) :
          \A y \in Byte : Received(y)' /\ Genuine(y) => delivered[k] < y.frame
    BY <1>5, <1>11, <1>14 DEF Inv, Behind
  <2> QED
    BY <1>14, <2>1 DEF Behind
<1>16. OnlyWholeFrames'
  <2>1. \A k \in 1..Len(delivered) : delivered[k] \in (1..sent) \ harmed'
    BY <1>14 DEF Inv, OnlyWholeFrames
  <2> QED
    BY <2>1 DEF Inv, OnlyWholeFrames
<1> QED
  BY <1>2, <1>3, <1>6, <1>7, <1>9, <1>12, <1>13, <1>15, <1>16 DEF Inv

LEMMA LineKeeps ==
  ASSUME Inv, Line
  PROVE  Inv'
<1>1. TypeOK /\ Sending /\ UNCHANGED <<sent, rxState, frameHeader, data, delivered>> /\ Shift
  BY DEF Inv, Line, Intact, Harmed
<1>2. PICK x \in Byte : x = register[1] /\ x.frame = sent /\ sent # 0
  BY <1>1, ShiftMoves, ByteFacts
<1>3. Harm(register[1]) => harmed' = harmed \cup {sent}
  BY <1>2 DEF Harm
<1>4. CASE Intact
  <2>1. errors' \in 0..MaxErrors
    BY <1>1, <1>4 DEF Intact, TypeOK
  <2>2. CASE Len(rxBuffer) < RxCapacity
    BY <1>1, <1>2, <1>4, <2>1, <2>2, ByteOnLine DEF Intact, Arrive
  <2>3. CASE ~(Len(rxBuffer) < RxCapacity)
    BY <1>1, <1>2, <1>3, <1>4, <2>1, <2>3, ByteOnLine DEF Intact, Arrive
  <2> QED
    BY <2>2, <2>3
<1>5. CASE Harmed
  <2>1. errors' \in 0..MaxErrors /\ harmed' = harmed \cup {sent}
    BY <1>1, <1>3, <1>5, BoundTypes DEF Harmed, TypeOK
  <2>2. CASE rxBuffer' = rxBuffer
    BY <1>1, <1>2, <2>1, <2>2, ByteOnLine
  <2>3. CASE \E b \in {Noise, FalseHead} : Arrive(b) /\ rxBuffer' # rxBuffer
    <3>1. PICK b \in Byte : ~Genuine(b) /\ Arrive(b) /\ rxBuffer' # rxBuffer
      BY <2>3, ByteFacts
    <3>2. rxBuffer' = Append(rxBuffer, b) /\ Len(rxBuffer) < RxCapacity
      BY <3>1 DEF Arrive
    <3> QED
      BY <1>1, <1>2, <2>1, <3>1, <3>2, ByteOnLine
  <2> QED
    BY <1>5, <2>2, <2>3 DEF Harmed
<1> QED
  BY <1>4, <1>5 DEF Line

-----------------------------------------------------------------------------
(* The parser.                                                             *)

LEMMA SenderUnchanged ==
  ASSUME Sending, InterruptOn, UNCHANGED uartVars, sent' = sent
  PROVE  Gone' = Gone /\ Sending' /\ InterruptOn'
<1>1. /\ outgoing' = outgoing /\ writer' = writer /\ txBuffer' = txBuffer
      /\ register' = register /\ txEmpty' = txEmpty
  BY DEF uartVars
<1>2. Rest' = Rest /\ Gone' = Gone
  BY <1>1 DEF Rest, Gone, Current
<1>3. Sending'
  BY <1>1, <1>2 DEF Sending, Current, Consecutive
<1>4. InterruptOn'
  BY <1>1 DEF InterruptOn
<1> QED
  BY <1>2, <1>3, <1>4

\* Reading, and dropping what was read, only ever loses bytes.
LEMMA LessReceived ==
  ASSUME Inv, UNCHANGED <<uartVars, sent, errors, harmed>>,
         TypeOK', Parsing', InOrder(frameHeader', data', rxBuffer'),
         \A y : Received(y)' => Received(y),
         delivered' = delivered
  PROVE  Inv'
<1>1. Gone' = Gone /\ Sending' /\ InterruptOn'
  BY SenderUnchanged DEF Inv
<1>2. InOrder(frameHeader, data, rxBuffer)'
  BY DEF InOrder, Ordered, AllBefore
<1>3. OnlySent'
  BY <1>1 DEF Inv, OnlySent
<1>4. Missing'
  BY <1>1 DEF Inv, Missing
<1>5. Behind'
  BY <1>1 DEF Inv, Behind, Current
<1>6. OnlyWholeFrames'
  BY DEF Inv, OnlyWholeFrames
<1> QED
  BY <1>1, <1>2, <1>3, <1>4, <1>5, <1>6 DEF Inv

LEMMA UartUnchanged ==
  ASSUME TypeOK, UNCHANGED <<uartVars, sent, errors, harmed>>
  PROVE  UartTypeOK' /\ sent' \in 0..MaxFrames /\ errors' \in 0..MaxErrors /\ harmed' \in SUBSET (1..MaxFrames)
BY DEF TypeOK, UartTypeOK, uartVars

LEMMA ReceivedNext == \A y : Received(y)' <=> Within3(y, frameHeader', data', rxBuffer')
BY DEF Received, Within3, Within

LEMMA HeaderSearchKeeps ==
  ASSUME Inv, HeaderSearch, UNCHANGED <<uartVars, sent, errors, harmed>>
  PROVE  Inv'
<1>1. TypeOK /\ rxBuffer \in Seq(Byte) /\ Len(rxBuffer) \in Nat /\ Len(rxBuffer) <= RxCapacity
  BY Nothing DEF Inv, TypeOK
<1>2. /\ rxState = "SERIAL_HEADER_SEARCH" /\ frameHeader = <<>> /\ data = <<>>
      /\ data' = <<>> /\ delivered' = delivered
  BY DEF HeaderSearch, Inv, Parsing
<1>3. Ordered(rxBuffer)
  BY DEF Inv, InOrder
<1>4. CASE rxBuffer' = <<>> /\ UNCHANGED <<rxState, frameHeader>>
  <2>1. TypeOK'
    BY <1>1, <1>2, <1>4, UartUnchanged, Nothing, Lengths, RxCapacityType DEF TypeOK
  <2>2. Parsing'
    BY <1>2, <1>4 DEF Parsing
  <2>3. InOrder(frameHeader', data', rxBuffer')
    BY <1>2, <1>4, Nothing DEF InOrder
  <2>4. \A y : Received(y)' => Received(y)
    BY <1>2, <1>4, ReceivedNext, Nothing DEF Within3
  <2> QED
    BY <1>2, <2>1, <2>2, <2>3, <2>4, LessReceived
<1>5. CASE \E first \in 1..Len(rxBuffer) :
             /\ rxBuffer' = Without(rxBuffer, first)
             /\ frameHeader' = <<rxBuffer[first]>>
             /\ rxState' = "PROCESS_FRAME_HEADER"
  <2>1. PICK first \in 1..Len(rxBuffer) :
             /\ rxBuffer' = Without(rxBuffer, first)
             /\ frameHeader' = <<rxBuffer[first]>>
             /\ rxState' = "PROCESS_FRAME_HEADER"
    BY <1>5
  <2>2. first \in Nat /\ first <= Len(rxBuffer)
    BY <1>1
  <2>3. /\ rxBuffer' \in Seq(Byte) /\ Len(FirstBytes(rxBuffer, first)) = first
        /\ Cut(rxBuffer, FirstBytes(rxBuffer, first), rxBuffer')
    BY <1>1, <2>1, <2>2, Split
  <2>4. /\ Len(rxBuffer') \in Nat /\ Len(rxBuffer) = first + Len(rxBuffer')
        /\ \A i \in 1..Len(rxBuffer') : rxBuffer'[i] = rxBuffer[first + i]
    BY <2>3 DEF Cut
  <2>5. \A i \in 1..Len(rxBuffer') : first + i \in 1..Len(rxBuffer) /\ first < first + i
    BY <2>2, <2>4
  <2>6. PICK head \in Byte : head = rxBuffer[first]
    BY <1>1
  <2>7. frameHeader' \in Seq(Byte) /\ Len(frameHeader') = 1 /\ frameHeader'[1] = head
    BY <2>1, <2>6, Single
  <2>8. TypeOK'
    <3>1. Len(rxBuffer') <= RxCapacity /\ 1 <= FRAME_HEADER_LENGTH
      BY <1>1, <2>2, <2>4, RxCapacityType, Lengths
    <3> QED
      BY <1>1, <1>2, <2>1, <2>3, <2>7, <3>1, UartUnchanged, Nothing, Lengths DEF TypeOK
  <2>9. Parsing'
    BY <1>2, <2>1, <2>7, Nothing DEF Parsing
  <2>10. \A i \in 1..Len(frameHeader') : i = 1
    BY <2>7
  <2>11. Ordered(frameHeader')
    BY <2>10 DEF Ordered
  <2>12. Ordered(rxBuffer')
    <3>1. \A i, j \in 1..Len(rxBuffer') : i < j => first + i < first + j
      BY <2>2, <2>4
    <3> QED
      BY <1>3, <2>4, <2>5, <3>1 DEF Ordered
  <2>13. AllBefore(frameHeader', rxBuffer')
    BY <1>3, <2>4, <2>5, <2>6, <2>7, <2>10 DEF Ordered, AllBefore
  <2>14. InOrder(frameHeader', data', rxBuffer')
    BY <1>2, <2>11, <2>12, <2>13, Nothing DEF InOrder
  <2>15. \A y : Received(y)' => Received(y)
    <3>1. \A y : Within(y, rxBuffer') => Within(y, rxBuffer)
      BY <2>4, <2>5 DEF Within
    <3>2. \A y : Within(y, frameHeader') => Within(y, rxBuffer)
      BY <2>6, <2>7, <2>10 DEF Within
    <3> QED
      BY <1>2, <3>1, <3>2, ReceivedNext, Nothing DEF Received, Within3
  <2> QED
    BY <1>2, <2>8, <2>9, <2>14, <2>15, LessReceived
<1> QED
  BY <1>4, <1>5 DEF HeaderSearch

LEMMA FrameHeaderKeeps ==
  ASSUME Inv, FrameHeader, UNCHANGED <<uartVars, sent, errors, harmed>>
  PROVE  Inv'
<1>1. /\ TypeOK /\ rxBuffer \in Seq(Byte) /\ Len(rxBuffer) \in Nat /\ Len(rxBuffer) <= RxCapacity
      /\ frameHeader \in Seq(Byte) /\ Len(frameHeader) \in Nat
      /\ Len(frameHeader) <= FRAME_HEADER_LENGTH
  BY Nothing DEF Inv, TypeOK
<1>2. PICK missing \in Nat : missing = FRAME_HEADER_LENGTH - Len(frameHeader)
  BY <1>1, Lengths
<1>3. PICK f \in Seq(Byte) : f = FirstBytes(rxBuffer, missing)
  BY <1>1, Split
<1>4. PICK header \in Seq(Byte) : header = frameHeader \o f
  BY <1>1, Joined
<1>5. /\ rxState = "PROCESS_FRAME_HEADER" /\ rxBuffer' = Without(rxBuffer, missing)
      /\ \/ frameHeader' = <<>> /\ rxState' = "SERIAL_HEADER_SEARCH"
         \/ frameHeader' = header /\ rxState' = "PROCESS_FRAME_HEADER"
         \/ /\ frameHeader' = header /\ rxState' = "PROCESS_FRAME_DATA"
            /\ Len(header) = FRAME_HEADER_LENGTH
            /\ FromOneFrame(header, Crc8Length) /\ Acceptable(header[1].frame)
      /\ data' = data /\ delivered' = delivered /\ data = <<>> /\ frameHeader # <<>>
  BY <1>2, <1>3, <1>4 DEF FrameHeader, Inv, Parsing
<1>6. /\ rxBuffer' \in Seq(Byte) /\ Cut(rxBuffer, f, rxBuffer')
      /\ Len(f) = IF Len(rxBuffer) < missing THEN Len(rxBuffer) ELSE missing
      /\ Link(frameHeader, f, header)
  BY <1>1, <1>3, <1>4, <1>5, Split, Joined
<1>7. /\ Len(rxBuffer') <= RxCapacity /\ Len(header) <= FRAME_HEADER_LENGTH
      /\ Len(header) \in Nat /\ Len(header) >= Len(frameHeader)
  <2>1. Len(f) \in Nat /\ Len(rxBuffer') \in Nat /\ Len(f) <= missing
    BY <1>1, <1>2, <1>6 DEF Cut
  <2>2. Len(rxBuffer) = Len(f) + Len(rxBuffer') /\ Len(header) = Len(frameHeader) + Len(f)
    BY <1>6 DEF Cut, Link
  <2> QED
    BY <1>1, <1>2, <2>1, <2>2, RxCapacityType, Lengths
<1>8. header # <<>>
  BY <1>1, <1>5, <1>7, Nothing
<1>9. TypeOK'
  <2>1. frameHeader' \in Seq(Byte) /\ Len(frameHeader') <= FRAME_HEADER_LENGTH
    <3>1. CASE frameHeader' = <<>>
      <4>1. 0 <= FRAME_HEADER_LENGTH
        BY Lengths
      <4> QED
        BY <3>1, <4>1, Nothing
    <3>2. CASE frameHeader' = header
      BY <1>7, <3>2
    <3> QED
      BY <1>5, <3>1, <3>2
  <2>2. rxState' \in {"SERIAL_HEADER_SEARCH", "PROCESS_FRAME_HEADER", "PROCESS_FRAME_DATA"}
    BY <1>5
  <2> QED
    BY <1>1, <1>5, <1>6, <1>7, <2>1, <2>2, UartUnchanged DEF TypeOK
<1>10. Parsing'
  <2>1. ASSUME FromOneFrame(header, Crc8Length), Acceptable(header[1].frame)
        PROVE  \E n \in 1..MaxFrames : Announces(header, n) /\ Len(data) < BodyLength(n)
    <3>1. PICK n \in 1..MaxFrames : \A k \in 1..Crc8Length : header[k] = [frame |-> n, place |-> k]
      BY <2>1 DEF FromOneFrame
    <3>2. header[1] = [frame |-> n, place |-> 1]
      BY <3>1, Lengths
    <3>3. Acceptable(n) /\ Announces(header, n)
      BY <2>1, <3>2 DEF Announces
    <3>4. Len(data) = 0 /\ BodyLength(n) >= 1 /\ BodyLength(n) \in Nat
      BY <1>5, <3>3, Lengths, Nothing
    <3> QED
      BY <3>3, <3>4
  <2>2. CASE frameHeader' = <<>> /\ rxState' = "SERIAL_HEADER_SEARCH"
    BY <1>5, <2>2 DEF Parsing
  <2>3. CASE frameHeader' = header /\ rxState' = "PROCESS_FRAME_HEADER"
    BY <1>5, <1>8, <2>3 DEF Parsing
  <2>4. CASE /\ frameHeader' = header /\ rxState' = "PROCESS_FRAME_DATA"
             /\ Len(header) = FRAME_HEADER_LENGTH
             /\ FromOneFrame(header, Crc8Length) /\ Acceptable(header[1].frame)
    BY <1>5, <1>8, <2>1, <2>4 DEF Parsing
  <2> QED
    BY <1>5, <2>2, <2>3, <2>4
<1>11. Ordered(header) /\ Ordered(rxBuffer') /\ AllBefore(header, rxBuffer')
  <2>1. Ordered(frameHeader) /\ Ordered(rxBuffer) /\ AllBefore(frameHeader, rxBuffer)
    BY DEF Inv, InOrder
  <2>2. AllBefore(<<>>, frameHeader) /\ AllBefore(<<>>, rxBuffer)
    BY Nothing
  <2> QED
    BY <1>6, <2>1, <2>2, MovedInOrder
<1>12. InOrder(frameHeader', data', rxBuffer')
  BY <1>5, <1>11, Nothing DEF InOrder
<1>13. \A y : Received(y)' => Received(y)
  <2>1. \A y : /\ Within(y, header) => Within(y, frameHeader) \/ Within(y, rxBuffer)
               /\ Within(y, rxBuffer') => Within(y, rxBuffer)
    BY <1>6, MovedWithin
  <2> QED
    BY <1>5, <2>1, ReceivedNext, Nothing DEF Received, Within3
<1> QED
  BY <1>5, <1>9, <1>10, <1>12, <1>13, LessReceived

\* A body whose frame passes CRC16: every byte of frame n was received, and
\* whatever is left in the queue comes from a later frame.
LEMMA WholeFrame ==
  ASSUME TypeOK, InOrder(frameHeader, data, rxBuffer), Len(frameHeader) = FRAME_HEADER_LENGTH,
         NEW n \in 1..MaxFrames, Announces(frameHeader, n), Len(data) < BodyLength(n),
         NEW f \in Seq(Byte), NEW w \in Seq(Byte), Cut(rxBuffer, f, w),
         Len(f) = BodyLength(n) - Len(data),
         FromOneFrame(frameHeader \o (data \o f), FrameLength(n))
  PROVE  /\ \A p \in 1..FrameLength(n) : Received([frame |-> n, place |-> p])
         /\ \A y \in Byte : Within(y, w) /\ Genuine(y) => n < y.frame
<1>1. /\ rxBuffer \in Seq(Byte) /\ Len(rxBuffer) \in Nat
      /\ frameHeader \in Seq(Byte) /\ Len(frameHeader) \in Nat
      /\ data \in Seq(Byte) /\ Len(data) \in Nat /\ Len(data) < BodyLength(n)
  BY Nothing DEF TypeOK
<1>2. PICK body \in Seq(Byte) : body = data \o f
  BY <1>1, Joined
<1>3. PICK whole \in Seq(Byte) : whole = frameHeader \o body
  BY <1>1, Joined
<1>4. Link(data, f, body) /\ Link(frameHeader, body, whole)
  BY <1>1, <1>2, <1>3, Joined
<1>5. /\ Len(f) \in Nat \ {0} /\ Len(body) = BodyLength(n) /\ Len(whole) = FrameLength(n)
      /\ Len(data) + Len(f) = BodyLength(n)
  <2>1. Len(f) \in Nat /\ Len(body) = Len(data) + Len(f) /\ Len(whole) = Len(frameHeader) + Len(body)
    BY <1>4 DEF Link
  <2> QED
    BY <1>1, <2>1, Lengths
<1>6. \A k \in 1..FrameLength(n) : whole[k] = [frame |-> n, place |-> k]
  <2>1. PICK m \in 1..MaxFrames : \A k \in 1..FrameLength(n) : whole[k] = [frame |-> m, place |-> k]
    BY <1>2, <1>3 DEF FromOneFrame
  <2>2. 1 \in 1..FrameLength(n) /\ 1 \in 1..Len(frameHeader)
    BY Lengths
  <2>3. frameHeader[1] = [frame |-> m, place |-> 1]
    BY <1>4, <2>1, <2>2 DEF Link
  <2>4. m = n
    BY <2>3 DEF Announces
  <2> QED
    BY <2>1, <2>4
<1>8. \A p \in 1..FrameLength(n) : Received([frame |-> n, place |-> p])
  <2>1. ASSUME NEW p \in 1..FrameLength(n)
        PROVE  Received([frame |-> n, place |-> p])
    <3>1. Within([frame |-> n, place |-> p], whole)
      BY <1>5, <1>6 DEF Within
    <3>2. Within([frame |-> n, place |-> p], frameHeader) \/ Within([frame |-> n, place |-> p], body)
      BY <1>4, <3>1, LinkWithin
    <3>3. Within([frame |-> n, place |-> p], body) =>
            Within([frame |-> n, place |-> p], data) \/ Within([frame |-> n, place |-> p], f)
      BY <1>4, LinkWithin
    <3>4. Within([frame |-> n, place |-> p], f) => Within([frame |-> n, place |-> p], rxBuffer)
      BY <1>4, MovedWithin
    <3> QED
      BY <3>2, <3>3, <3>4 DEF Received, Within3
  <2> QED
    BY <2>1
<1>9. Len(f) \in 1..Len(rxBuffer) /\ rxBuffer[Len(f)] = [frame |-> n, place |-> FrameLength(n)]
  <2>1. Len(f) \in 1..Len(f) /\ Len(f) \in 1..Len(rxBuffer)
    BY <1>5 DEF Cut
  <2>2. f[Len(f)] = rxBuffer[Len(f)]
    BY <2>1 DEF Cut
  <2>3. body[Len(data) + Len(f)] = f[Len(f)]
    BY <1>4, <2>1 DEF Link
  <2>4. BodyLength(n) \in 1..Len(body)
    BY <1>5, Lengths
  <2>5. whole[Len(frameHeader) + BodyLength(n)] = body[BodyLength(n)]
    BY <1>4, <2>4 DEF Link
  <2>6. FrameLength(n) \in 1..FrameLength(n) /\ Len(frameHeader) + BodyLength(n) = FrameLength(n)
    BY Lengths
  <2> QED
    BY <1>5, <1>6, <2>1, <2>2, <2>3, <2>5, <2>6
<1>10. ASSUME NEW y \in Byte, Within(y, w), Genuine(y)
       PROVE  n < y.frame
  <2>1. PICK j \in 1..Len(w) : w[j] = y
    BY <1>10 DEF Within
  <2>2. Len(f) + j \in 1..Len(rxBuffer) /\ rxBuffer[Len(f) + j] = y /\ Len(f) < Len(f) + j
    <3>1. Len(f) \in Nat /\ Len(w) \in Nat /\ Len(rxBuffer) = Len(f) + Len(w)
      BY DEF Cut
    <3>2. rxBuffer[Len(f) + j] = w[j]
      BY <2>1 DEF Cut
    <3> QED
      BY <2>1, <3>1, <3>2
  <2>3. FrameLength(n) \in 1..FrameLength(n)
    BY Lengths
  <2>4. PICK x \in Byte : x = [frame |-> n, place |-> FrameLength(n)] /\ x.frame = n /\ x.place = FrameLength(n) /\ Genuine(x)
    BY <2>3, ByteFacts
  <2>5. Before(x, y)
    BY <1>9, <1>10, <2>2, <2>4 DEF InOrder, Ordered
  <2>6. y.frame = n => y.place <= FrameLength(n)
    BY <1>10, ByteFacts, Lengths
  <2> QED
    BY <2>4, <2>5, <2>6, ByteFacts, Lengths DEF Before
<1> QED
  BY <1>8, <1>10

\* Delivering a whole frame: it is later than all delivered before.
LEMMA DeliveryKeeps ==
  ASSUME Inv, UNCHANGED <<uartVars, sent, errors, harmed>>, TypeOK', Parsing',
         InOrder(frameHeader', data', rxBuffer'),
         frameHeader' = <<>>, data' = <<>>,
         NEW n \in 1..MaxFrames, delivered' = Append(delivered, n),
         \A p \in 1..FrameLength(n) : Received([frame |-> n, place |-> p]),
         \A y : Within(y, rxBuffer') => Within(y, rxBuffer),
         \A y \in Byte : Within(y, rxBuffer') /\ Genuine(y) => n < y.frame
  PROVE  Inv'
<1>1. Gone' = Gone /\ Sending' /\ InterruptOn' /\ sent' = sent /\ harmed' = harmed
  BY SenderUnchanged DEF Inv
<1>2. InOrder(frameHeader, data, rxBuffer)'
  BY DEF InOrder, Ordered, AllBefore
<1>3. \A y : Received(y)' => Within(y, rxBuffer') /\ Received(y)
  BY ReceivedNext, Nothing DEF Received, Within3
<1>4. OnlySent'
  BY <1>1, <1>3 DEF Inv, OnlySent
<1>5. Missing'
  BY <1>1, <1>3 DEF Inv, Missing
<1>6. sent \in Nat /\ Gone \in Int /\ Gone <= Current /\ Current \in Nat /\ n \in Nat /\ FrameLength(n) \in Nat
  BY Lengths, CurrentLength DEF Inv, TypeOK, Sending
<1>7. n <= sent /\ (n = sent => Gone = Current)
  <2>1. FrameLength(n) \in 1..FrameLength(n)
    BY Lengths
  <2>2. PICK x \in Byte : /\ x = [frame |-> n, place |-> FrameLength(n)] /\ Genuine(x)
                          /\ x.frame = n /\ x.place = FrameLength(n)
    BY <2>1, ByteFacts
  <2>3. n < sent \/ (n = sent /\ FrameLength(n) <= Gone)
    BY <2>1, <2>2 DEF Inv, OnlySent
  <2> QED
    BY <1>6, <2>3 DEF Current
<1>8. n \notin harmed
  BY DEF Inv, Missing
<1>9. \A k \in 1..Len(delivered) : delivered[k] < n
  <2>1. 1 \in 1..FrameLength(n)
    BY Lengths
  <2>2. /\ [frame |-> n, place |-> 1] \in Byte /\ Genuine([frame |-> n, place |-> 1])
        /\ [frame |-> n, place |-> 1].frame = n
    BY <2>1, ByteFacts
  <2> QED
    BY <2>1, <2>2 DEF Inv, Behind
<1>10. /\ Len(delivered) \in Nat /\ Len(delivered') = Len(delivered) + 1
       /\ delivered'[Len(delivered) + 1] = n
       /\ \A k \in 1..Len(delivered) : delivered'[k] = delivered[k]
  <2>1. delivered \in Seq(1..MaxFrames)
    BY DEF Inv, TypeOK
  <2> QED
    BY <2>1
<1>11. \A k \in 1..Len(delivered') : k \in 1..Len(delivered) \/ k = Len(delivered) + 1
  BY <1>10
<1>12. Behind'
  <2>1. ASSUME NEW k \in 1..Len(delivered')
        PROVE  /\ \A y \in Byte : Received(y)' /\ Genuine(y) => delivered'[k] < y.frame
               /\ delivered'[k] = sent => Gone = Current
    <3>1. CASE k \in 1..Len(delivered)
      BY <1>3, <1>10, <3>1 DEF Inv, Behind
    <3>2. CASE k = Len(delivered) + 1
      BY <1>3, <1>7, <1>10, <3>2
    <3> QED
      BY <1>11, <3>1, <3>2
  <2> QED
    BY <1>1, <2>1 DEF Behind, Current
<1>13. OnlyWholeFrames'
  <2>1. \A k \in 1..Len(delivered') : delivered'[k] \in (1..sent) \ harmed
    <3>1. n \in (1..sent) \ harmed
      BY <1>6, <1>7, <1>8
    <3>2. \A k \in 1..Len(delivered) : delivered[k] \in (1..sent) \ harmed
      BY DEF Inv, OnlyWholeFrames
    <3> QED
      BY <1>10, <1>11, <3>1, <3>2
  <2>2. ASSUME NEW k \in 1..Len(delivered') - 1
        PROVE  delivered'[k] < delivered'[k + 1]
    <3>1. k \in 1..Len(delivered)
      BY <1>10
    <3>2. CASE k = Len(delivered)
      BY <1>9, <1>10, <3>1, <3>2
    <3>3. CASE k # Len(delivered)
      <4>1. k \in 1..Len(delivered) - 1 /\ k + 1 \in 1..Len(delivered)
        BY <1>10, <3>1, <3>3
      <4> QED
        BY <1>10, <3>1, <4>1 DEF Inv, OnlyWholeFrames
    <3> QED
      BY <3>2, <3>3
  <2> QED
    BY <1>1, <2>1, <2>2 DEF OnlyWholeFrames
<1> QED
  BY <1>1, <1>2, <1>4, <1>5, <1>12, <1>13 DEF Inv

LEMMA FrameDataKeeps ==
  ASSUME Inv, FrameData, UNCHANGED <<uartVars, sent, errors, harmed>>
  PROVE  Inv'
<1>1. /\ TypeOK /\ rxBuffer \in Seq(Byte) /\ Len(rxBuffer) \in Nat /\ Len(rxBuffer) <= RxCapacity
      /\ data \in Seq(Byte) /\ Len(data) \in Nat
      /\ frameHeader \in Seq(Byte) /\ delivered \in Seq(1..MaxFrames)
  BY Nothing DEF Inv, TypeOK
<1>12. PICK n \in 1..MaxFrames :
        /\ Announces(frameHeader, n) /\ Len(data) < BodyLength(n)
        /\ frameHeader[1].frame = n
  BY DEF FrameData, Inv, Parsing, Announces
<1>13. /\ BodyLength(n) \in Nat /\ BodyLength(n) <= SERIAL_RX_BUFF_SIZE
  BY <1>12, Lengths DEF Announces
<1>2. PICK missing \in Nat : missing = BodyLength(n) - Len(data) /\ missing >= 1
  BY <1>1, <1>12, <1>13
<1>3. PICK f \in Seq(Byte) : f = FirstBytes(rxBuffer, missing)
  BY <1>1, Split
<1>4. PICK body \in Seq(Byte) : body = data \o f
  BY <1>1, Joined
<1>5. /\ rxState = "PROCESS_FRAME_DATA" /\ rxBuffer' = Without(rxBuffer, missing)
      /\ Len(frameHeader) = FRAME_HEADER_LENGTH /\ frameHeader # <<>>
  BY <1>2, <1>12 DEF FrameData, Inv, Parsing
<1>6. /\ rxBuffer' \in Seq(Byte) /\ Cut(rxBuffer, f, rxBuffer')
      /\ Len(f) = IF Len(rxBuffer) < missing THEN Len(rxBuffer) ELSE missing
      /\ Link(data, f, body)
  BY <1>1, <1>3, <1>4, <1>5, Split, Joined
<1>7. /\ Len(rxBuffer') <= RxCapacity /\ Len(body) \in Nat /\ Len(f) \in Nat
      /\ Len(body) = Len(data) + Len(f) /\ Len(f) <= missing
  <2>1. Len(f) \in Nat /\ Len(rxBuffer') \in Nat /\ Len(f) <= missing
    BY <1>1, <1>2, <1>6 DEF Cut
  <2>2. Len(rxBuffer) = Len(f) + Len(rxBuffer') /\ Len(body) = Len(data) + Len(f)
    BY <1>6 DEF Cut, Link
  <2> QED
    BY <1>1, <2>1, <2>2, RxCapacityType
<1>8. /\ Ordered(body) /\ Ordered(rxBuffer') /\ AllBefore(body, rxBuffer')
      /\ AllBefore(frameHeader, body) /\ AllBefore(frameHeader, rxBuffer') /\ Ordered(frameHeader)
  <2>1. /\ Ordered(data) /\ Ordered(rxBuffer) /\ AllBefore(data, rxBuffer) /\ Ordered(frameHeader)
        /\ AllBefore(frameHeader, data) /\ AllBefore(frameHeader, rxBuffer)
    BY DEF Inv, InOrder
  <2> QED
    BY <1>6, <2>1, MovedInOrder
<1>9. \A y : /\ Within(y, body) => Within(y, data) \/ Within(y, rxBuffer)
             /\ Within(y, rxBuffer') => Within(y, rxBuffer)
  BY <1>6, MovedWithin
<1>10. CASE Len(body) < BodyLength(n)
  <2>1. /\ data' = body /\ rxState' = rxState /\ frameHeader' = frameHeader
        /\ delivered' = delivered
    BY <1>2, <1>3, <1>4, <1>10, <1>12 DEF FrameData
  <2>2. TypeOK'
    <3>1. Len(data') <= SERIAL_RX_BUFF_SIZE
      BY <1>7, <1>10, <1>13, <2>1, SizeTypes
    <3> QED
      BY <1>1, <1>5, <1>6, <1>7, <2>1, <3>1, UartUnchanged DEF TypeOK
  <2>3. Parsing'
    BY <1>5, <1>10, <1>12, <2>1 DEF Parsing
  <2>4. InOrder(frameHeader', data', rxBuffer')
    BY <1>8, <2>1 DEF InOrder
  <2>5. \A y : Received(y)' => Received(y)
    BY <1>9, <2>1, ReceivedNext DEF Received, Within3
  <2> QED
    BY <2>1, <2>2, <2>3, <2>4, <2>5, LessReceived
<1>11. CASE ~(Len(body) < BodyLength(n))
  <2>1. /\ data' = <<>> /\ frameHeader' = <<>> /\ rxState' = "SERIAL_HEADER_SEARCH"
        /\ delivered' = IF FromOneFrame(frameHeader \o body, FrameLength(n))
                          THEN Append(delivered, n)
                          ELSE delivered
    BY <1>2, <1>3, <1>4, <1>11, <1>12 DEF FrameData
  <2>2. Parsing' /\ InOrder(frameHeader', data', rxBuffer')
    BY <1>8, <2>1, Nothing DEF Parsing, InOrder
  <2>3. \A y : Received(y)' => Received(y)
    BY <1>9, <2>1, ReceivedNext, Nothing DEF Received, Within3
  <2>4. /\ data' \in Seq(Byte) /\ Len(data') <= SERIAL_RX_BUFF_SIZE /\ frameHeader' \in Seq(Byte)
        /\ Len(frameHeader') <= FRAME_HEADER_LENGTH
    <3>1. 0 <= SERIAL_RX_BUFF_SIZE /\ 0 <= FRAME_HEADER_LENGTH
      BY Lengths, SizeTypes
    <3> QED
      BY <2>1, <3>1, Nothing
  <2>5. delivered' \in Seq(1..MaxFrames) => TypeOK'
    BY <1>1, <1>6, <1>7, <2>1, <2>4, UartUnchanged DEF TypeOK
  <2>6. CASE FromOneFrame(frameHeader \o body, FrameLength(n))
    <3>1. Len(f) = BodyLength(n) - Len(data)
      BY <1>1, <1>2, <1>7, <1>11, <1>13
    <3>2. /\ \A p \in 1..FrameLength(n) : Received([frame |-> n, place |-> p])
          /\ \A y \in Byte : Within(y, rxBuffer') /\ Genuine(y) => n < y.frame
      BY <1>1, <1>4, <1>5, <1>6, <1>12, <2>6, <3>1, WholeFrame DEF Inv
    <3>3. delivered' = Append(delivered, n)
      BY <2>1, <2>6
    <3>4. delivered' \in Seq(1..MaxFrames)
      BY <1>1, <3>3
    <3> QED
      BY <1>9, <2>1, <2>2, <2>5, <3>2, <3>3, <3>4, DeliveryKeeps
  <2>7. CASE ~FromOneFrame(frameHeader \o body, FrameLength(n))
    BY <1>1, <2>1, <2>2, <2>3, <2>5, <2>7, LessReceived
  <2> QED
    BY <2>6, <2>7
<1> QED
  BY <1>10, <1>11

-----------------------------------------------------------------------------
(* Theorems.                                                               *)

LEMMA InitInv == Init => Inv
<1> SUFFICES ASSUME Init PROVE Inv
  OBVIOUS
<1>1. /\ outgoing = <<>> /\ writer = "idle" /\ txBuffer = <<>> /\ register = <<>>
      /\ txEmpty = FALSE /\ sent = 0 /\ errors = 0 /\ harmed = {} /\ rxBuffer = <<>>
      /\ rxState = "SERIAL_HEADER_SEARCH" /\ frameHeader = <<>> /\ data = <<>>
      /\ delivered = <<>>
  BY DEF Init, UartInit
<1>2. /\ 0 <= TxCapacity /\ 0 <= RxCapacity /\ 0 <= FRAME_HEADER_LENGTH /\ 0 <= SERIAL_RX_BUFF_SIZE
      /\ 0 \in 0..MaxFrames /\ 0 \in 0..MaxErrors 
  BY TxCapacityType, RxCapacityType, Lengths, BoundTypes, SizeTypes
<1>3. UartTypeOK
  <2>1. <<>> \in Seq(Byte) /\ Len(<<>>) = 0
    BY Nothing
  <2> QED
    <3>1. txBuffer \in Seq(Byte) /\ Len(txBuffer) <= TxCapacity
      BY <1>1, <1>2, <2>1
    <3>2. register \in Seq(Byte) /\ Len(register) <= 1
      BY <1>1, <2>1
    <3>3. outgoing \in Seq(Byte) /\ (writer = "idle" <=> outgoing = <<>>)
      BY <1>1, <2>1
    <3> QED
      BY <1>1, <3>1, <3>2, <3>3 DEF UartTypeOK
<1>4. TypeOK
  BY <1>1, <1>2, <1>3, Nothing DEF TypeOK
<1>5. Gone = 0 /\ Current = 0
  <2>1. Len(register) = 0 /\ Len(txBuffer) = 0 /\ Len(Rest) = 0
    BY <1>1, Nothing DEF Rest
  <2>2. Current = 0
    BY <1>1 DEF Current
  <2> QED
    BY <2>1, <2>2 DEF Gone
<1>6. Sending
  BY <1>1, <1>2, <1>5, Nothing DEF Sending, Rest
<1>7. \A y : ~Received(y)
  BY <1>1, Nothing DEF Received, Within3
<1>8. Parsing /\ InOrder(frameHeader, data, rxBuffer)
  BY <1>1, Nothing DEF Parsing, InOrder
<1>9. OnlySent /\ Missing
  BY <1>1, <1>7 DEF OnlySent, Missing
<1>10. \A k \in 1..Len(delivered) : FALSE
  BY <1>1
<1>11. Behind
  BY <1>10 DEF Behind
<1>12. OnlyWholeFrames
  BY <1>1 DEF OnlyWholeFrames
<1>13. InterruptOn
  BY <1>1 DEF InterruptOn
<1> QED
  BY <1>4, <1>6, <1>8, <1>9, <1>11, <1>12, <1>13 DEF Inv

LEMMA NextInv == Inv /\ [Next]_vars => Inv'
<1> SUFFICES ASSUME Inv, [Next]_vars PROVE Inv'
  OBVIOUS
<1>1. CASE Sender
  BY <1>1, SenderKeeps
<1>2. CASE Line
  BY <1>2, LineKeeps
<1>3. CASE UpdateSerial
  BY <1>3, HeaderSearchKeeps, FrameHeaderKeeps, FrameDataKeeps DEF UpdateSerial
<1>4. CASE UNCHANGED vars
  <2>1. /\ UNCHANGED uartVars /\ UNCHANGED receiver
        /\ sent' = sent /\ errors' = errors /\ harmed' = harmed
    BY <1>4 DEF vars
  <2>2. UartTypeOK' /\ Gone' = Gone /\ Sending' /\ InterruptOn'
    BY <2>1, UartUnchanged, SenderUnchanged DEF Inv
  <2> QED
    BY <2>1, <2>2, Undisturbed
<1> QED
  BY <1>1, <1>2, <1>3, <1>4 DEF Next

THEOREM Invariance == Spec => []Inv
BY InitInv, NextInv, PTL DEF Spec

\* No buffer on either board is overrun, and what is read of a frame fits.
THEOREM TypeCorrect == Spec => []TypeOK
<1>1. Inv => TypeOK
  BY DEF Inv
<1> QED
  BY <1>1, Invariance, PTL

\* Queued bytes never wait with the transmit interrupt off.
THEOREM InterruptStaysOn == Spec => []InterruptOn
<1>1. Inv => InterruptOn
  BY DEF Inv
<1> QED
  BY <1>1, Invariance, PTL

\* The queue has room whenever write() pushes, so it never stops half way in a
\* frame, where the receiver would have to give up the next frame, too.
NothingCutShort == writer = "push" => Len(txBuffer) < TxCapacity

\* send() hands over whole frames: the queue takes every byte it is given.
THEOREM FramesFit == Spec => []NothingCutShort
<1>1. Inv => NothingCutShort
  BY PushFits DEF Inv, NothingCutShort
<1> QED
  BY <1>1, Invariance, PTL

\* Whatever the line does, delivered frames came through whole, in the order
\* they were sent, and none twice.
THEOREM WholeInOrder == Spec => []OnlyWholeFrames
<1>1. Inv => OnlyWholeFrames
  BY DEF Inv
<1> QED
  BY <1>1, Invariance, PTL

\* Every step is a step of the channel, or none of its business.
LEMMA StepRefines ==
  ASSUME Inv, Inv', [Next]_vars
  PROVE  [Channel!Next]_(Channel!channel)
<1>1. /\ sent \in Nat
      /\ \A k \in 1..Len(delivered') : delivered'[k] \in (1..sent') \ harmed'
      /\ \A k \in 1..Len(delivered') - 1 : delivered'[k] < delivered'[k + 1]
  BY DEF Inv, TypeOK, OnlyWholeFrames
<1>2. CASE Sender
  <2>1. CASE Send
    BY <2>1 DEF Send, receiver, Channel!Next, Channel!Send
  <2>2. CASE UNCHANGED <<sent, errors, harmed, receiver>>
    BY <2>2 DEF receiver, Channel!channel
  <2> QED
    BY <1>2, <2>1, <2>2 DEF Sender
<1>3. CASE Line
  <2>1. Shift /\ sent' = sent /\ delivered' = delivered
    BY <1>3 DEF Line, Intact, Harmed
  <2>2. sent \in 1..MaxFrames /\ register[1].frame = sent
    BY <2>1, ShiftMoves, ByteFacts DEF Inv
  <2>3. harmed' = harmed \/ harmed' = harmed \cup {sent}
    BY <1>3, <2>2 DEF Line, Intact, Harmed, Harm
  <2>4. CASE harmed' = harmed
    BY <2>1, <2>4 DEF Channel!channel
  <2>5. CASE harmed' = harmed \cup {sent}
    <3>1. \A k \in 1..Len(delivered) : delivered[k] # sent
      BY <1>1, <2>1, <2>5
    <3>2. sent \in 1..sent
      BY <1>1, <2>2
    <3> QED
      BY <2>1, <2>5, <3>1, <3>2 DEF Channel!Next, Channel!Damage
  <2> QED
    BY <2>3, <2>4, <2>5
<1>4. CASE UpdateSerial
  <2>1. sent' = sent /\ harmed' = harmed
    BY <1>4 DEF UpdateSerial
  <2>2. delivered' = delivered \/ delivered' = Append(delivered, frameHeader[1].frame)
    BY <1>4 DEF UpdateSerial, HeaderSearch, FrameHeader, FrameData
  <2>3. CASE delivered' = delivered
    BY <2>1, <2>3 DEF Channel!channel
  <2>4. CASE delivered' # delivered
    <3>1. PICK n : n = frameHeader[1].frame
      OBVIOUS
    <3>2. delivered' = Append(delivered, n) /\ delivered \in Seq(1..MaxFrames)
      BY <2>2, <2>4, <3>1 DEF Inv, TypeOK
    <3>3. /\ Len(delivered) \in Nat /\ Len(delivered') = Len(delivered) + 1
          /\ delivered'[Len(delivered) + 1] = n
          /\ \A k \in 1..Len(delivered) : delivered'[k] = delivered[k]
      BY <3>2
    <3>4. n \in (1..sent) \ harmed
      BY <1>1, <2>1, <3>3
    <3>5. ASSUME delivered # <<>>
          PROVE  delivered[Len(delivered)] < n
      <4>1. Len(delivered) >= 1
        BY <3>2, <3>3, <3>5
      <4>2. Len(delivered) \in 1..Len(delivered) /\ Len(delivered) \in 1..Len(delivered') - 1
        BY <3>3, <4>1
      <4> QED
        BY <1>1, <3>3, <4>2
    <3> QED
      BY <2>1, <3>2, <3>4, <3>5 DEF Channel!Next, Channel!Deliver
  <2> QED
    BY <2>3, <2>4
<1>5. CASE UNCHANGED vars
  BY <1>5 DEF vars, receiver, Channel!channel
<1> QED
  BY <1>2, <1>3, <1>4, <1>5 DEF Next

\* Framing over an unreliable line implements the channel.
THEOREM Refinement == Spec => ImplementsChannel
<1>1. Init => Channel!Init
  BY DEF Init, Channel!Init
<1>2. Inv /\ Inv' /\ [Next]_vars => [Channel!Next]_(Channel!channel)
  BY StepRefines
<1> QED
  BY <1>1, <1>2, Invariance, PTL DEF Spec, ImplementsChannel, Channel!Spec
=============================================================================
