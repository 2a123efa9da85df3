------------------------------ MODULE DjiSerial ------------------------------
(***************************************************************************)
(* DJISerial, the framing of the referee system and of board to board      *)
(* links: one board sends frames with send() through its UART, a line      *)
(* loses, garbles and invents no bytes but those it garbles, and the other *)
(* board's updateSerial() looks for the head byte, collects a header and   *)
(* then a body over several calls, and delivers what passes both checks.   *)
(*                                                                         *)
(* A byte is the frame it comes from and its place in it, counted from 1,  *)
(* or noise; the checks are ideal: CRC8 passes exactly for the covered     *)
(* bytes of one header, CRC16 exactly for the bytes of one frame.  Every   *)
(* frame has a length of its own, which the receiver learns from the       *)
(* header, and any byte of it may have the value of the head byte.         *)
(***************************************************************************)
EXTENDS UartTx, FiniteSets

CONSTANTS
  FRAME_HEADER_LENGTH,   \* with the head byte, 7 in the code
  FRAME_CRC16_LENGTH,    \* 2 in the code
  Crc8Length,            \* bytes that CRC8 covers and CRC8 itself, 5 in the code
  SERIAL_TX_BUFF_SIZE,   \* 256 in the code: of the array send() fills
  SERIAL_RX_BUFF_SIZE,   \* 256 in the code: of the array a message is read into
  DataLength,            \* bytes of payload of each frame, txMessage.length
  RxCapacity,            \* of the receiver's rxBuffer, 256 in the driver
  LookAlike,             \* bytes with the value of the head byte that are none
  MaxFrames,             \* bound of the model: frames that are ever sent
  MaxErrors              \* bound of the model: bytes the line harms

ASSUME HeaderType == FRAME_HEADER_LENGTH \in Nat /\ Crc8Length \in 1..FRAME_HEADER_LENGTH
ASSUME LengthType == DataLength \in [1..MaxFrames -> Nat] /\ FRAME_CRC16_LENGTH \in Nat
ASSUME SizeTypes == SERIAL_TX_BUFF_SIZE \in Nat /\ SERIAL_RX_BUFF_SIZE \in Nat
ASSUME RxCapacityType == RxCapacity \in Nat \ {0}
ASSUME BoundTypes == MaxFrames \in Nat /\ MaxErrors \in Nat

VARIABLES
  sent,           \* frames handed to the UART so far
  errors,         \* bytes the line harmed so far
  harmed,         \* frames that did not reach rxBuffer whole
  rxBuffer,
  rxState,        \* djiSerialRxState
  frameHeader,    \* the bytes of the header read so far, the head first
  data,           \* newMessage.data: the bytes of the body read so far
  delivered       \* frames given to messageReceiveCallback, in order

receiver == <<rxBuffer, rxState, frameHeader, data, delivered>>
vars == <<uartVars, sent, errors, harmed, receiver>>

-----------------------------------------------------------------------------
BodyLength(n) == DataLength[n] + FRAME_CRC16_LENGTH
FrameLength(n) == FRAME_HEADER_LENGTH + BodyLength(n)

Frame(n) == [k \in 1..FrameLength(n) |-> [frame |-> n, place |-> k]]

\* What a garbled byte may become: anything but, or by accident, a head byte.
Noise == [frame |-> 0, place |-> 0]
FalseHead == [frame |-> 0, place |-> 1]

SerialByte ==
  (UNION {[frame : {n}, place : 1..FrameLength(n)] : n \in 1..MaxFrames}) \cup {Noise, FalseHead}

ASSUME ByteType == Byte = SerialByte /\ LookAlike \subseteq Byte

\* send() refuses a longer message and does nothing; one without payload it
\* sends.  What it fills fits the UART's queue.
ASSUME FrameFits ==
  /\ \A n \in 1..MaxFrames : FrameLength(n) < SERIAL_TX_BUFF_SIZE
  /\ SERIAL_TX_BUFF_SIZE <= TxCapacity

IsHead(byte) == byte.place = 1 \/ byte \in LookAlike

\* The receiver takes no message without payload, nor one too long for it.
Acceptable(n) == DataLength[n] # 0 /\ FrameLength(n) < SERIAL_RX_BUFF_SIZE

\* The first bytes of s are the first count bytes of one frame.
FromOneFrame(s, count) ==
  \E n \in 1..MaxFrames : \A k \in 1..count : s[k] = [frame |-> n, place |-> k]

FirstBytes(s, count) == SubSeq(s, 1, IF Len(s) < count THEN Len(s) ELSE count)
Without(s, count) == SubSeq(s, count + 1, Len(s))

Init ==
  /\ UartInit
  /\ sent = 0 /\ errors = 0 /\ harmed = {}
  /\ rxBuffer = <<>>
  /\ rxState = "SERIAL_HEADER_SEARCH"
  /\ frameHeader = <<>> /\ data = <<>>
  /\ delivered = <<>>

-----------------------------------------------------------------------------
(* The sender.                                                             *)

\* send() of a new message; it fails and sends nothing while the last write is
\* under way.
Send ==
  /\ sent < MaxFrames
  /\ isWriteFinished
  /\ sent' = sent + 1
  /\ Write(Frame(sent'))
  /\ UNCHANGED <<errors, harmed, receiver>>

Sender ==
  \/ Send
  \/ (Writing \/ TransmitPart) /\ UNCHANGED <<sent, errors, harmed, receiver>>

-----------------------------------------------------------------------------
(* The line and the receiver's interrupt handler.                          *)

Harm(byte) == harmed' = IF byte.frame = 0 THEN harmed ELSE harmed \cup {byte.frame}

\* Faulty variant: no room is taken for room.
ArriveAlways(byte) == rxBuffer' = Append(rxBuffer, byte)

\* The receive interrupt: a full rxBuffer drops the byte.
Arrive(byte) ==
  IF Len(rxBuffer) < RxCapacity
    THEN rxBuffer' = Append(rxBuffer, byte)
    ELSE UNCHANGED rxBuffer

Intact ==
  LET byte == register[1] IN
  /\ Shift
  /\ Arrive(byte)
  /\ IF Len(rxBuffer) < RxCapacity THEN UNCHANGED harmed ELSE Harm(byte)
  /\ UNCHANGED <<sent, errors, rxState, frameHeader, data, delivered>>

Harmed ==
  /\ errors < MaxErrors
  /\ errors' = errors + 1
  /\ Shift
  /\ Harm(register[1])
  /\ \/ UNCHANGED rxBuffer
     \/ \E byte \in {Noise, FalseHead} : Arrive(byte)
  /\ UNCHANGED <<sent, rxState, frameHeader, data, delivered>>

Line == Intact \/ Harmed

-----------------------------------------------------------------------------
(* updateSerial(): one call, in the state it finds.                        *)

\* Bytes up to and including the first head byte are taken; all, without one.
HeaderSearch ==
  LET heads == {k \in 1..Len(rxBuffer) : IsHead(rxBuffer[k])} IN
  /\ rxState = "SERIAL_HEADER_SEARCH"
  /\ rxBuffer # <<>>
  /\ \/ /\ heads = {}
        /\ rxBuffer' = <<>> /\ UNCHANGED <<rxState, frameHeader>>
     \/ \E first \in heads :
          /\ \A k \in heads : first <= k
          /\ rxBuffer' = Without(rxBuffer, first)
          /\ frameHeader' = <<rxBuffer[first]>>
          /\ rxState' = "PROCESS_FRAME_HEADER"
  /\ UNCHANGED <<data, delivered>>

\* Faulty variants: the parser stays where it is after a bad header, or stops
\* checking bodies, or stays where it is when it has delivered one.
FrameHeaderStays ==
  LET missing == FRAME_HEADER_LENGTH - Len(frameHeader)
      header == frameHeader \o FirstBytes(rxBuffer, missing)
      complete == Len(header) = FRAME_HEADER_LENGTH
      right == FromOneFrame(header, Crc8Length) /\ Acceptable(header[1].frame)
  IN
  /\ rxState = "PROCESS_FRAME_HEADER"
  /\ rxBuffer' = Without(rxBuffer, missing)
  /\ frameHeader' = IF complete /\ ~right THEN <<frameHeader[1]>> ELSE header
  /\ rxState' = IF complete /\ right THEN "PROCESS_FRAME_DATA" ELSE rxState
  /\ UNCHANGED <<data, delivered>>

\* A complete header sends the parser on to the body, one with an unacceptable
\* length or the wrong CRC8 back to the search.
FrameHeader ==
  LET missing == FRAME_HEADER_LENGTH - Len(frameHeader)
      header == frameHeader \o FirstBytes(rxBuffer, missing)
      complete == Len(header) = FRAME_HEADER_LENGTH
      right == FromOneFrame(header, Crc8Length) /\ Acceptable(header[1].frame)
  IN
  /\ rxState = "PROCESS_FRAME_HEADER"
  /\ rxBuffer' = Without(rxBuffer, missing)
  /\ frameHeader' = IF complete /\ ~right THEN <<>> ELSE header
  /\ rxState' = IF ~complete THEN rxState
                ELSE IF right THEN "PROCESS_FRAME_DATA" ELSE "SERIAL_HEADER_SEARCH"
  /\ UNCHANGED <<data, delivered>>

FrameDataUnchecked ==
  LET n == frameHeader[1].frame
      missing == BodyLength(n) - Len(data)
      body == data \o FirstBytes(rxBuffer, missing)
  IN
  /\ rxState = "PROCESS_FRAME_DATA"
  /\ rxBuffer' = Without(rxBuffer, missing)
  /\ IF Len(body) < BodyLength(n)
       THEN data' = body /\ UNCHANGED <<rxState, frameHeader, delivered>>
       ELSE /\ data' = <<>> /\ frameHeader' = <<>>
            /\ rxState' = "SERIAL_HEADER_SEARCH"
            /\ delivered' = Append(delivered, n)

FrameDataAgain ==
  LET n == frameHeader[1].frame
      missing == BodyLength(n) - Len(data)
      body == data \o FirstBytes(rxBuffer, missing)
  IN
  /\ rxState = "PROCESS_FRAME_DATA"
  /\ rxBuffer' = Without(rxBuffer, missing)
  /\ data' = body
  /\ delivered' = IF /\ Len(body) = BodyLength(n) /\ Len(delivered) < MaxFrames
                     /\ FromOneFrame(frameHeader \o body, FrameLength(n))
                    THEN Append(delivered, n)
                    ELSE delivered
  /\ UNCHANGED <<rxState, frameHeader>>

\* The header says how long the body is.  A body of the right CRC16 is
\* delivered, any other dropped; the search goes on behind it.
FrameData ==
  LET n == frameHeader[1].frame
      missing == BodyLength(n) - Len(data)
      body == data \o FirstBytes(rxBuffer, missing)
  IN
  /\ rxState = "PROCESS_FRAME_DATA"
  /\ rxBuffer' = Without(rxBuffer, missing)
  /\ IF Len(body) < BodyLength(n)
       THEN data' = body /\ UNCHANGED <<rxState, frameHeader, delivered>>
       ELSE /\ data' = <<>> /\ frameHeader' = <<>>
            /\ rxState' = "SERIAL_HEADER_SEARCH"
            /\ delivered' = IF FromOneFrame(frameHeader \o body, FrameLength(n))
                              THEN Append(delivered, n)
                              ELSE delivered

UpdateSerial ==
  /\ HeaderSearch \/ FrameHeader \/ FrameData
  /\ UNCHANGED <<uartVars, sent, errors, harmed>>

-----------------------------------------------------------------------------
Next == Sender \/ Line \/ UpdateSerial

\* Both main loops run, the line moves bytes, and a transmit interrupt that is
\* enabled and due is taken; nobody owes another message.
Spec ==
  /\ Init /\ [][Next]_vars
  /\ WF_vars(Writing /\ UNCHANGED <<sent, errors, harmed, receiver>>)
  /\ WF_vars(TransmitInterrupt /\ UNCHANGED <<sent, errors, harmed, receiver>>)
  /\ WF_vars(Line)
  /\ WF_vars(UpdateSerial)

-----------------------------------------------------------------------------
(* Properties.                                                             *)

\* Every variable stays in its range; what is read of a frame fits its arrays.
TypeOK ==
  /\ UartTypeOK
  /\ sent \in 0..MaxFrames /\ errors \in 0..MaxErrors
  /\ harmed \in SUBSET (1..MaxFrames)
  /\ rxBuffer \in Seq(Byte) /\ Len(rxBuffer) <= RxCapacity
  /\ rxState \in {"SERIAL_HEADER_SEARCH", "PROCESS_FRAME_HEADER", "PROCESS_FRAME_DATA"}
  /\ frameHeader \in Seq(Byte) /\ Len(frameHeader) <= FRAME_HEADER_LENGTH
  /\ data \in Seq(Byte) /\ Len(data) <= SERIAL_RX_BUFF_SIZE
  /\ delivered \in Seq(1..MaxFrames)

\* Framing implements a channel that loses frames but delivers none damaged,
\* repeated or out of order: no step of either board, the handlers or the line
\* does anything else to what the users of both ends see.
Channel == INSTANCE LossyChannel WITH damaged <- harmed
ImplementsChannel == Channel!Spec

Delivered(n) == \E k \in 1..Len(delivered) : delivered[k] = n

\* Frames behind which the parser may be out of step: harmed ones and those
\* with a stray head byte.
Misleading == harmed \cup {byte.frame : byte \in LookAlike}

\* How many bytes behind frame m a parser misled by it can swallow: the rest of
\* a header or, behind a head of m that was accepted, of the length it gives.
Reach(m) ==
  (IF m \in harmed /\ Acceptable(m) THEN FrameLength(m) ELSE FRAME_HEADER_LENGTH) - 1

WholeBytesBetween(m, n) == {byte \in Byte : byte.frame \in ((m + 1)..(n - 1)) \ harmed}

\* The parser has found the rhythm again when frame n comes: every frame that
\* may have misled it since the last delivery is followed by whole frames of as
\* many bytes as it can cost.
InStep(n) ==
  \E k \in {0} \cup {m \in 1..(n - 1) : Delivered(m)} :
    \A m \in ((k + 1)..(n - 1)) \cap Misleading :
      Cardinality(WholeBytesBetween(m, n)) >= Reach(m)

\* Damage is local: a frame that lost bytes, in whatever number, or looks like
\* several costs no more bytes of the frames behind it than its own length
\* accounts for.  When the last byte has settled, every whole acceptable frame
\* farther behind has been delivered.
DamageIsLocal ==
  <>[](\A n \in 1..sent :
         Acceptable(n) /\ n \notin harmed /\ InStep(n) => Delivered(n))
=============================================================================
