-------------------------------- MODULE Remote --------------------------------
(***************************************************************************)
(* Reception of the remote control: the transmitter sends packets of       *)
(* Length bytes with a pause between them, the interrupt handler of the    *)
(* UART stores every byte, and Remote::read(), called once per iteration   *)
(* of the main loop, collects them.  Packets carry no marks: read() finds  *)
(* their borders by time alone.  A byte is <<packet, position>>, packets   *)
(* numbered 0 and 1 in turn.                                               *)
(*                                                                         *)
(* read() is split where the handler or the clock can change what it sees  *)
(* next.  discardReceiveBuffer() pops until it finds the queue empty, and  *)
(* is one step, that last test: earlier bytes are discarded anyway.  Time  *)
(* is in ticks of the clock that read() uses.                              *)
(***************************************************************************)
EXTENDS Naturals, Sequences

CONSTANTS
  Length,               \* REMOTE_BUF_LEN, 18
  ReadTimeout,          \* REMOTE_READ_TIMEOUT, 6
  DisconnectTimeout,    \* REMOTE_DISCONNECT_TIMEOUT, 100
  Gap                   \* ticks between packets, 12

ASSUME LengthType == Length \in Nat \ {0}
ASSUME TimesType == {ReadTimeout, DisconnectTimeout, Gap} \subseteq Nat

VARIABLES
  on,          \* the transmitter sends
  next,        \* position of its next byte
  packet,      \* number of its last packet
  silence,     \* ticks since its last byte, at most Dark
  uart,        \* bytes in rxBuffer of the UART
  pc,          \* where read() is, "idle" outside of it
  rxBuffer,    \* the first currentBufferIndex bytes of rxBuffer
  age,         \* time - lastRead, at most Stale
  connected,
  remote,      \* the packet that the remote's values come from, <<>> after reset()
  done,        \* a read() has returned since the last tick
  arrived      \* a byte has arrived since the last step of read()
sender == <<on, next, packet, silence>>
reader == <<pc, rxBuffer, connected, remote>>
vars == <<sender, uart, reader, age, done, arrived>>

Dark == DisconnectTimeout + 5
Stale == DisconnectTimeout + 1

Init ==
  /\ on = FALSE /\ next = 1 /\ packet = 0 /\ silence = Gap
  /\ uart = <<>> /\ pc = "idle" /\ rxBuffer = <<>> /\ age = 0
  /\ connected = FALSE /\ remote = <<>> /\ done = FALSE /\ arrived = FALSE

-----------------------------------------------------------------------------
(* The transmitter, the clock and the interrupt handler.                   *)

\* Reception may begin in the middle of a packet.
SwitchOn ==
  /\ ~on /\ silence >= Gap
  /\ on' = TRUE /\ next' \in 1..Length
  /\ packet' = IF next' = 1 THEN packet ELSE 1 - packet
  /\ UNCHANGED <<silence, uart, reader, age, done, arrived>>

SwitchOff ==
  /\ on /\ on' = FALSE
  /\ UNCHANGED <<next, packet, silence, uart, reader, age, done, arrived>>

\* Faulty variants (here and below): slips that each stop a property from
\* holding; no action uses them.
ByteTwice ==
  /\ on /\ (next = 1 => silence >= Gap)
  /\ pc = "idle" \/ ~arrived
  /\ arrived' = TRUE
  /\ packet' = IF next = 1 THEN 1 - packet ELSE packet
  /\ next' = IF next = Length THEN 1 ELSE next + 1
  /\ silence' = 0
  /\ uart' = uart \o <<<<packet', next>>, <<packet', next>>>>
  /\ UNCHANGED <<on, reader, age, done>>

\* The handler pushes the byte, unless the line has garbled it away.  Bytes
\* are 0.1 ms apart, far more than a step of read() takes.
Byte ==
  /\ on /\ (next = 1 => silence >= Gap)
  /\ pc = "idle" \/ ~arrived
  /\ arrived' = TRUE
  /\ packet' = IF next = 1 THEN 1 - packet ELSE packet
  /\ next' = IF next = Length THEN 1 ELSE next + 1
  /\ silence' = 0
  /\ \/ uart' = Append(uart, <<packet', next>>)
     \/ UNCHANGED uart
  /\ UNCHANGED <<on, reader, age, done>>

UpTo(n, max) == IF n < max THEN n ELSE max

\* The bytes of a packet come within a tick of each other, packets when the
\* pause is over; the main loop comes round at least once per tick.
Tick ==
  /\ done
  /\ on => silence < IF next = 1 THEN Gap + 1 ELSE 1
  /\ silence' = UpTo(silence + 1, Dark)
  /\ age' = UpTo(age + 1, Stale)
  /\ done' = FALSE
  /\ UNCHANGED <<on, next, packet, uart, reader, arrived>>

-----------------------------------------------------------------------------
(* Remote::read().                                                         *)

Step(from, to) == pc = from /\ pc' = to /\ arrived' = FALSE

clearRxBuffer == rxBuffer' = <<>> /\ uart' = <<>>

CheckDisconnectOfPartial ==
  /\ Step("idle", "bytes")
  /\ IF age > DisconnectTimeout /\ rxBuffer # <<>>
       THEN connected' = FALSE /\ remote' = <<>> /\ clearRxBuffer
       ELSE UNCHANGED <<connected, remote, rxBuffer, uart>>
  /\ UNCHANGED <<sender, age, done>>

CheckDisconnect ==
  /\ Step("idle", "bytes")
  /\ IF age > DisconnectTimeout
       THEN connected' = FALSE /\ remote' = <<>> /\ clearRxBuffer
       ELSE UNCHANGED <<connected, remote, rxBuffer, uart>>
  /\ UNCHANGED <<sender, age, done>>

ReadByteWithoutStamp ==
  /\ Step("bytes", IF Len(rxBuffer) < Length THEN "bytes" ELSE "timeout") /\ uart # <<>>
  /\ uart' = Tail(uart)
  /\ rxBuffer' = IF Len(rxBuffer) < Length THEN Append(rxBuffer, Head(uart)) ELSE rxBuffer
  /\ UNCHANGED <<sender, connected, remote, age, done>>

\* A byte that finds the packet complete has left the UART all the same.
ReadByte ==
  /\ Step("bytes", IF Len(rxBuffer) < Length THEN "bytes" ELSE "timeout") /\ uart # <<>>
  /\ uart' = Tail(uart)
  /\ IF Len(rxBuffer) < Length
       THEN rxBuffer' = Append(rxBuffer, Head(uart)) /\ age' = 0
       ELSE UNCHANGED <<rxBuffer, age>>
  /\ UNCHANGED <<sender, connected, remote, done>>

NoByte ==
  /\ Step("bytes", "timeout") /\ uart = <<>>
  /\ UNCHANGED <<sender, uart, rxBuffer, age, connected, remote, done>>

CheckTimeoutNever ==
  /\ Step("timeout", "parse")
  /\ UNCHANGED <<rxBuffer, uart>>
  /\ UNCHANGED <<sender, age, connected, remote, done>>

CheckTimeout ==
  /\ Step("timeout", "parse")
  /\ IF age > ReadTimeout THEN clearRxBuffer ELSE UNCHANGED <<rxBuffer, uart>>
  /\ UNCHANGED <<sender, age, connected, remote, done>>

ParseBuffer ==
  /\ Step("parse", "idle")
  /\ IF Len(rxBuffer) = Length
       THEN connected' = TRUE /\ remote' = rxBuffer /\ clearRxBuffer
       ELSE UNCHANGED <<connected, remote, rxBuffer, uart>>
  /\ done' = TRUE
  /\ UNCHANGED <<sender, age>>

Read == CheckDisconnect \/ ReadByte \/ NoByte \/ CheckTimeout \/ ParseBuffer

Next == SwitchOn \/ SwitchOff \/ Byte \/ Tick \/ Read

Spec == Init /\ [][Next]_vars

\* The loop runs and the clock ticks; the transmitter sends while it is on.
FairSpec == Spec /\ WF_vars(Read) /\ WF_vars(Tick) /\ WF_vars(Byte)

-----------------------------------------------------------------------------
(* Properties.                                                             *)

Bytes == {0, 1} \X (1..Length)

\* Every variable stays in its range; the UART never holds more than the
\* bytes of a packet, so its queue of 256 bytes does not overflow.
TypeOK ==
  /\ on \in BOOLEAN /\ next \in 1..Length /\ packet \in {0, 1}
  /\ silence \in 0..Dark /\ age \in 0..Stale
  /\ uart \in Seq(Bytes) /\ Len(uart) <= Length
  /\ pc \in {"idle", "bytes", "timeout", "parse"}
  /\ rxBuffer \in Seq(Bytes) /\ Len(rxBuffer) <= Length
  /\ connected \in BOOLEAN /\ remote \in Seq(Bytes) /\ done \in BOOLEAN

\* "Timeout delay for remote disconnect": with the transmitter silent for
\* longer than the timeout, give or take the ticks during a read(), the
\* remote is not connected and the sticks are released.
SilenceDisconnects == silence > DisconnectTimeout + 4 => ~connected /\ remote = <<>>

Link == INSTANCE RemoteLink WITH newest <- packet, values <- remote

\* Users never see an old packet: when read() reports a connection the values
\* become those of the packet that the transmitter sent last, though others
\* may have come, whole or in part, since the previous read().
ImplementsRemoteLink == Link!Spec

\* The first byte of a packet escapes both places where read() empties the
\* queue of the UART while bytes may come in: after the disconnect timeout it
\* must come between that test and the test for a byte, before it anywhere
\* but between the latter and the test of the read timeout.
FirstByteKept ==
  /\ Byte /\ next = 1
  /\ \/ age > DisconnectTimeout /\ pc = "bytes"
     \/ age < DisconnectTimeout - 1 /\ pc # "timeout"

Garbled == Byte /\ UNCHANGED uart

\* A transmitter that stays on is found, also after the disconnect timeout,
\* when every read() begins with a reset(): if the line is sound from some
\* time on, it is enough that of ever more packets, whose period has no
\* relation to that of the loop, some keep their first byte.  The other bytes
\* follow, whatever read() is doing.
Reconnects ==
  <>[]on /\ <>[][~Garbled]_vars /\ []<><<FirstByteKept>>_vars => []<>connected
=============================================================================
