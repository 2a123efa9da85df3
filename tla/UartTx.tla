------------------------------- MODULE UartTx -------------------------------
(***************************************************************************)
(* The transmitting half of a UART driver: write() puts a byte into the    *)
(* idle data register or into the software queue, and the handler, which   *)
(* transmission shares with reception, refills the register from the       *)
(* queue.  write() has no lock around its tests; it is split at its        *)
(* accesses to the queue, the register and the interrupt enable bit.       *)
(*                                                                         *)
(* The queue is the users' view of the ring that AtomicQueue proves.       *)
(***************************************************************************)
EXTENDS Integers, Sequences

CONSTANTS
  Byte,         \* what may be written
  TxCapacity    \* of txBuffer, 256 in the driver

ASSUME TxCapacityType == TxCapacity \in Nat \ {0}

VARIABLES
  outgoing,   \* the rest of the array that write() is given, "data" first
  writer,     \* where write() is, "idle" outside of it
  txBuffer,
  register,   \* the data register: empty (TXE) or one byte
  txEmpty     \* Interrupt::TxEmpty is enabled

uartVars == <<outgoing, writer, txBuffer, register, txEmpty>>

TransmitRegisterEmpty == register = <<>>

UartInit ==
  /\ outgoing = <<>> /\ writer = "idle"
  /\ txBuffer = <<>> /\ register = <<>>
  /\ txEmpty = FALSE

isWriteFinished == txBuffer = <<>> /\ TransmitRegisterEmpty

-----------------------------------------------------------------------------
(* write() of the bytes of an array, one after the other.                  *)

\* The byte is written, and with the last one write() returns.
Written ==
  /\ outgoing' = Tail(outgoing)
  /\ writer' = IF Len(outgoing) = 1 THEN "idle" ELSE "test"

Write(bytes) ==
  /\ writer = "idle" /\ bytes # <<>>
  /\ outgoing' = bytes
  /\ writer' = "test"
  /\ UNCHANGED <<txBuffer, register, txEmpty>>

\* txBuffer.isEmpty()
TestBuffer ==
  /\ writer = "test"
  /\ writer' = IF txBuffer = <<>> THEN "testRegister" ELSE "push"
  /\ UNCHANGED <<outgoing, txBuffer, register, txEmpty>>

TestRegister ==
  /\ writer = "testRegister"
  /\ writer' = IF TransmitRegisterEmpty THEN "store" ELSE "push"
  /\ UNCHANGED <<outgoing, txBuffer, register, txEmpty>>

Store ==
  /\ writer = "store"
  /\ register' = <<Head(outgoing)>>
  /\ Written
  /\ UNCHANGED <<txBuffer, txEmpty>>

\* A full queue ends write(): the rest of the array is not sent.
Push ==
  /\ writer = "push"
  /\ IF Len(txBuffer) < TxCapacity
       THEN txBuffer' = Append(txBuffer, Head(outgoing)) /\ writer' = "enable" /\ UNCHANGED outgoing
       ELSE outgoing' = <<>> /\ writer' = "idle" /\ UNCHANGED txBuffer
  /\ UNCHANGED <<register, txEmpty>>

EnableInterrupt ==
  /\ writer = "enable"
  /\ txEmpty' = TRUE
  /\ Written
  /\ UNCHANGED <<txBuffer, register>>

Writing == TestBuffer \/ TestRegister \/ Store \/ Push \/ EnableInterrupt

-----------------------------------------------------------------------------
(* The handler and the shift register.                                     *)

\* Faulty variant: the interrupt stays off while bytes are queued.
TransmitPartDisabling ==
  /\ TransmitRegisterEmpty
  /\ txEmpty' = FALSE
  /\ IF txBuffer = <<>>
       THEN UNCHANGED <<register, txBuffer>>
       ELSE register' = <<Head(txBuffer)>> /\ txBuffer' = Tail(txBuffer)
  /\ UNCHANGED <<outgoing, writer>>

\* The handler's second half.  It runs whenever the handler was entered, for a
\* received byte, too, and therefore at any time.
TransmitPart ==
  /\ TransmitRegisterEmpty
  /\ IF txBuffer = <<>>
       THEN txEmpty' = FALSE /\ UNCHANGED <<register, txBuffer>>
       ELSE /\ register' = <<Head(txBuffer)>>
            /\ txBuffer' = Tail(txBuffer)
            /\ UNCHANGED txEmpty
  /\ UNCHANGED <<outgoing, writer>>

\* The interrupt that must come: the register is empty and TxEmpty enabled.
TransmitInterrupt == txEmpty /\ TransmitPart

\* The hardware takes the byte out of the register and sends it.
Shift ==
  /\ ~TransmitRegisterEmpty
  /\ register' = <<>>
  /\ UNCHANGED <<outgoing, writer, txBuffer, txEmpty>>

UartTypeOK ==
  /\ outgoing \in Seq(Byte)
  /\ writer \in {"idle", "test", "testRegister", "store", "push", "enable"}
  /\ writer = "idle" <=> outgoing = <<>>
  /\ txBuffer \in Seq(Byte) /\ Len(txBuffer) <= TxCapacity
  /\ register \in Seq(Byte) /\ Len(register) <= 1
  /\ txEmpty \in BOOLEAN

\* Queued bytes never wait with the transmit interrupt off, although write()
\* enables it in a step of its own after the push and the handler, which a
\* received byte may start at any time, disables it: they would stay where they
\* are until the next write().
InterruptOn == txBuffer # <<>> => txEmpty \/ writer = "enable"
=============================================================================
