-------------------------------- MODULE CanTx --------------------------------
(***************************************************************************)
(* The transmit side of the CAN driver: sendMessage() of the main loop,    *)
(* the three hardware mailboxes and the interrupt handler that refills     *)
(* them from the software queue.  The controller (bxCAN with TXFP set)     *)
(* transmits in the order of the requests; a mailbox whose request is      *)
(* pending ignores writes.  The queue is the one AtomicQueue proves to be  *)
(* a bounded first-in first-out buffer.  Messages are numbered in the      *)
(* order in which they are sent.                                           *)
(*                                                                         *)
(* The handler preempts the main loop and runs to its end, so it is one    *)
(* step; the main loop proceeds only when no interrupt is due.             *)
(***************************************************************************)
EXTENDS Naturals, Sequences

CONSTANTS
  Capacity,       \* of txQueue, 32 in the driver
  MaxMessages     \* bound of the model: messages that are ever sent

ASSUME CapacityType == Capacity \in Nat \ {0}
ASSUME BoundType == MaxMessages \in Nat

Mailbox == 0..2
Message == 1..MaxMessages
Empty == 0

VARIABLES
  mailbox,     \* the message whose transmission is requested, or Empty
  requests,    \* the pending mailboxes in the order of their requests
  completed,   \* mailboxes whose RQCP flag is up: the handler is due
  txQueue,
  bus,         \* the messages transmitted so far
  pc,          \* where sendMessage() is, "idle" outside of it
  msg,         \* its argument
  mb,          \* its local variable "mailbox"
  sent,        \* number of calls of sendMessage() so far
  refused,     \* messages for which it returned false
  buffered     \* messages it pushed to txQueue

vars == <<mailbox, requests, completed, txQueue, bus, pc, msg, mb, sent,
          refused, buffered>>

Free == {i \in Mailbox : mailbox[i] = Empty}

Init ==
  /\ mailbox = [i \in Mailbox |-> Empty] /\ requests = <<>> /\ completed = {}
  /\ txQueue = <<>> /\ bus = <<>>
  /\ pc = "idle" /\ msg = Empty /\ mb = 0
  /\ sent = 0 /\ refused = {} /\ buffered = {}

\* sendMailbox(); setting TXRQ lowers the mailbox's RQCP flag.
Put(m, i) ==
  IF i \in Free
    THEN /\ mailbox' = [mailbox EXCEPT ![i] = m]
         /\ requests' = Append(requests, i)
    ELSE UNCHANGED <<mailbox, requests>>

-----------------------------------------------------------------------------
(* The main loop.                                                          *)

Proceeds == completed = {}

\* The test of the three TME bits.
SendMessage ==
  /\ pc = "idle" /\ Proceeds
  /\ sent < MaxMessages
  /\ sent' = sent + 1
  /\ msg' = sent + 1
  /\ pc' = IF Free = {} THEN "queue" ELSE "select"
  /\ UNCHANGED <<mailbox, requests, completed, txQueue, bus, mb, refused, buffered>>

\* Faulty variants (here and below): slips that each stop a property from
\* holding; no action uses them.
QueueUnbounded ==
  /\ pc = "queue" /\ Proceeds
  /\ txQueue' = Append(txQueue, msg)
  /\ buffered' = buffered \cup {msg}
  /\ pc' = "idle" /\ msg' = Empty
  /\ UNCHANGED <<mailbox, requests, completed, bus, mb, sent, refused>>

\* push(); its failure is an assertion that is ignored, and the result false.
Queue ==
  /\ pc = "queue" /\ Proceeds
  /\ IF Len(txQueue) < Capacity
       THEN /\ txQueue' = Append(txQueue, msg)
            /\ buffered' = buffered \cup {msg}
            /\ UNCHANGED refused
       ELSE refused' = refused \cup {msg} /\ UNCHANGED <<txQueue, buffered>>
  /\ pc' = "idle" /\ msg' = Empty
  /\ UNCHANGED <<mailbox, requests, completed, bus, mb, sent>>

SelectAny ==
  /\ pc = "select" /\ Proceeds
  /\ mb' \in Mailbox
  /\ pc' = "request"
  /\ UNCHANGED <<mailbox, requests, completed, txQueue, bus, msg, sent, refused, buffered>>

\* TSR.CODE names a free mailbox if there is one.
Select ==
  /\ pc = "select" /\ Proceeds
  /\ mb' \in IF Free # {} THEN Free ELSE Mailbox
  /\ pc' = "request"
  /\ UNCHANGED <<mailbox, requests, completed, txQueue, bus, msg, sent, refused, buffered>>

Request ==
  /\ pc = "request" /\ Proceeds
  /\ Put(msg, mb)
  /\ completed' = IF mb \in Free THEN completed \ {mb} ELSE completed
  /\ pc' = "idle" /\ msg' = Empty /\ mb' = 0
  /\ UNCHANGED <<txQueue, bus, sent, refused, buffered>>

-----------------------------------------------------------------------------
(* The controller and the interrupt handler.                               *)

Transmit ==
  /\ requests # <<>>
  /\ LET i == Head(requests) IN
     /\ bus' = Append(bus, mailbox[i])
     /\ mailbox' = [mailbox EXCEPT ![i] = Empty]
     /\ completed' = completed \cup {i}
  /\ requests' = Tail(requests)
  /\ UNCHANGED <<txQueue, pc, msg, mb, sent, refused, buffered>>

Completed == CHOOSE i \in completed : \A j \in completed : j <= i

TxInterruptLeavingLast ==
  /\ completed # {}
  /\ completed' = completed \ {Completed}
  /\ IF Len(txQueue) > 1
       THEN Put(Head(txQueue), Completed) /\ txQueue' = Tail(txQueue)
       ELSE UNCHANGED <<mailbox, requests, txQueue>>
  /\ UNCHANGED <<bus, pc, msg, mb, sent, refused, buffered>>

TxInterruptWithoutPop ==
  /\ completed # {}
  /\ completed' = completed \ {Completed}
  /\ IF txQueue # <<>> /\ Len(bus) <= MaxMessages
       THEN Put(Head(txQueue), Completed)
       ELSE UNCHANGED <<mailbox, requests>>
  /\ UNCHANGED <<txQueue, bus, pc, msg, mb, sent, refused, buffered>>

TxInterruptTakingLast ==
  /\ completed # {}
  /\ completed' = completed \ {Completed}
  /\ IF txQueue # <<>>
       THEN /\ Put(txQueue[Len(txQueue)], Completed)
            /\ txQueue' = SubSeq(txQueue, 1, Len(txQueue) - 1)
       ELSE UNCHANGED <<mailbox, requests, txQueue>>
  /\ UNCHANGED <<bus, pc, msg, mb, sent, refused, buffered>>

\* One mailbox per entry, the highest first.
TxInterrupt ==
  /\ completed # {}
  /\ completed' = completed \ {Completed}
  /\ IF txQueue # <<>>
       THEN Put(Head(txQueue), Completed) /\ txQueue' = Tail(txQueue)
       ELSE UNCHANGED <<mailbox, requests, txQueue>>
  /\ UNCHANGED <<bus, pc, msg, mb, sent, refused, buffered>>

-----------------------------------------------------------------------------
Main == SendMessage \/ Queue \/ Select \/ Request

Next == Main \/ Transmit \/ TxInterrupt

Spec == Init /\ [][Next]_vars

\* The bus is up and the interrupt enabled; the main loop owes nothing.
FairSpec == Spec /\ WF_vars(Transmit) /\ WF_vars(TxInterrupt)

-----------------------------------------------------------------------------
(* Properties.                                                             *)

Items(s) == {s[k] : k \in 1..Len(s)}

\* Every variable stays in its range, and the pending requests are those of
\* the occupied mailboxes, each once.
TypeOK ==
  /\ mailbox \in [Mailbox -> Message \cup {Empty}]
  /\ requests \in Seq(Mailbox) /\ Items(requests) = Mailbox \ Free
  /\ \A k, l \in 1..Len(requests) : requests[k] = requests[l] => k = l
  /\ completed \in SUBSET Mailbox
  /\ txQueue \in Seq(Message) /\ Len(txQueue) <= Capacity
  /\ bus \in Seq(Message)
  /\ pc \in {"idle", "queue", "select", "request"}
  /\ msg \in Message \cup {Empty} /\ (pc = "idle" <=> msg = Empty)
  /\ mb \in Mailbox
  /\ sent \in 0..MaxMessages
  /\ refused \in SUBSET Message /\ buffered \in SUBSET Message

\* The messages of the requests, in their order, and everything the driver has
\* accepted in the order in which it will have left.
Pending == [k \in 1..Len(requests) |-> mailbox[requests[k]]]
Line == bus \o Pending \o txQueue

\* A message for which sendMessage() returned true is transmitted or on its
\* way, exactly once, however handler and main loop are interleaved; the others
\* were refused or are still in the hands of sendMessage().
NothingLostOrDoubled ==
  LET unsent == {msg} \ {Empty} IN
  /\ 1..sent = Items(Line) \cup unsent \cup refused
  /\ Items(Line) \cap unsent = {} /\ refused \cap (Items(Line) \cup unsent) = {}
  /\ \A k, l \in 1..Len(Line) : Line[k] = Line[l] => k = l

\* Messages that took the same way leave in the order of the calls: a message
\* is overtaken only if it was buffered and the other found a free mailbox.
InOrderPerRoute ==
  \A k, l \in 1..Len(bus) :
    (k < l /\ bus[l] < bus[k]) => bus[l] \in buffered /\ bus[k] \notin buffered

\* "Therefore the mailbox will stay empty and won't be taken by an interrupt"
\* (sendMessage): between the choice of a mailbox and the request that fills
\* it nothing else fills it, although the queue may not be empty.
MailboxStaysEmpty == pc = "request" => mb \in Free

\* "If one of the mailboxes is empty it means that the software buffer is
\* empty too" (sendMessage), at the place that relies on it.
EmptyMailboxMeansEmptyBuffer == pc = "select" => txQueue = <<>>

\* While a transmission is pending the handler will drain the queue: a
\* buffered message that waits behind one reaches the bus.
BufferedDrains ==
  \A m \in Message :
    (m \in Items(txQueue) /\ requests # <<>>) ~> (m \in Items(bus))
=============================================================================
