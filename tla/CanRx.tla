-------------------------------- MODULE CanRx --------------------------------
(***************************************************************************)
(* Reception on a CAN bus: the hardware FIFO of three messages, the        *)
(* interrupt handler that moves them to the software queue, pollCanData()  *)
(* of the main loop, which takes one message and hands it to the listener  *)
(* of its identifier, and the motor that unwraps its encoder from it.      *)
(*                                                                         *)
(* Messages come while the handler runs, which is therefore split at its   *)
(* accesses to the FIFO; the main loop is preempted by it and reads the    *)
(* queue only, which AtomicQueue proves to be a first-in first-out buffer. *)
(* A message is its number in the order of arrival, its sender and the     *)
(* position of the sender's shaft, of which it carries the place within    *)
(* the turn.                                                               *)
(***************************************************************************)
EXTENDS Integers, Sequences, FiniteSets

CONSTANTS
  Motor,            \* senders with an attached listener
  Stranger,         \* senders without one
  Inverted,         \* motors with isInverted
  ENC_RESOLUTION,   \* counts of a turn, 8192 in the code
  Capacity,         \* of rxQueue, 32 in the driver
  Start,            \* positions in which a shaft may be at power-up
  Sweep,            \* how far a shaft may turn between two of its messages
  MaxMessages       \* bound of the model: messages that ever arrive

ASSUME SendersDiffer == Motor \cap Stranger = {}
ASSUME InvertedType == Inverted \subseteq Motor
ASSUME ResolutionType == ENC_RESOLUTION \in Nat \ {0} /\ ENC_RESOLUTION % 2 = 0
ASSUME CapacityType == Capacity \in Nat \ {0}
ASSUME StartType == Start \subseteq Int /\ Sweep \subseteq Int
ASSUME BoundType == MaxMessages \in Nat

FifoDepth == 3      \* messages of FIFO0 of the controller
Nothing == 0        \* the handler holds no message

VARIABLES
  shaft,      \* where each motor's shaft was when it last sent
  arrived,    \* messages that came over the bus so far
  fifo,       \* receive FIFO 0, the output mailbox first
  overrun,    \* FOVR0
  isr,        \* where the handler is, "idle" outside of it
  rxMessage,  \* its local variable
  rxQueue,
  handled,    \* messages pollCanData() handed out or dropped as unknown
  dropped,    \* messages that were lost on the way
  encoder,    \* encoderWrapped and encoderRevolutions of each motor
  last        \* what each motor last processed: the position, the first
              \* value, and whether half a turn was missed so far

vars == <<shaft, arrived, fifo, overrun, isr, rxMessage, rxQueue, handled,
          dropped, encoder, last>>

Numbers(s) == {s[k].number : k \in 1..Len(s)}

-----------------------------------------------------------------------------
(* The motor's view of its encoder.                                        *)

\* The inversion of parseCanRxData, applied to a shaft that turns for ever.
Signed(m, position) == IF m \in Inverted THEN ENC_RESOLUTION - 1 - position ELSE position

\* The encoder value of a message after the inversion.
Reading(m, position) ==
  LET value == position % ENC_RESOLUTION IN
  IF m \in Inverted THEN ENC_RESOLUTION - 1 - value ELSE value

\* Faulty variants (here and below): slips that each stop a property from
\* holding; no action uses them.
RevolutionsAtHalf(old, new) ==
  IF new - old <= -(ENC_RESOLUTION \div 2) THEN 1
  ELSE IF new - old >= ENC_RESOLUTION \div 2 THEN -1 ELSE 0

\* The revolution updateEncoderValue() adds.
Revolutions(old, new) ==
  IF new - old < -(ENC_RESOLUTION \div 2) THEN 1
  ELSE IF new - old > ENC_RESOLUTION \div 2 THEN -1 ELSE 0

Unwrapped(m) == encoder[m].wrapped + ENC_RESOLUTION * encoder[m].revolutions

-----------------------------------------------------------------------------
Init ==
  /\ shaft \in [Motor -> Start]
  /\ arrived = 0
  /\ fifo = <<>> /\ overrun = FALSE
  /\ isr = "idle" /\ rxMessage = Nothing
  /\ rxQueue = <<>>
  /\ handled = {} /\ dropped = {}
  /\ encoder = [m \in Motor |-> [wrapped |-> ENC_RESOLUTION \div 2, revolutions |-> 0]]
  /\ last = [m \in Motor |-> [heard |-> FALSE, position |-> 0, origin |-> 0, missed |-> FALSE]]

\* A message of sender from, received while the controller's FIFO is full,
\* overwrites the newest of it: the driver does not set RFLM.
Receive(from, position) ==
  LET message == [number |-> arrived + 1, from |-> from, position |-> position] IN
  /\ arrived < MaxMessages
  /\ arrived' = arrived + 1
  /\ IF Len(fifo) < FifoDepth
       THEN fifo' = Append(fifo, message) /\ UNCHANGED <<overrun, dropped>>
       ELSE /\ fifo' = [fifo EXCEPT ![FifoDepth] = message]
            /\ overrun' = TRUE
            /\ dropped' = dropped \cup {fifo[FifoDepth].number}
  /\ UNCHANGED <<isr, rxMessage, rxQueue, handled, encoder, last>>

MotorSends(m) ==
  \E turn \in Sweep :
    /\ shaft' = [shaft EXCEPT ![m] = @ + turn]
    /\ Receive(m, shaft'[m])

StrangerSends(s) == Receive(s, 0) /\ UNCHANGED shaft

-----------------------------------------------------------------------------
(* The interrupt handler, due while the FIFO holds messages or has overrun. *)

Due == fifo # <<>> \/ overrun

EnterHandlerKeepingFlag ==
  /\ isr = "idle" /\ Due
  /\ IF overrun
       THEN fifo' = Tail(fifo) /\ dropped' = dropped \cup {Head(fifo).number}
       ELSE UNCHANGED <<fifo, dropped>>
  /\ isr' = "read"
  /\ UNCHANGED <<shaft, arrived, overrun, rxMessage, rxQueue, handled, encoder, last>>

\* After an overrun FOVR0 is cleared and the output mailbox released unread.
EnterHandler ==
  /\ isr = "idle" /\ Due
  /\ IF overrun
       THEN /\ fifo' = Tail(fifo) /\ overrun' = FALSE
            /\ dropped' = dropped \cup {Head(fifo).number}
       ELSE UNCHANGED <<fifo, overrun, dropped>>
  /\ isr' = "read"
  /\ UNCHANGED <<shaft, arrived, rxMessage, rxQueue, handled, encoder, last>>

\* readMailbox()
ReadMailbox ==
  /\ isr = "read"
  /\ rxMessage' = Head(fifo)
  /\ isr' = "release"
  /\ UNCHANGED <<shaft, arrived, fifo, overrun, rxQueue, handled, dropped, encoder, last>>

Release ==
  /\ isr = "release"
  /\ fifo' = Tail(fifo)
  /\ isr' = "push"
  /\ UNCHANGED <<shaft, arrived, overrun, rxMessage, rxQueue, handled, dropped, encoder, last>>

PushUnbounded ==
  /\ isr = "push"
  /\ rxQueue' = Append(rxQueue, rxMessage)
  /\ rxMessage' = Nothing /\ isr' = "idle"
  /\ UNCHANGED <<shaft, arrived, fifo, overrun, handled, dropped, encoder, last>>

PushOverOldest ==
  /\ isr = "push"
  /\ rxQueue' = IF Len(rxQueue) < Capacity THEN Append(rxQueue, rxMessage)
                ELSE Append(Tail(rxQueue), rxMessage)
  /\ rxMessage' = Nothing /\ isr' = "idle"
  /\ UNCHANGED <<shaft, arrived, fifo, overrun, handled, dropped, encoder, last>>

\* A full queue refuses the message; the assertion is ignored.
Push ==
  /\ isr = "push"
  /\ IF Len(rxQueue) < Capacity
       THEN rxQueue' = Append(rxQueue, rxMessage) /\ UNCHANGED dropped
       ELSE dropped' = dropped \cup {rxMessage.number} /\ UNCHANGED rxQueue
  /\ rxMessage' = Nothing /\ isr' = "idle"
  /\ UNCHANGED <<shaft, arrived, fifo, overrun, handled, encoder, last>>

-----------------------------------------------------------------------------
(* The main loop.                                                          *)

\* parseCanRxData() with updateEncoderValue().
Parse(m, position) ==
  LET reading == Reading(m, position)
      gap == position - last[m].position
  IN
  /\ encoder' = [encoder EXCEPT ![m] =
                   [wrapped |-> reading,
                    revolutions |-> @.revolutions + Revolutions(@.wrapped, reading)]]
  /\ last' = [last EXCEPT ![m] =
                [heard |-> TRUE, position |-> position,
                 origin |-> IF @.heard THEN @.origin ELSE reading - Signed(m, position),
                 missed |-> IF @.heard /\ 2 * gap \notin 1 - ENC_RESOLUTION..ENC_RESOLUTION - 1
                              THEN TRUE ELSE @.missed]]

\* One message per call, and only while the remote is connected.
PollCanData ==
  /\ isr = "idle" /\ ~Due
  /\ rxQueue # <<>>
  /\ rxQueue' = Tail(rxQueue)
  /\ handled' = handled \cup {Head(rxQueue).number}
  /\ IF Head(rxQueue).from \in Motor
       THEN Parse(Head(rxQueue).from, Head(rxQueue).position)
       ELSE UNCHANGED <<encoder, last>>
  /\ UNCHANGED <<shaft, arrived, fifo, overrun, isr, rxMessage, dropped>>

-----------------------------------------------------------------------------
Handler == EnterHandler \/ ReadMailbox \/ Release \/ Push

Bus == (\E m \in Motor : MotorSends(m)) \/ (\E s \in Stranger : StrangerSends(s))

Next == Bus \/ Handler \/ PollCanData

Spec == Init /\ [][Next]_vars

-----------------------------------------------------------------------------
(* Properties.                                                             *)

Message == [number : Nat, from : Motor \cup Stranger, position : Int]

\* Every variable stays in its range, and the handler holds a message exactly
\* between reading and pushing it.
TypeOK ==
  /\ shaft \in [Motor -> Int]
  /\ arrived \in 0..MaxMessages
  /\ fifo \in Seq(Message) /\ Len(fifo) <= FifoDepth
  /\ overrun \in BOOLEAN
  /\ isr \in {"idle", "read", "release", "push"}
  /\ IF isr \in {"release", "push"} THEN rxMessage \in Message ELSE rxMessage = Nothing
  /\ rxQueue \in Seq(Message) /\ Len(rxQueue) <= Capacity
  /\ handled \in SUBSET (1..arrived) /\ dropped \in SUBSET (1..arrived)
  /\ encoder \in [Motor -> [wrapped : 0..ENC_RESOLUTION - 1, revolutions : Int]]
  /\ last \in [Motor -> [heard : BOOLEAN, position : Int, origin : Int, missed : BOOLEAN]]

\* What is on its way, the oldest first; a message that was read but not yet
\* released is still in the FIFO.
Pipeline == rxQueue \o (IF isr = "push" THEN <<rxMessage>> ELSE <<>>) \o fifo

\* A message is handed to its listener once, after every older one that
\* survived; whatever is missing was dropped by an overrun or a full queue.
OnceAndInOrder ==
  /\ \A k \in 1..Len(Pipeline) - 1 : Pipeline[k].number < Pipeline[k + 1].number
  /\ \A h \in handled, n \in Numbers(Pipeline) : h < n
  /\ 1..arrived = handled \cup dropped \cup Numbers(Pipeline)
  /\ dropped \cap (handled \cup Numbers(Pipeline)) = {}

\* The handler never reads an empty output mailbox, although it releases one
\* unread after an overrun and messages come at any of its steps: an overrun
\* that is still to be noticed has two messages behind it.
HandlerFindsMessage ==
  /\ isr \in {"read", "release"} => fifo # <<>>
  /\ isr = "release" => rxMessage = Head(fifo)
  /\ isr = "idle" /\ overrun => Len(fifo) >= 2

\* The unwrapped encoder follows the shaft across any number of turns, and
\* starts within the first turn, whatever messages were lost, as long as less
\* than half a turn passed between two messages that were processed.
EncoderFollowsShaft ==
  \A m \in Motor :
    last[m].heard /\ ~last[m].missed =>
      Unwrapped(m) = Signed(m, last[m].position) + last[m].origin
=============================================================================
