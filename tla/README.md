# A TLA+ model of the RHIT robot's control software

The robot's program is `src/RHIT/src/main.cpp` on top of the *taproot* library
(`src/RHIT/taproot/src/tap`) and a generated *modm* board support library
(`src/RHIT/taproot/modm`). It runs on one STM32F427: a main loop without an operating
system, and interrupt handlers that preempt it. The repository's second copy of taproot
(`src/taproot`), the deployment scripts and the vendored libraries are left aside.

In the rest of this file paths are relative to `src/RHIT/taproot`, except `main.cpp`.

## 1. Inventory

| component | state | operations | who it talks to |
|---|---|---|---|
| robot main loop, `main.cpp` | speeds, percentages, mode, override: globals | one iteration: read remote, compute, send every 2 ms | remote, motors, CAN |
| remote, `tap/communication/serial/remote.cpp` | packet buffer, `lastRead`, `connected`, the remote's values | `read`, `reset`, `parseBuffer`, `clearRxBuffer` | UART driver, clock, main loop |
| UART driver, `uart_1.cpp` | two atomic queues, data register, interrupt enable | `read`, `write`, `discardReceiveBuffer`, the handler | remote, terminal, referee system |
| DJI motors, `tap/motor/dji_motor.cpp` | desired output, encoder, feedback | constructor, `initialize`, destructor, `setDesiredOutput`, `processMessage` | both CAN handlers |
| transmit handler, `dji_motor_tx_handler.cpp` | motors by bus and identifier | `addMotorToManager`, `processCanSendData`, `removeFromMotorManager` | motors, CAN driver |
| receive handler, `can_rx_handler.cpp` | listeners by bus and identifier | `attachReceiveHandler`, `pollCanData`, `removeReceiveHandler` | CAN driver, motors |
| CAN driver, `can_1.cpp`, `can_2.cpp` | three mailboxes, transmit and receive queues | `sendMessage`, `getMessage`, three handlers | bus, handlers above |
| atomic queue, `queue_impl.hpp` | ring buffer, `head`, `tail` | `push`, `get`, `pop`, `isEmpty`, `getSize` | drivers: main loop on one side, a handler on the other |
| command scheduler, `tap/control/command_scheduler.cpp` | bitmaps of registered and associated subsystems and of scheduled commands | `addCommand`, `removeCommand`, `run`, hardware tests | commands, subsystems, mappings |
| command registrar (same file) | index of each command and subsystem | assigned by constructors, freed by destructors | commands, subsystems |
| command mappings, `command_mapper.cpp`, `*_mapping.cpp` | toggled, pressed, held | `addMap`, `handleKeyStateChange` | remote, scheduler |
| setpoint, unjam, calibrate commands | states, timeouts | command life cycle | scheduler, subsystems |
| timers, `timeout.hpp`, `periodic_timer.hpp` | expiry time, flags | `restart`, `stop`, `execute` | clock |
| DJI serial, `dji_serial.cpp` | parser state, header and body read so far | `send`, `updateSerial` | UART driver, referee serial |
| referee serial, terminal, error list, menus, sensors, algorithms, hosted build | | | |

Which behaviours are hard:

* **preemption**: handlers run between any two accesses of the main loop; the atomic
  queue has no lock, and `sendMessage()` tests registers that the handler changes;
* **time**: the remote's packets carry no marks, so `read()` separates them by timeouts,
  while bytes arrive, the clock ticks and the transmitter goes away;
* **partial failure**: the commands of one bus go out in two frames, and the second can
  be refused; feedback is lost by an overrun or a full queue; a serial line loses bytes;
* **state that outlives its use**: the main loop's globals between modes, the handlers'
  stores between objects, the scheduler's bitmaps under its own iterators.

`PROJECT.json` lists every hazard at its line with the properties that guard it.

What makes each component correct: *scheduler*: no two running commands share a subsystem,
the bitmaps agree, initialize and end alternate, idle subsystems get their default;
*queue*: first in first out, nothing lost or torn; *CAN driver*: an accepted message is
sent once and a received one handed out once, in order; *motors*: every controller is told
what its own motor was asked for, and the encoder's turns are counted across its wrap;
*mappings*: nothing runs that no key demands, a press counts once; *DJI serial*: only whole
frames count, and a damaged one costs no more bytes behind it than its own length;
*remote*: only whole packets count, silence disconnects, a transmitter that is back is
found; *main loop*: modes do not leak into each other, released sticks stop the robot.

## 2. Modules

**`CommandScheduler`** is `CommandScheduler` with `Command` and `Subsystem`. A bitmap is
the set of its bits; a command is its index. The entry points `AddCommand`,
`RemoveCommand`, `RegisterSubsystem`, `StartHardwareTests`, `StopHardwareTests` are each
one step, taken between two passes of `run()`. `run()` is one step per command it executes
and per subsystem it refreshes, over the live bitmaps (`cursor` is the iterator), so that
commands finish and defaults are added under the iteration. `active` counts `initialize()`
minus `end()` and is a history variable. `isReady()` and `isFinished()` answer anything.
Masks `1UL << id` are `LongBits` wide.
**`SubsystemOwnership`** is the abstract specification: a map from subsystems to
commands in which a command takes all it demands, gives back all it has, or the hardware
tests revoke everything.

**`AtomicQueue`** is the ring buffer with one producer and one consumer. The steps are the
shared accesses: `push()` samples `tail`, stores, publishes `head`; the consumer tests,
copies, releases; `getSize()` reads `head`, then `tail`. `isNearlyFull()`, which nobody
calls, is left out. **`BoundedFifo`** is the abstract queue.

**`CanTx`** is the transmit side of the CAN driver: `sendMessage()` in its four steps (test
of the mailboxes, then push, or choice of a mailbox and request), the controller that
transmits in the order of requests (`TXFP`), and the transmit handler. `txQueue` is a
sequence: the users' view of the ring that `AtomicQueue_proofs` establishes. `buffered`,
`refused` and `bus` are history variables.

**`CanRx`** is the receive side of one bus (the other is independent and generated from the same
template): the controller's FIFO of three, which keeps the newest message when it overruns
(`overwriteOnOverrun` is the default), the receive handler in its four accesses to the FIFO,
`rxQueue` as a sequence, `pollCanData()` with the dispatch, and the motor that unwraps its
encoder. The main loop polls when it likes, for it polls only while the remote is connected;
the handler preempts it. A message carries the shaft's position on an endless axis, and
the controller sends its place within the turn. `arrived`, `handled`, `dropped`, `shaft` and `last`
are history. Speed, torque and temperature come from the same message and are left out, as is
the disconnect timer, which nobody of this program asks. All filters route to FIFO 0.

**`DjiMotors`** has the life cycle of motors, the two stores, the two-byte fields of the
frames and what the speed controllers (external) read out of them. `Base` is the number of
values of a byte, so that 16 bit arithmetic stays small. `ProcessCanSendData` is a whole
pass over both buses, with room for zero, one or two frames on each.

**`Remote`** is `read()` against the UART's interrupt handler, the clock and the transmitter.
It is split where another actor can change what it sees next: the test of the disconnect
timeout, each byte, the test of the read timeout, the parse. A byte is its packet's
number and its position; the values of the remote are the packet they came from. The
transmitter may start in mid packet and the line may lose any byte.
**`RemoteLink`** is the abstract specification, without bytes, buffers or time: the values are those
of `reset()` or a whole packet, and they only change to the packet that was sent last.

**`CommandMappings`** extends `CommandScheduler` by `CommandMapper` and the four kinds of mapping. A
map state, and the remote, is the set of its keys, buttons and switch positions, so that
`stateSubsetOf` is inclusion. `handleKeyStateChange` is a step, each mapping it visits another
(`Visit`), and each call of the scheduler a third (`MakeCall`); no pass of `run()`
comes between them. `previous` and the sender of a call (`by`) are history. `ActsOnEdges` speaks of
each visit: the mapping calls the scheduler if and only if two packets in a row differ in what it waits
for, so a press that lasts counts once and a second press after a release counts again. Only the mappings,
`run()` and the hardware tests add or remove commands here, as in the library.

**`UartTx`** is `write()` and `isWriteFinished()` of the UART driver against the transmitting half of
the shared handler, which also runs for received bytes and therefore at any time.
**`DjiSerial`** extends it by both ends of a link: `send()` on one board, the line, the receiving half of
the other board's handler, and its `updateSerial()`. One call of `updateSerial()` is one step: it takes
what the queue holds, and a byte that comes while it runs might as well have come
after it. CRCs are ideal; `newMessage` is the header and the body
read so far. `rxCrcEnabled` is set, its default and only use. Every frame has a length of its own
(`DataLength`), which the receiver takes from the header it has read: `BodyLength(n)` bytes are read as a body
behind a header of frame n, whichever frames they come from. The assumption `FrameFits` is the test
of the length in `send()` (`dji_serial.cpp:97`), which lets a message without payload through;
`Acceptable` is that of the receiver (`dji_serial.cpp:170`), which refuses it, so such a frame is sent
and never delivered. Whichever bytes of a frame have the value of the head byte is a constant
(`LookAlike`). `DamageIsLocal` bounds what a damaged frame costs: a parser misled by frame m swallows at most
`Reach(m)` bytes behind it, the rest of the length its header gives or of a header; a whole frame farther
behind must be delivered, however many short frames lie between. The number of bytes counts, not the
number of frames, for a long frame of which only the header came through swallows several short ones.
**`LossyChannel`** is the abstract specification: a channel that may lose frames, but delivers none
that was damaged, none twice and none out of order.

**`RobotControl`** is the main loop. An iteration is one step (`Pass` or `Skip`), for no handler
touches its variables. `Read` is what `Remote` leaves behind. Speeds are integers,
truncated where the code assigns a product to an `int`; the PID controllers are reduced to the
speed they aim at, and the bus to the frames it accepted. Bus 2 is fed by the same code
and is not repeated.

The components meet as follows: `RobotControl.Read` abstracts `Remote`, its `Send(room)` the frames
of `DjiMotors`, whose `room` stands for `CanTx`, whose `txQueue` is `BoundedFifo`, which
`AtomicQueue` implements; `CanRx` and `DjiSerial` use the same view of their queues. `CommandMappings`
and `DjiSerial` compose two components each in one state space; of the other links only the
last is a theorem.

Definitions whose name says *...Without..., ...Keeping..., ...Any* and the like, under the
comment "Faulty variants", are plausible slips. Nothing uses them; replacing the
definition that they mimic by one of them breaks one property, which shows that the property
has teeth.

## 3. Runs

| run | instance | shows |
|---|---|---|
| `scheduler` | 4 commands, 3 subsystems, 3 defaults | arbitration invariants, refinement of `SubsystemOwnership`, legitimate schedule, no needless preemption, idle subsystems are taken |
| `queue` | ring of 3, 2 values | no shared slot, refinement of `BoundedFifo` |
| `can_tx` | 6 messages, 3 mailboxes, queue of 2 | nothing lost or doubled, order per route, the chosen mailbox stays empty, the queue drains |
| `can_rx` | 5 messages, FIFO of 3, queue of 2, plain and inverted motor with 6 counts a turn, a stranger | once and in order, the handler always finds a message, turns are counted across losses |
| `mappings` | 5 mappings of 4 kinds, 8 packets, 4 commands, 2 subsystems | nothing runs undemanded, mappings act exactly on edges, repeating mappings persist |
| `serial` | 4 frames of 6, 3, 4 and 4 bytes, a byte harmed, receive buffer of 2, a stray head byte | refinement of `LossyChannel` (whole frames only, in order, each once), damage is local, no queued byte waits with the transmit interrupt off |
| `motors` | 3 motors around the border of the frames, 2 buses, 16 outputs | controllers follow their motors, both handlers know the live motors |
| `remote` | packets of 3 bytes, timeouts 2 and 9, pause 7 | refinement of `RemoteLink` (whole packets only, and the latest), silence disconnects, the transmitter is found |
| `robot` | sticks at rest, half and full; every right switch | modes do not leak, rails share the speed, released sticks stop the robot |
| `can_tx_buffer` | as `can_tx` | **violation**: "if one of the mailboxes is empty ... the software buffer is empty too" is false |
| `motors_error` | as `motors` | **violation**: the error "sendMessage failure" is raised by success |
| `robot_channel` | a garbled packet | **violation**: `getChannel()` leaves [-1, 1] |

Why the bounds are enough. *scheduler*: the four commands show every overlap (equal,
contained, straddling, disjoint), and one default spans two subsystems, another is not
always ready. *queue*: three elements let the indices wrap while the queue is empty, full and in
between; it is proved for every capacity. *can_tx*: six messages exceed mailboxes and queue,
so a message is refused, buffered and sent directly in one behaviour. *can_rx*: five messages
overrun the FIFO and overflow the queue; steps of -2 and 1 of 6 counts pass the wrap both ways, and two
lost messages hide half a turn. *mappings*: every kind, neg keys, a refused
mapping, commands shared by two mappings and commands that exclude each other within one.
*serial*: the first frame is long, the second has no payload, two short ones follow; the receive
buffer of 2 bytes can drop the whole body of the first frame behind its header, whose length then
swallows the second frame and part of the third, while the fourth must come through (a parser that
expected it already behind the third fails here). *motors*: identifiers 4
and 5 are the last of the low and the first of the high frame. *remote*: what matters is
that the pause exceeds the read timeout by the 5 ticks by which `read()` can be late (12 and
6 ms in the robot) and that a packet is shorter than both; with a pause of 6 TLC finds a
packet put together from two. *robot*: five stick patterns, every pair of modes in sequence.

Fairness. *scheduler*: the main loop calls `run()` forever and it does not block: weak
fairness of its steps. *can_tx*: the bus is up and its interrupt enabled: weak fairness of
transmission and handler, none of the main loop, which owes no further message.
*mappings*: the mapper's steps are weakly fair; `run()` and the arrival of packets are strongly fair,
because each can be asked for only between the other's steps: an iteration of the loop reads the
remote and calls `run()`, so of ever more packets some are read between two passes, and passes go on between
packets. Tests that never end are excluded by the property. `HoldRepeatPersists` promises that each command
of an active repeating mapping is scheduled again and again, and that it is also executed if nothing behind it
in the order of a packet wants its subsystems (`HasLastWord`): of two commands that exclude each other within a
packet, the earlier is evicted before `run()` comes. *serial*: weak fairness of `write()`, of an enabled and due transmit interrupt, of
the line and of `updateSerial()`; nobody owes another frame.
*remote*: the loop runs, the clock ticks, the transmitter sends while it is on: weak
fairness of each. After the disconnect timeout every `read()` empties the UART before
looking for a byte, so the remote is found only by a byte that arrives between these two
instructions; `Reconnects` therefore assumes that, of ever more packets, some keep their first
byte (`FirstByteKept`): the periods of loop and bytes are unrelated. *robot*: passes
that find the timer due, room for both frames and no new packet come again and again: the timer
period is 2 ms, a packet's 14 ms.

Deadlock is checked in every run but `can_tx`, `can_tx_buffer`, `can_rx` and `serial`, which stop
when the bounded number of messages has been sent.

## 4. Proofs

`Commands_proofs` has the scheduler's theorems first, then those of the mappings. *Scheduler*
(for any commands, subsystems, requirements and defaults): `TypeCorrect`, `MutualExclusion`, `BitmapsAgree`, `InitializeMeetsEnd`, `LifeCycle`, the action
property `DefaultsAreModest`, and `Refinement` of `SubsystemOwnership`. They assume `IndicesFit`: every
index has a bit in an `unsigned long`. Without it the code is wrong: 64 indices are
handed out, and the masks have 32 bits.
The inductive invariant `Inv` joins the properties, because each needs the others:
evicting the holders restores exclusion only if the association bitmap is the union of the
requirements, removing one command keeps that union only if requirements are disjoint, and
`Balanced` makes each `end()` meet its `initialize()`; "no hardware tests while a pass over
commands or subsystems is under way" is the strengthening that no property states. The lemmas
`SchedulePreserves` and `UnschedulePreserves` treat the two effects once; `NextInv` has a case per
action. The refinement maps a subsystem to the one scheduled command that needs it
(`OwnerIsHolder`).

`AtomicQueue_proofs` (for any capacity and values): `TypeCorrect`, `SlotExclusion`, `ContentIntact`
and `Refinement` of `BoundedFifo`. The inductive invariant adds to the properties that the
producer past its test has room and the consumer past its test has an element: tests may be
stale only in the harmless direction. `Positions` and its companions give the
arithmetic of wrapping once.

`CanTx_proofs` (any capacity and number of messages): `TypeCorrect`, `Conservation`,
`RouteOrder`, `MailboxReserved`. Bus, pending requests and queue form one line (`Line`), along which
the controller and the handler move messages without changing it; only the steps of `sendMessage()`
put something in. So `Inv` is about that line: it holds what was accepted, each message once, and in
order but for direct messages that passed buffered ones; `Reserved` says that the mailbox chosen by
`sendMessage()` is empty and out of the handler's reach, which fills only mailboxes whose completion it
has yet to notice; `Buffered` that what waits in the queue came through it.

`CanRx_proofs` (any motors, strangers, capacity, even resolution and movement of the shafts):
`TypeCorrect`, `DeliveredOnce`, `HandlerSafe`, `EncoderExact`. The pipeline's invariant is stated by its three
parts: numbers rise within and across queue, handler and FIFO, and every number is handled, dropped
or in one of them; `MailboxReady` ties the handler's step, the overrun flag and the filling of
the FIFO. On top of it `EncoderRight`: what was last processed determines the wrapped encoder, and the
unwrapping is exact unless half a turn was missed. The remainders that this needs are lemmas
for every resolution.

`DjiMotors_proofs` (any motors, buses, identifiers, inversions and even number of byte values):
`TypeCorrect` and `FramesCarryOutputs` without hypothesis: each controller of a served bus runs
what the motor in its own entry of the store was asked for. The recursion that fills the frames runs over
eight places, and each is reduced to a closed form; splitting into bytes and joining again are lemmas
about signed 16 bit integers. `HandlersAgree` and `ControllersFollow` assume `DistinctIdentifiers`, which
the nine motors of `main.cpp` satisfy. It is needed: the destructor of a motor that never got into the
store empties the entry of its twin.

`RobotControl_proofs`: `NeverBoth`, `SticksStop` and the action property `VerticalOwned` for any packets
whatever; `TypeCorrect` and `RailsShare` for packets whose channels are `StickPositions`, because a garbled
frame of the right length is believed (`robot_channel` shows it). The inductive invariant is about
what one mode leaves behind for the next: `ModesApart` says that the rails rest in mode 0, the
firing mechanism in the others, and that the override comes with mode 0.

*Mappings* (any mappings, commands, remotes): `MappingsAreCallers` shows that every step of
the mapper is one of the scheduler or leaves it alone, so that all theorems about the
scheduler hold with mappings installed; `RunsOnDemand` and the action property `EdgesOnly` need no hypothesis,
`MapperTypeCorrect` inherits `IndicesFit`. The invariant speaks of the middle of a packet: what is scheduled is
demanded by a mapping as far as it has been visited, a default, or about to be removed by a pending call
(`AllJustified`), and pending calls are meant by the mapping that made them (`CallsMeant`). `EdgesOnly` rests on `InStep`:
the flags of a mapping say of the packet it was shown last whether it was active in it.

`Remote_proofs` (any length of packets and timeouts): `TypeCorrect`, `WholePackets`, `SilenceIsNoticed` and `Refinement` of `RemoteLink`, under
`PauseSeparates`: the pause is at least the read timeout and five ticks, and at most the disconnect
timeout (6 + 5 <= 12 <= 100 in the robot). The invariant has a part about order (`OnePacket`: both
buffers hold bytes of the last packet with rising positions, so that a full buffer is all of it)
and four about time, which count the five ticks: a byte waits in the UART at most two ticks
(`UartPrompt`), so `lastRead` lags by at most two (`Stamped`), an incomplete packet survives the
timeout by at most two (`BufferPrompt`), and the next tick is past it. `PauseEmpties` concludes that the first byte of a packet
meets empty buffers. `DisconnectPrompt` counts the same way for `SilenceDisconnects`. The refinement needs `OnePacket` again:
a complete buffer is a packet, and it is the one that the transmitter is in, so users never see an old one.

`DjiSerial_proofs` (any length of each frame, of header and buffers, any number of frames and errors): `TypeCorrect`,
`InterruptStaysOn`, `FramesFit`, `WholeInOrder` and `Refinement` of `LossyChannel`, with no hypothesis but the
`ASSUME`s of the module. The invariant follows a frame from the array in `write()` to its
delivery. `Sending`: the rest of the current frame is lined up in the register, the queue and the array,
without a gap, so the first place not yet sent (`Gone`) is known; hence no byte overtakes another,
`write()` never meets a full queue, and it enables the interrupt after each byte it queues. `InOrder`:
header, body and queue of the receiver hold genuine bytes in rising order, which the parser's
`read()` of several bytes keeps. `OnlySent`, `Missing`, `Behind` relate the two ends: only bytes that left are
received; a harmed frame misses one of them for good, so it is never complete; nothing of a delivered frame, or of one
before it, is left anywhere. `WholeFrame` concludes that a header and a body
of one frame in rising order, as long as a frame together, are all of it.

All inductive invariants were checked by TLC on the runs' instances before they were proved.

Only model-checked: liveness (`DefaultTakesOver`, `BufferedDrains`, `HoldRepeatPersists`, `DamageIsLocal`,
`Reconnects`, `ReleasedRobotRests`), for which no prover of fairness and `ENABLED` is at hand. Every safety
invariant and action property of a passing run, and each of the four refinements, is a theorem. Four
theorems state what no run needs to repeat: `FramesFit`, the scheduler's types (`MapperTypeOK` of run
`mappings` contains them), and `WholePackets` and `WholeInOrder`, which the refinements of run `remote` and
`serial` contain.

The hypotheses are properties of this program's configuration (identifiers, timeouts, number of
commands) or of its input (`StickPositions`), never of its state; the `ASSUME`s of the
modules type the constants, and TLC evaluates them in every run.

## 5. What is not modelled

* The command registrar and destructors; a command that adds commands inside `initialize()`.
* CAN set-up, filters and bus errors; the latency of interrupt entry: a flag that rises
  while `sendMessage()` executes the read of `TSR` would be noticed after the next instruction.
* PID arithmetic and rounding of `float`. The PID object is shared by nine motors, but its gains
  for integral and derivative are 0: it keeps nothing from one motor to the next.
* Parsing of mouse and keys. When the remote disconnects, `reset()` does not tell the command
  mapper: held commands go on until the next packet. This robot installs no mapping.
* Timers (`Timeout`, `PeriodicTimer`) beyond their use in `Remote` and `RobotControl`.
* Blocking UART writes, `discardTransmitBuffer()`, the terminal, decoding of referee messages,
  menus, sensors, filters, servo, set-point commands, hosted build.

Two things the code does that no property forbids, because no line promises otherwise: defaults that need
{s1, s2} and {s2, s3} evict each other in every pass (`DefaultsPreemptNobody` admits it), and nothing
stops the vertical gimbal when the override ends (`OverrideOwnsVertical` says only that no other mode
changes its speed).

Disagreements with comments seen on the way that no run shows: `isNearlyFull()`
(`queue_impl.hpp:45`) answers the opposite of `queue.hpp:55-60`; masks of 32 bits
(`command_scheduler.cpp:267`) for 64 indices; an inverted motor asked for the most negative
output runs the wrong way (`dji_motor.cpp:107`); destroying a motor that was never initialised
unregisters the live one of the same identifier (`dji_motor_tx_handler.cpp:145`,
`can_rx_handler.cpp:124`), where `can_rx_handler.hpp:101` says that the passed listener is removed; an unknown
right switch selects mode 0 and keeps the override (`main.cpp:162`), while `main.cpp:42`
says "gimble override is mode 0"; `pollCanData()` takes one message of each bus, where
`can_rx_handler.hpp:95-96` says that the call clears the queue; a second listener of an identifier
replaces the first (`can_rx_handler.cpp:59-64`), contrary to `can_rx_handler.hpp:80-82`; the
constructor of `CommandMapping` calls `std::remove_if` without erasing (`command_mapping.cpp:38`), so null
commands are not removed as `command_mapping.hpp:50` says; the loop of `PeriodicTimer::execute()`
(`periodic_timer.hpp:81-84`) does not end when it runs within the last period before the 32 bit clock
wraps, after 49.7 days; the error of a message that was not sent completely
(`dji_serial.cpp:119`) is behind the `return`.

## 6. Plan

1. A composition `Robot` of `Remote` and `RobotControl`, with `RobotControl`'s `Read` as an
   implementation of `RemoteLink`.
2. `CommandRegistrar` (constructors and destructors while scheduled), `Timers` with a clock of few
   bits, the unjam command's states.
