--------------------------- MODULE CommandMappings ---------------------------
(***************************************************************************)
(* tap::control::CommandMapper and the four kinds of CommandMapping, which *)
(* turn what the remote shows into calls of the command scheduler.  Each   *)
(* new packet is shown to every mapping in the order of installation; a    *)
(* mapping remembers what it did, and does not learn what becomes of its   *)
(* commands: they may be refused, finish, be evicted by another mapping's  *)
(* commands or be ended by the hardware tests.                             *)
(*                                                                         *)
(* An input is a key, a mouse button or a position of a switch.  A map     *)
(* state and the remote are the sets of their inputs: an unknown switch    *)
(* contributes none.  Packets are handled between two passes of run().     *)
(***************************************************************************)
EXTENDS CommandScheduler, Sequences

CONSTANTS
  Mapping,         \* the constructed mappings
  AddMapCalls,     \* arguments of addMap, in the order of the calls
  Kind,            \* class of each mapping
  Inputs,          \* keys, buttons and switches of its map state
  GivenNegKeys,    \* neg keys it was constructed with
  MappedCommands,  \* its commands, in order
  RemoteStates,    \* what the remote may show
  NoPacket         \* nothing was received yet

ASSUME MapperTypes ==
  /\ AddMapCalls \in Seq(Mapping)
  /\ Kind \in [Mapping -> {"hold", "hold repeat", "press", "toggle"}]
  /\ MappedCommands \in [Mapping -> Seq(Command)]
  /\ NoPacket \notin RemoteStates

VARIABLES
  remote,     \* the packet in hand, or the last one
  previous,   \* the one before
  visiting,   \* index of the next mapping to show it to, 0 for none
  calls,      \* calls of the scheduler the last mapping has still to make
  on,         \* commandScheduled, commandsScheduled, toggled of each mapping
  pressed     \* pressed of each mapping

mapper == <<remote, previous, visiting, calls, on, pressed>>
allVars == <<vars, mapper>>

-----------------------------------------------------------------------------
(* Map states.                                                             *)

\* initNegKeys refuses neg keys that are keys of the map state.
NegKeys(m) == IF Inputs[m] \cap GivenNegKeys[m] = {} THEN GivenNegKeys[m] ELSE {}

NegKeysHeld(m, packet) ==
  packet # NoPacket /\ NegKeys(m) # {} /\ NegKeys(m) \subseteq packet

mappingSubset(m, packet) == packet # NoPacket /\ Inputs[m] \subseteq packet

Active(m, packet) == mappingSubset(m, packet) /\ ~NegKeysHeld(m, packet)

\* addMap refuses a map state that is installed already.
Installed(k) ==
  \A j \in 1..k - 1 :
    LET old == AddMapCalls[j] new == AddMapCalls[k]
    IN  Inputs[old] # Inputs[new] \/ NegKeys(old) # NegKeys(new)

CommandsOf(m) == {MappedCommands[m][i] : i \in 1..Len(MappedCommands[m])}

CallEach(m, function) ==
  [i \in 1..Len(MappedCommands[m]) |->
     [by |-> m, function |-> function, command |-> MappedCommands[m][i]]]

NextPastEnd(k) == k + 1

NextIndex(k) == IF k < Len(AddMapCalls) THEN k + 1 ELSE 0

Busy == visiting # 0 \/ calls # <<>>

-----------------------------------------------------------------------------
MapperInit ==
  /\ Init
  /\ remote = NoPacket /\ previous = NoPacket
  /\ visiting = 0 /\ calls = <<>>
  /\ on = [m \in Mapping |-> FALSE]
  /\ pressed = [m \in Mapping |-> FALSE]

handleKeyStateChange(packet) ==
  /\ phase = "idle" /\ ~Busy
  /\ previous' = remote /\ remote' = packet
  /\ visiting' = NextIndex(0)
  /\ UNCHANGED <<vars, calls, on, pressed>>

(* executeCommandMapping of each kind.  The mapping's calls follow at once. *)

Hold(m) ==
  /\ on' = [on EXCEPT ![m] = Active(m, remote)]
  /\ calls' = IF on'[m] = on[m] THEN <<>>
              ELSE CallEach(m, IF on'[m] THEN "addCommand" ELSE "removeCommand")
  /\ UNCHANGED pressed

\* Faulty variant: commands are only tried when the mapping becomes active.
HoldRepeatOnce(m) ==
  /\ on' = [on EXCEPT ![m] = Active(m, remote)]
  /\ calls' = IF on'[m] = on[m] THEN <<>>
              ELSE CallEach(m, IF on'[m] THEN "add unless scheduled" ELSE "removeCommand")
  /\ UNCHANGED pressed

\* Each command is looked up in the scheduler before it is added.
HoldRepeat(m) ==
  /\ on' = [on EXCEPT ![m] = Active(m, remote)]
  /\ calls' = IF on'[m] THEN CallEach(m, "add unless scheduled")
              ELSE IF on[m] THEN CallEach(m, "removeCommand") ELSE <<>>
  /\ UNCHANGED pressed

\* Faulty variant: the release is not noticed.
PressOnce(m) ==
  /\ pressed' = [pressed EXCEPT ![m] = @ \/ Active(m, remote)]
  /\ calls' = IF pressed'[m] /\ ~pressed[m] THEN CallEach(m, "addCommand") ELSE <<>>
  /\ UNCHANGED on

Press(m) ==
  /\ pressed' = [pressed EXCEPT ![m] = Active(m, remote)]
  /\ calls' = IF pressed'[m] /\ ~pressed[m] THEN CallEach(m, "addCommand") ELSE <<>>
  /\ UNCHANGED on

\* Faulty variant: neg keys forget the commands.
ToggleForgetting(m) ==
  /\ pressed' = [pressed EXCEPT ![m] = Active(m, remote)]
  /\ IF NegKeysHeld(m, remote)
       THEN on' = [on EXCEPT ![m] = FALSE] /\ calls' = <<>>
       ELSE IF pressed'[m] /\ ~pressed[m]
              THEN /\ on' = [on EXCEPT ![m] = ~@]
                   /\ calls' = CallEach(m, IF on[m] THEN "removeCommand" ELSE "addCommand")
              ELSE calls' = <<>> /\ UNCHANGED on

\* Neg keys reset the mapping, whether its own keys are held or not.
Toggle(m) ==
  /\ pressed' = [pressed EXCEPT ![m] = Active(m, remote)]
  /\ IF NegKeysHeld(m, remote)
       THEN /\ on' = [on EXCEPT ![m] = FALSE]
            /\ calls' = IF on[m] THEN CallEach(m, "removeCommand") ELSE <<>>
       ELSE IF pressed'[m] /\ ~pressed[m]
              THEN /\ on' = [on EXCEPT ![m] = ~@]
                   /\ calls' = CallEach(m, IF on[m] THEN "removeCommand" ELSE "addCommand")
              ELSE calls' = <<>> /\ UNCHANGED on

executeCommandMapping(m) ==
  \/ Kind[m] = "hold" /\ Hold(m)
  \/ Kind[m] = "hold repeat" /\ HoldRepeat(m)
  \/ Kind[m] = "press" /\ Press(m)
  \/ Kind[m] = "toggle" /\ Toggle(m)

Visit ==
  /\ visiting # 0 /\ calls = <<>>
  /\ visiting' = NextIndex(visiting)
  /\ IF Installed(visiting)
       THEN executeCommandMapping(AddMapCalls[visiting])
       ELSE UNCHANGED <<calls, on, pressed>>
  /\ UNCHANGED <<vars, remote, previous>>

\* One call of the scheduler.
MakeCall ==
  /\ calls # <<>>
  /\ LET c == Head(calls).command function == Head(calls).function IN
     \/ /\ function = "removeCommand"
        /\ IF c \in added THEN Unschedule(c) ELSE UNCHANGED <<associated, added, active>>
     \/ /\ function \in {"addCommand", "add unless scheduled"}
        /\ function = "addCommand" \/ c \notin added
        /\ \E ready \in Readiness(c) :
             IF ready /\ Acceptable(c) THEN Schedule(c) ELSE UNCHANGED <<associated, added, active>>
     \/ /\ function = "add unless scheduled" /\ c \in added
        /\ UNCHANGED <<associated, added, active>>
  /\ calls' = Tail(calls)
  /\ UNCHANGED <<registered, testing, testsComplete, phase, cursor>>
  /\ UNCHANGED <<remote, previous, visiting, on, pressed>>

\* The rest of the program: passes, registrations and hardware tests.
Scheduler ==
  /\ ~Busy
  /\ Run \/ (\E s \in Subsystem : RegisterSubsystem(s)) \/ StartHardwareTests \/ StopHardwareTests
  /\ UNCHANGED mapper

-----------------------------------------------------------------------------
Packet == \E packet \in RemoteStates : handleKeyStateChange(packet)

MapperNext == Packet \/ Visit \/ MakeCall \/ Scheduler

\* The main loop reads the remote and runs the scheduler forever; the remote
\* keeps sending, and some packets are read between two passes.
MapperSpec ==
  /\ MapperInit /\ [][MapperNext]_allVars
  /\ WF_allVars(Visit \/ MakeCall)
  /\ SF_allVars(~Busy /\ Run /\ UNCHANGED mapper)
  /\ SF_allVars(Packet)

-----------------------------------------------------------------------------
(* Properties.                                                             *)

\* Every variable stays in its range, those of the scheduler included.
MapperTypeOK ==
  /\ TypeOK
  /\ {remote, previous} \subseteq RemoteStates \cup {NoPacket}
  /\ visiting \in 0..Len(AddMapCalls)
  /\ calls \in Seq([by : Mapping,
                    function : {"addCommand", "removeCommand", "add unless scheduled"},
                    command : Command])
  /\ on \in [Mapping -> BOOLEAN] /\ pressed \in [Mapping -> BOOLEAN]

\* Mapping m wants its commands scheduled.
Demands(m) ==
  \/ Kind[m] \in {"hold", "hold repeat"} /\ Active(m, remote)
  \/ Kind[m] = "toggle" /\ on[m] /\ ~NegKeysHeld(m, remote)

\* No mapping leaves a command behind: whatever was refused, evicted, finished
\* or tested away in between, once a packet is handled a mapped command runs
\* only if a mapping that shows in this packet, or is toggled on, demands it.
\* Commands that press mappings or the scheduler's defaults start are exempt.
ScheduledOnDemand ==
  ~Busy =>
    \A c \in added :
      \/ \E k \in 1..Len(AddMapCalls) :
           LET m == AddMapCalls[k] IN
           Installed(k) /\ c \in CommandsOf(m) /\ (Kind[m] = "press" \/ Demands(m))
      \/ \E s \in Subsystem : DefaultCommand[s] = c

\* What of two packets in a row makes a mapping act.
BecameActive(m) == Active(m, remote) /\ ~Active(m, previous)
BecameInactive(m) == ~Active(m, remote) /\ Active(m, previous)

Edge(m) ==
  \/ BecameActive(m)
  \/ Kind[m] = "hold" /\ BecameInactive(m)
  \/ Kind[m] = "hold repeat" /\ (Active(m, remote) \/ BecameInactive(m))
  \/ Kind[m] = "toggle" /\ NegKeysHeld(m, remote) /\ on[m]

\* The remote repeats its state in every packet: a mapping calls the scheduler
\* exactly when two packets in a row differ in what it waits for, however long
\* that lasted, and again after each release; a repeating one in every packet
\* that shows it, and neg keys call off what is toggled on.
ActsOnEdges ==
  [][Visit /\ Installed(visiting) =>
       LET m == AddMapCalls[visiting] IN
       calls' # <<>> <=> MappedCommands[m] # <<>> /\ Edge(m)]_allVars

\* Nothing that is mapped behind command i of the k-th mapping, there or in a
\* later mapping, wants its subsystems.
HasLastWord(k, i) ==
  LET list == MappedCommands[AddMapCalls[k]] IN
  /\ \A j \in (i + 1)..Len(list) : Needs(list[i]) \cap Needs(list[j]) = {}
  /\ \A l \in (k + 1)..Len(AddMapCalls) : \A c \in CommandsOf(AddMapCalls[l]) :
       Installed(l) => Needs(list[i]) \cap Needs(c) = {}

\* A repeating mapping that stays active has each of its commands scheduled
\* again and again, although rivals evict them, the commands finish and the
\* mapping's own commands may exclude each other; a command that has the last
\* word in a packet is also executed again and again.  Hardware tests must end.
HoldRepeatPersists ==
  \A k \in 1..Len(AddMapCalls) :
    LET m == AddMapCalls[k] IN
    Installed(k) /\ Kind[m] = "hold repeat" =>
      \A i \in 1..Len(MappedCommands[m]) :
        LET c == MappedCommands[m][i] IN
        <>[](Active(m, remote) /\ ~testing /\ c \in AlwaysReady
               /\ Needs(c) # {} /\ Needs(c) \subseteq registered)
          => []<>(c \in added) /\
             (HasLastWord(k, i) => []<>(phase = "commands" /\ AtCursor(c, added)))
=============================================================================
