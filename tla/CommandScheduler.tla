-------------------------- MODULE CommandScheduler --------------------------
(***************************************************************************)
(* tap::control::CommandScheduler: the arbiter that decides which commands *)
(* control which subsystems of the robot.  Commands and subsystems are     *)
(* named by their index in the global registrars, the bit they occupy in   *)
(* the scheduler's bitmaps; a bitmap is the set of the bits that are set.  *)
(*                                                                         *)
(* run() is taken apart at its virtual calls: one step per command it      *)
(* executes and one per subsystem it refreshes, in increasing index order  *)
(* over the live bitmaps.  The other entry points are called by the main   *)
(* loop (command mappings, the hardware test menu) between two runs.       *)
(***************************************************************************)
EXTENDS Integers, FiniteSets

CONSTANTS
  Command,         \* indices of the constructed commands
  Subsystem,       \* indices of the constructed subsystems
  NoCommand,       \* nullptr
  Requirements,    \* subsystems handed to addSubsystemRequirement
  DefaultCommand,  \* Subsystem::getDefaultCommand
  AlwaysReady,     \* commands that keep Command::isReady, which returns true
  IsMaster,        \* isMasterScheduler
  LongBits         \* width of unsigned long, the type of the masks 1UL << id

ASSUME IndicesAreNaturals == Command \subseteq Nat /\ Subsystem \subseteq Nat
ASSUME NullIsNoCommand == NoCommand \notin Command
ASSUME RequirementsType == Requirements \in [Command -> SUBSET Subsystem]
ASSUME DefaultType == DefaultCommand \in [Subsystem -> Command \cup {NoCommand}]
ASSUME ReadyType == AlwaysReady \subseteq Command
ASSUME MasterType == IsMaster \in BOOLEAN
ASSUME LongBitsType == LongBits \in Nat

VARIABLES
  registered,      \* registeredSubsystemBitmap
  associated,      \* subsystemsAssociatedWithCommandBitmap
  added,           \* addedCommandBitmap
  testing,         \* runningHardwareTests
  testsComplete,   \* subsystems whose hardwareTestsComplete is true
  phase,           \* where run() is, "idle" outside of it
  cursor,          \* smallest index the iterator of run() can still visit
  active           \* calls of initialize() minus calls of end(), per command

vars == <<registered, associated, added, testing, testsComplete, phase, cursor, active>>

-----------------------------------------------------------------------------
(* Bitmaps: the maps are 64 bits wide, the masks are unsigned longs.  A    *)
(* register shift by the width or more yields 0 on the ARM target, so a    *)
(* bit beyond LongBits can be neither set, cleared nor found.              *)

Mask(i) == IF i < LongBits THEN {i} ELSE {}

Bits(S) == {i \in S : i < LongBits}

Needs(c) == Bits(Requirements[c])

\* Faulty variants (here and below): each is what a slip in the code would make
\* of the definition that follows it; no action uses them.
HoldersOfNothingElse(subs) == {c \in added : Needs(c) # {} /\ Needs(c) \subseteq subs}

Holders(subs) == {c \in added : Needs(c) \cap subs # {}}

\* The element the live iterator of run() is at: the smallest one left.
AtCursor(i, S) == i \in S /\ i >= cursor /\ \A j \in S : j >= cursor => i <= j

PastEndTooSoon(S) == \A i \in S : i <= cursor

PastEnd(S) == \A i \in S : i < cursor

-----------------------------------------------------------------------------
(* The effects shared by the entry points.                                 *)

AcceptableDuringTests(c) == Needs(c) # {} /\ Needs(c) \subseteq registered

Acceptable(c) == ~testing /\ Needs(c) # {} /\ Needs(c) \subseteq registered

\* addCommand past its error returns: end(true) for every command that holds
\* a subsystem c needs (c itself if it runs already), then initialize().
Schedule(c) ==
  LET evicted == Holders(Needs(c)) IN
  /\ associated' = (associated \ UNION {Needs(d) : d \in evicted}) \cup Needs(c)
  /\ added' = (added \ evicted) \cup Mask(c)
  /\ active' = [d \in Command |->
                  active[d] - (IF d \in evicted THEN 1 ELSE 0) + (IF d = c THEN 1 ELSE 0)]

UnscheduleKeepsAssociation(c) ==
  /\ added' = added \ {c}
  /\ active' = [active EXCEPT ![c] = @ - 1]
  /\ UNCHANGED associated

\* removeCommand of a scheduled command.
Unschedule(c) ==
  /\ associated' = associated \ Needs(c)
  /\ added' = added \ {c}
  /\ active' = [active EXCEPT ![c] = @ - 1]

Readiness(c) == IF c \in AlwaysReady THEN {TRUE} ELSE BOOLEAN

Init ==
  /\ registered = {} /\ associated = {} /\ added = {}
  /\ testing = FALSE /\ testsComplete = {}
  /\ phase = "idle" /\ cursor = 0
  /\ active = [c \in Command |-> 0]

-----------------------------------------------------------------------------
(* Entry points called between two runs.                                   *)

RegisterSubsystem(s) ==
  /\ phase = "idle"
  /\ s \notin registered
  /\ registered' = registered \cup Mask(s)
  /\ UNCHANGED <<associated, added, testing, testsComplete, phase, cursor, active>>

AddCommand(c) ==
  /\ phase = "idle"
  /\ Acceptable(c)
  /\ TRUE \in Readiness(c)
  /\ Schedule(c)
  /\ UNCHANGED <<registered, testing, testsComplete, phase, cursor>>

RemoveCommand(c) ==
  /\ phase = "idle"
  /\ c \in added
  /\ Unschedule(c)
  /\ UNCHANGED <<registered, testing, testsComplete, phase, cursor>>

StartHardwareTestsWithoutEnd ==
  /\ phase = "idle"
  /\ testing' = TRUE
  /\ added' = {} /\ associated' = {}
  /\ testsComplete' = testsComplete \ registered
  /\ UNCHANGED <<registered, phase, cursor, active>>

StartHardwareTests ==
  /\ phase = "idle"
  /\ testing' = TRUE
  /\ active' = [c \in Command |-> active[c] - (IF c \in added THEN 1 ELSE 0)]
  /\ added' = {} /\ associated' = {}
  /\ testsComplete' = testsComplete \ registered
  /\ UNCHANGED <<registered, phase, cursor>>

StopHardwareTests ==
  /\ phase = "idle"
  /\ testsComplete' = testsComplete \cup registered
  /\ testing' = FALSE
  /\ UNCHANGED <<registered, associated, added, phase, cursor, active>>

-----------------------------------------------------------------------------
(* One pass of run().                                                      *)

BeginRun ==
  /\ phase = "idle"
  /\ phase' = IF testing THEN "tests" ELSE "commands"
  /\ cursor' = 0
  /\ UNCHANGED <<registered, associated, added, testing, testsComplete, active>>

\* execute(); a command that reports isFinished() is removed.
ExecuteCommand(c) ==
  /\ phase = "commands"
  /\ AtCursor(c, added)
  /\ cursor' = c + 1
  /\ \/ Unschedule(c)
     \/ UNCHANGED <<associated, added, active>>
  /\ UNCHANGED <<registered, testing, testsComplete, phase>>

EndCommands ==
  /\ phase = "commands"
  /\ PastEnd(added)
  /\ phase' = "subsystems"
  /\ cursor' = 0
  /\ UNCHANGED <<registered, associated, added, testing, testsComplete, active>>

RefreshBusySubsystem(s) ==
  /\ phase = "subsystems"
  /\ AtCursor(s, registered)
  /\ cursor' = s + 1
  /\ \/ /\ IsMaster /\ DefaultCommand[s] # NoCommand
        /\ Acceptable(DefaultCommand[s])
        /\ Schedule(DefaultCommand[s])
     \/ UNCHANGED <<associated, added, active>>
  /\ UNCHANGED <<registered, testing, testsComplete, phase>>

\* refresh(); an idle subsystem gets its default command.
RefreshSubsystem(s) ==
  /\ phase = "subsystems"
  /\ AtCursor(s, registered)
  /\ cursor' = s + 1
  /\ IF IsMaster /\ s \notin associated /\ DefaultCommand[s] # NoCommand
       THEN \E ready \in Readiness(DefaultCommand[s]) :
              IF ready /\ Acceptable(DefaultCommand[s])
                THEN Schedule(DefaultCommand[s])
                ELSE UNCHANGED <<associated, added, active>>
       ELSE UNCHANGED <<associated, added, active>>
  /\ UNCHANGED <<registered, testing, testsComplete, phase>>

\* runHardwareTests() of an incomplete subsystem may complete its test.
TestSubsystem(s) ==
  /\ phase = "tests"
  /\ AtCursor(s, registered)
  /\ cursor' = s + 1
  /\ testsComplete' \in {testsComplete, testsComplete \cup {s}}
  /\ UNCHANGED <<registered, associated, added, testing, phase, active>>

EndRun ==
  /\ phase \in {"subsystems", "tests"}
  /\ PastEnd(registered)
  /\ phase' = "idle"
  /\ cursor' = 0
  /\ UNCHANGED <<registered, associated, added, testing, testsComplete, active>>

-----------------------------------------------------------------------------
Run ==
  \/ BeginRun
  \/ \E c \in Command : ExecuteCommand(c)
  \/ EndCommands
  \/ \E s \in Subsystem : RefreshSubsystem(s) \/ TestSubsystem(s)
  \/ EndRun

Request ==
  \/ \E s \in Subsystem : RegisterSubsystem(s)
  \/ \E c \in Command : AddCommand(c) \/ RemoveCommand(c)
  \/ StartHardwareTests
  \/ StopHardwareTests

Next == Run \/ Request

Spec == Init /\ [][Next]_vars

\* The main loop calls run() forever and run() has no blocking call.
FairSpec == Spec /\ WF_vars(Run)
-----------------------------------------------------------------------------
(* Properties.                                                             *)

\* Every variable stays in its range; in particular no command is initialised
\* twice without an end() in between, nor ended twice.
TypeOK ==
  /\ registered \in SUBSET Subsystem
  /\ associated \in SUBSET Subsystem
  /\ added \in SUBSET Command
  /\ testing \in BOOLEAN
  /\ testsComplete \in SUBSET Subsystem
  /\ phase \in {"idle", "commands", "subsystems", "tests"}
  /\ cursor \in Nat
  /\ active \in [Command -> 0..1]

\* "Multiple commands that require the same subsystem cannot run at the same
\* time" (class comment): the scheduled commands' requirements are disjoint.
ExclusiveSubsystems ==
  \A c, d \in added : c # d => Needs(c) \cap Needs(d) = {}

\* The two bitmaps agree: a subsystem is marked as associated exactly when a
\* scheduled command requires it.  run() relies on it to decide which
\* subsystems are idle, yet the marks are cleared command by command.
AssociationIsUnion == associated = UNION {Needs(c) : c \in added}

\* initialize() and end() calls match: a command is between the two exactly
\* when its bit is set, whichever of the five paths scheduled or removed it.
Balanced == \A c \in Command : active[c] = IF c \in added THEN 1 ELSE 0

\* addCommand's check outlives the call: no scheduled command ever controls a
\* subsystem this scheduler does not refresh, and none controls nothing.
RequirementsRegistered == \A c \in added : Needs(c) # {} /\ Needs(c) \subseteq registered

\* While hardware tests drive the subsystems no command holds one.
QuietWhileTesting == testing => added = {} /\ associated = {}

\* addCommand's checks outlive the call: the hardware tests start and subsystems
\* are registered while commands run, under the iterators and past the pass.
LegitimateSchedule == RequirementsRegistered /\ QuietWhileTesting

\* Every index has a bit: what the theorems assume of the width.
IndicesFit == Command \cup Subsystem \subseteq 0..(LongBits - 1)

\* The inductive invariant behind the theorems.
Inv ==
  /\ TypeOK
  /\ ExclusiveSubsystems
  /\ AssociationIsUnion
  /\ Balanced
  /\ RequirementsRegistered
  /\ QuietWhileTesting
  /\ phase \in {"commands", "subsystems"} => ~testing

\* The pass over the subsystems fills idle ones: it ends a running command
\* only for the default of an idle subsystem, and only if that default also
\* requires another subsystem, which the command held.
DefaultsPreemptNobody ==
  [][phase = "subsystems" =>
       \A c \in added \ added' :
         \E s \in registered \ associated :
           /\ DefaultCommand[s] \in added'
           /\ (Needs(DefaultCommand[s]) \cap Needs(c)) \ {s} # {}]_vars

\* A default that can always be accepted for its own subsystem.
Dependable(s) ==
  LET c == DefaultCommand[s] IN
  c # NoCommand /\ c \in AlwaysReady /\ s \in Needs(c) /\ Needs(c) \subseteq registered

\* A registered idle subsystem with a default command that is always ready
\* does not stay idle: run() schedules a command for it, unless the hardware
\* tests begin.
DefaultTakesOver ==
  \A s \in Subsystem :
    (s \in registered \ associated /\ Dependable(s)) ~> (s \in associated \/ testing)

\* The scheduler implements the map from subsystems to commands.
OwnerOf == [s \in Subsystem |->
              IF \E c \in added : s \in Needs(c)
              THEN CHOOSE c \in added : s \in Needs(c)
              ELSE NoCommand]

Ownership == INSTANCE SubsystemOwnership
               WITH owner <- OwnerOf, Demand <- [c \in Command |-> Needs(c)]

\* Each step of the scheduler hands subsystems over as the abstract map does:
\* all the subsystems of a command at once, in one direction at a time.
ImplementsOwnership == Ownership!Spec
=============================================================================
