--------------------------- MODULE Commands_proofs ---------------------------
(***************************************************************************)
(* First the scheduler's invariants for every set of commands and          *)
(* subsystems and every choice of requirements and defaults, provided each *)
(* index has a bit in an unsigned long; nothing there uses what is assumed *)
(* of mappings.  Then the mappings: for any mappings, commands and remotes *)
(* they are callers of the scheduler like any other, what it runs is on    *)
(* demand, and they act on edges.                                          *)
(***************************************************************************)
EXTENDS CommandMappings, TLAPS

-----------------------------------------------------------------------------
(* The scheduler.                                                          *)

\* The invariant's part that addCommand and removeCommand must restore.
Arbitration ==
  /\ associated \in SUBSET Subsystem
  /\ added \in SUBSET Command
  /\ active \in [Command -> 0..1]
  /\ ExclusiveSubsystems
  /\ AssociationIsUnion
  /\ Balanced
  /\ RequirementsRegistered

\* A mask has exactly one bit when the index fits.
LEMMA MaskIsBit ==
  ASSUME IndicesFit, NEW i \in Command \cup Subsystem
  PROVE  Mask(i) = {i}
<1>1. i \in 0..(LongBits - 1)
  BY DEF IndicesFit
<1> QED
  BY <1>1, LongBitsType DEF Mask

\* Requirements are sets of subsystems.
LEMMA NeedsType ==
  ASSUME NEW c \in Command
  PROVE  Needs(c) \in SUBSET Subsystem
BY RequirementsType DEF Needs, Bits

\* addCommand: evicting every holder and taking the subsystems leaves the
\* bitmaps consistent.
LEMMA SchedulePreserves ==
  ASSUME IndicesFit, Arbitration, NEW c \in Command, Acceptable(c), Schedule(c),
         UNCHANGED registered
  PROVE  Arbitration'
<1> DEFINE evicted == Holders(Needs(c))
           freed == UNION {Needs(d) : d \in evicted}
<1>1. /\ associated' = (associated \ freed) \cup Needs(c)
      /\ added' = (added \ evicted) \cup {c}
      /\ active' = [d \in Command |->
                      active[d] - (IF d \in evicted THEN 1 ELSE 0) + (IF d = c THEN 1 ELSE 0)]
  BY MaskIsBit DEF Schedule
<1>2. added \subseteq Command /\ evicted \subseteq added
  BY DEF Arbitration, Holders
<1>3. \A d \in Command : Needs(d) \in SUBSET Subsystem
  BY NeedsType
<1>4. c \in added => c \in evicted
  BY DEF Arbitration, Holders, RequirementsRegistered
<1>5. ASSUME NEW d \in added \ evicted
      PROVE  Needs(d) \cap Needs(c) = {}
  BY <1>2, <1>5 DEF Holders
<1>6. ASSUME NEW d \in added \ evicted
      PROVE  Needs(d) \cap freed = {}
  BY <1>2, <1>6 DEF Arbitration, ExclusiveSubsystems
<1>7. added' \in SUBSET Command
  BY <1>1, <1>2
<1>8. ExclusiveSubsystems'
  <2> SUFFICES ASSUME NEW d \in added', NEW e \in added', d # e
               PROVE  Needs(d) \cap Needs(e) = {}
    BY DEF ExclusiveSubsystems, Needs, Bits
  <2>1. CASE d = c
    BY <2>1, <1>1, <1>5
  <2>2. CASE e = c
    BY <2>2, <1>1, <1>5
  <2>3. CASE d # c /\ e # c
    BY <2>3, <1>1 DEF Arbitration, ExclusiveSubsystems
  <2> QED
    BY <2>1, <2>2, <2>3
<1>9. associated' = UNION {Needs(d) : d \in added'}
  <2>1. associated = UNION {Needs(d) : d \in added}
    BY DEF Arbitration, AssociationIsUnion
  <2>2. ASSUME NEW s \in associated'
        PROVE  \E d \in added' : s \in Needs(d)
    BY <2>1, <2>2, <1>1
  <2>3. ASSUME NEW d \in added', NEW s \in Needs(d)
        PROVE  s \in associated'
    <3>1. CASE d = c
      BY <3>1, <2>3, <1>1
    <3>2. CASE d # c
      <4>1. d \in added \ evicted
        BY <3>2, <1>1
      <4>2. s \in associated /\ s \notin freed
        BY <4>1, <2>1, <1>6, <2>3
      <4> QED
        BY <4>2, <1>1
    <3> QED
      BY <3>1, <3>2
  <2> QED
    BY <2>2, <2>3
<1>10. associated' \in SUBSET Subsystem
  BY <1>9, <1>7, <1>3
<1>11. AssociationIsUnion'
  BY <1>9 DEF AssociationIsUnion, Needs, Bits
<1>12. \A d \in Command : active'[d] = IF d \in added' THEN 1 ELSE 0
  <2> SUFFICES ASSUME NEW d \in Command
               PROVE  active'[d] = IF d \in added' THEN 1 ELSE 0
    OBVIOUS
  <2>1. active[d] = IF d \in added THEN 1 ELSE 0
    BY DEF Arbitration, Balanced
  <2>2. active'[d] = active[d] - (IF d \in evicted THEN 1 ELSE 0) + (IF d = c THEN 1 ELSE 0)
    BY <1>1
  <2>3. CASE d = c
    BY <2>1, <2>2, <2>3, <1>1, <1>2, <1>4
  <2>4. CASE d # c
    BY <2>1, <2>2, <2>4, <1>1, <1>2
  <2> QED
    BY <2>3, <2>4
<1>13. active' \in [Command -> 0..1]
  <2>1. DOMAIN active' = Command /\ \A d \in Command : active'[d] \in 0..1
    BY <1>1, <1>12
  <2> QED
    BY <2>1, <1>1
<1>14. Balanced'
  BY <1>12 DEF Balanced
<1>15. RequirementsRegistered'
  <2> SUFFICES ASSUME NEW d \in added'
               PROVE  Needs(d) # {} /\ Needs(d) \subseteq registered
    BY DEF RequirementsRegistered, Needs, Bits
  <2>1. CASE d = c
    BY <2>1 DEF Acceptable
  <2>2. CASE d # c
    BY <2>2, <1>1 DEF Arbitration, RequirementsRegistered
  <2> QED
    BY <2>1, <2>2
<1> QED
  BY <1>7, <1>8, <1>10, <1>11, <1>13, <1>14, <1>15 DEF Arbitration

\* removeCommand: a scheduled command gives back its subsystems and no others.
LEMMA UnschedulePreserves ==
  ASSUME Arbitration, NEW c \in Command, c \in added, Unschedule(c),
         UNCHANGED registered
  PROVE  Arbitration'
<1>1. /\ associated' = associated \ Needs(c)
      /\ added' = added \ {c}
      /\ active' = [active EXCEPT ![c] = @ - 1]
  BY DEF Unschedule
<1>2. associated' = UNION {Needs(d) : d \in added'}
  <2>1. associated = UNION {Needs(d) : d \in added}
    BY DEF Arbitration, AssociationIsUnion
  <2>2. \A d \in added' : Needs(d) \cap Needs(c) = {}
    BY <1>1 DEF Arbitration, ExclusiveSubsystems
  <2> QED
    BY <1>1, <2>1, <2>2
<1>3. ExclusiveSubsystems'
  BY <1>1 DEF Arbitration, ExclusiveSubsystems, Needs, Bits
<1>4. AssociationIsUnion'
  BY <1>2 DEF AssociationIsUnion, Needs, Bits
<1>5. \A d \in Command : active'[d] = IF d \in added' THEN 1 ELSE 0
  BY <1>1 DEF Arbitration, Balanced
<1>6. active' \in [Command -> 0..1]
  BY <1>1, <1>5 DEF Arbitration
<1>7. RequirementsRegistered'
  BY <1>1 DEF Arbitration, RequirementsRegistered, Needs, Bits
<1>8. associated' \in SUBSET Subsystem /\ added' \in SUBSET Command
  BY <1>1 DEF Arbitration
<1> QED
  BY <1>3, <1>4, <1>5, <1>6, <1>7, <1>8 DEF Arbitration, Balanced

\* Steps that change neither a bitmap nor a call count keep the arbitration.
LEMMA ArbitrationStable ==
  ASSUME Arbitration, UNCHANGED <<associated, added, active>>,
         registered \subseteq registered'
  PROVE  Arbitration'
BY DEF Arbitration, ExclusiveSubsystems, AssociationIsUnion, Balanced,
       RequirementsRegistered, Needs, Bits

-----------------------------------------------------------------------------
(* The other half of the invariant: the control state of run() and of the  *)
(* hardware tests.                                                         *)

Control ==
  /\ registered \in SUBSET Subsystem
  /\ testing \in BOOLEAN
  /\ testsComplete \in SUBSET Subsystem
  /\ phase \in {"idle", "commands", "subsystems", "tests"}
  /\ cursor \in Nat
  /\ QuietWhileTesting
  /\ phase \in {"commands", "subsystems"} => ~testing

\* The invariant is what concerns the bitmaps and what concerns run().
LEMMA InvParts == Inv <=> Arbitration /\ Control
BY DEF Inv, TypeOK, Arbitration, Control

\* The scheduler as constructed satisfies the invariant.
LEMMA InitInv == Init => Inv
<1> SUFFICES ASSUME Init PROVE Inv
  OBVIOUS
<1>1. Arbitration
  BY DEF Init, Arbitration, ExclusiveSubsystems, AssociationIsUnion, Balanced,
         RequirementsRegistered
<1>2. Control
  BY DEF Init, Control, QuietWhileTesting
<1> QED
  BY <1>1, <1>2, InvParts

\* One case per entry point and per step of run().
LEMMA NextInv ==
  ASSUME IndicesFit, Inv, [Next]_vars
  PROVE  Inv'
<1> USE DEF Control
<1>0. Arbitration /\ Control
  BY InvParts
<1>1. ASSUME NEW s \in Subsystem, RegisterSubsystem(s)
      PROVE  Arbitration' /\ Control'
  <2>1. registered \subseteq registered' /\ registered' \in SUBSET Subsystem
    BY <1>0, <1>1 DEF RegisterSubsystem, Mask
  <2>2. Arbitration'
    BY <1>0, <1>1, <2>1, ArbitrationStable DEF RegisterSubsystem
  <2>3. Control'
    BY <1>0, <1>1, <2>1 DEF RegisterSubsystem, QuietWhileTesting
  <2> QED
    BY <2>2, <2>3
<1>2. ASSUME NEW c \in Command, AddCommand(c)
      PROVE  Arbitration' /\ Control'
  <2>1. Arbitration'
    BY <1>0, <1>2, SchedulePreserves DEF AddCommand
  <2>2. Control'
    BY <1>0, <1>2 DEF AddCommand, Acceptable, QuietWhileTesting
  <2> QED
    BY <2>1, <2>2
<1>3. ASSUME NEW c \in Command, RemoveCommand(c)
      PROVE  Arbitration' /\ Control'
  <2>1. Arbitration'
    BY <1>0, <1>3, UnschedulePreserves DEF RemoveCommand
  <2>2. Control'
    BY <1>0, <1>3 DEF RemoveCommand, QuietWhileTesting
  <2> QED
    BY <2>1, <2>2
<1>4. ASSUME StartHardwareTests
      PROVE  Arbitration' /\ Control'
  <2>1. Control'
    BY <1>0, <1>4 DEF StartHardwareTests, QuietWhileTesting
  <2>2. added' = {} /\ associated' = {}
    BY <1>4 DEF StartHardwareTests
  <2>3. \A c \in Command : active'[c] = 0
    BY <1>0, <1>4 DEF StartHardwareTests, Arbitration, Balanced
  <2>4. active' \in [Command -> 0..1]
    BY <1>4, <2>3 DEF StartHardwareTests
  <2>5. Arbitration'
    BY <2>2, <2>3, <2>4 DEF Arbitration, ExclusiveSubsystems, AssociationIsUnion,
                            Balanced, RequirementsRegistered
  <2> QED
    BY <2>1, <2>5
<1>5. ASSUME StopHardwareTests
      PROVE  Arbitration' /\ Control'
  <2>1. Arbitration'
    BY <1>0, <1>5, ArbitrationStable DEF StopHardwareTests
  <2>2. Control'
    BY <1>0, <1>5 DEF StopHardwareTests, QuietWhileTesting
  <2> QED
    BY <2>1, <2>2
<1>6. ASSUME BeginRun \/ EndCommands \/ EndRun
      PROVE  Arbitration' /\ Control'
  <2>1. Arbitration'
    BY <1>0, <1>6, ArbitrationStable DEF BeginRun, EndCommands, EndRun
  <2>2. Control'
    BY <1>0, <1>6 DEF BeginRun, EndCommands, EndRun, QuietWhileTesting
  <2> QED
    BY <2>1, <2>2
<1>7. ASSUME NEW c \in Command, ExecuteCommand(c)
      PROVE  Arbitration' /\ Control'
  <2>1. Arbitration'
    <3>1. CASE Unschedule(c)
      BY <1>0, <1>7, <3>1, UnschedulePreserves DEF ExecuteCommand, AtCursor
    <3>2. CASE UNCHANGED <<associated, added, active>>
      BY <1>0, <1>7, <3>2, ArbitrationStable DEF ExecuteCommand
    <3> QED
      BY <1>7, <3>1, <3>2 DEF ExecuteCommand
  <2>2. c + 1 \in Nat
    BY IndicesAreNaturals
  <2>3. Control'
    BY <1>0, <1>7, <2>2 DEF ExecuteCommand, QuietWhileTesting
  <2> QED
    BY <2>1, <2>3
<1>8. ASSUME NEW s \in Subsystem, RefreshSubsystem(s)
      PROVE  Arbitration' /\ Control'
  <2> DEFINE d == DefaultCommand[s]
  <2>1. \/ d \in Command /\ Acceptable(d) /\ Schedule(d)
        \/ UNCHANGED <<associated, added, active>>
    BY <1>8, DefaultType DEF RefreshSubsystem
  <2>2. UNCHANGED <<registered, testing, testsComplete, phase>> /\ cursor' = s + 1
    BY <1>8 DEF RefreshSubsystem
  <2>3. Arbitration'
    <3>1. CASE d \in Command /\ Acceptable(d) /\ Schedule(d)
      <4> HIDE DEF d
      <4> QED
        BY <1>0, <3>1, <2>2, SchedulePreserves
    <3>2. CASE UNCHANGED <<associated, added, active>>
      BY <1>0, <3>2, <2>2, ArbitrationStable
    <3> QED
      BY <2>1, <3>1, <3>2
  <2>4. ~testing
    BY <1>0, <1>8 DEF RefreshSubsystem
  <2>5. s + 1 \in Nat
    BY IndicesAreNaturals
  <2>6. Control'
    BY <1>0, <2>2, <2>4, <2>5 DEF QuietWhileTesting
  <2> QED
    BY <2>3, <2>6
<1>9. ASSUME NEW s \in Subsystem, TestSubsystem(s)
      PROVE  Arbitration' /\ Control'
  <2>1. Arbitration'
    BY <1>0, <1>9, ArbitrationStable DEF TestSubsystem
  <2>2. s + 1 \in Nat
    BY IndicesAreNaturals
  <2>3. Control'
    BY <1>0, <1>9, <2>2 DEF TestSubsystem, QuietWhileTesting
  <2> QED
    BY <2>1, <2>3
<1>10. ASSUME UNCHANGED vars
       PROVE  Arbitration' /\ Control'
  <2>1. Arbitration'
    BY <1>0, <1>10, ArbitrationStable DEF vars
  <2>2. Control'
    BY <1>0, <1>10 DEF vars, QuietWhileTesting
  <2> QED
    BY <2>1, <2>2
<1>11. Arbitration' /\ Control'
  BY <1>1, <1>2, <1>3, <1>4, <1>5, <1>6, <1>7, <1>8, <1>9, <1>10 DEF Next, Run, Request
<1>12. (Arbitration /\ Control)' => Inv'
  BY DEF Inv, TypeOK, Arbitration
<1> QED
  BY <1>11, <1>12

-----------------------------------------------------------------------------
\* The inductive invariant holds in every reachable state.
THEOREM Invariance ==
  ASSUME IndicesFit
  PROVE  Spec => []Inv
<1>1. Inv /\ [Next]_vars => Inv'
  BY NextInv
<1> QED
  BY <1>1, InitInv, PTL DEF Spec

\* Type correctness, with initialize() and end() strictly alternating.
THEOREM TypeCorrect ==
  ASSUME IndicesFit
  PROVE  Spec => []TypeOK
<1>1. Inv => TypeOK
  BY DEF Inv
<1> QED
  BY <1>1, Invariance, PTL

\* No subsystem is ever required by two scheduled commands.
THEOREM MutualExclusion ==
  ASSUME IndicesFit
  PROVE  Spec => []ExclusiveSubsystems
<1>1. Inv => ExclusiveSubsystems
  BY DEF Inv
<1> QED
  BY <1>1, Invariance, PTL

\* The association bitmap is always the union of the running requirements.
THEOREM BitmapsAgree ==
  ASSUME IndicesFit
  PROVE  Spec => []AssociationIsUnion
<1>1. Inv => AssociationIsUnion
  BY DEF Inv
<1> QED
  BY <1>1, Invariance, PTL

\* initialize() and end() match: a command is initialized once more than it is
\* ended while it is scheduled, and as often otherwise.
THEOREM InitializeMeetsEnd ==
  ASSUME IndicesFit
  PROVE  Spec => []Balanced
<1>1. Inv => Balanced
  BY DEF Inv, LegitimateSchedule
<1> QED
  BY <1>1, Invariance, PTL

\* No command runs during hardware tests, and
\* those that run control registered subsystems only.
THEOREM LifeCycle ==
  ASSUME IndicesFit
  PROVE  Spec => []LegitimateSchedule
<1>1. Inv => LegitimateSchedule
  BY DEF Inv, LegitimateSchedule
<1> QED
  BY <1>1, Invariance, PTL

\* The action of DefaultsPreemptNobody.
PreemptsOnlyBeyond ==
  phase = "subsystems" =>
    \A c \in added \ added' :
      \E s \in registered \ associated :
        /\ DefaultCommand[s] \in added'
        /\ (Needs(DefaultCommand[s]) \cap Needs(c)) \ {s} # {}

\* Whatever addCommand evicts shares a subsystem with the new command.
LEMMA EvictedShare ==
  ASSUME IndicesFit, NEW c \in Command, NEW d \in added, d \notin added', Schedule(c)
  PROVE  c \in added' /\ Needs(c) \cap Needs(d) # {}
<1>1. Mask(c) = {c}
  BY MaskIsBit
<1>2. added' = (added \ Holders(Needs(c))) \cup {c}
  BY <1>1 DEF Schedule
<1>3. d \in Holders(Needs(c))
  BY <1>2
<1> QED
  BY <1>2, <1>3 DEF Holders

\* The pass over the subsystems preempts only where the default of an idle
\* subsystem requires more than that subsystem.
THEOREM DefaultsAreModest ==
  ASSUME IndicesFit
  PROVE  Spec => DefaultsPreemptNobody
<1>1. ASSUME Inv, [Next]_vars
      PROVE  PreemptsOnlyBeyond
  <2> SUFFICES ASSUME phase = "subsystems", NEW c \in added, c \notin added'
               PROVE  \E s \in registered \ associated :
                        /\ DefaultCommand[s] \in added'
                        /\ (Needs(DefaultCommand[s]) \cap Needs(c)) \ {s} # {}
    BY DEF PreemptsOnlyBeyond
  <2>1. PICK s \in Subsystem : RefreshSubsystem(s)
    BY <1>1 DEF Next, Run, Request, RegisterSubsystem, AddCommand, RemoveCommand,
       StartHardwareTests, StopHardwareTests, BeginRun, ExecuteCommand, EndCommands,
       TestSubsystem, EndRun, vars
  <2>2. /\ s \in registered /\ s \notin associated
        /\ DefaultCommand[s] \in Command /\ Schedule(DefaultCommand[s])
    BY <2>1, DefaultType DEF RefreshSubsystem, AtCursor
  <2>3. DefaultCommand[s] \in added' /\ Needs(DefaultCommand[s]) \cap Needs(c) # {}
    BY <2>2, EvictedShare
  <2>4. s \notin Needs(c)
    BY <1>1, <2>2 DEF Inv, AssociationIsUnion
  <2> QED
    BY <2>2, <2>3, <2>4
<1>2. Spec => [][PreemptsOnlyBeyond]_vars
  BY <1>1, Invariance, PTL DEF Spec
<1> QED
  BY <1>2, PTL DEF DefaultsPreemptNobody, PreemptsOnlyBeyond

-----------------------------------------------------------------------------
(* The scheduler implements SubsystemOwnership.                            *)

\* The owner of a subsystem is the one scheduled command that needs it.
LEMMA OwnerIsHolder ==
  ASSUME ExclusiveSubsystems, NEW s \in Subsystem
  PROVE  /\ \A c \in added : s \in Needs(c) => OwnerOf[s] = c
         /\ (\A c \in added : s \notin Needs(c)) => OwnerOf[s] = NoCommand
<1>1. ASSUME NEW c \in added, s \in Needs(c)
      PROVE  OwnerOf[s] = c
  <2>1. OwnerOf[s] = CHOOSE d \in added : s \in Needs(d)
    BY <1>1 DEF OwnerOf
  <2>2. OwnerOf[s] \in added /\ s \in Needs(OwnerOf[s])
    BY <1>1, <2>1
  <2> QED
    BY <1>1, <2>2 DEF ExclusiveSubsystems
<1>2. (\A c \in added : s \notin Needs(c)) => OwnerOf[s] = NoCommand
  BY DEF OwnerOf
<1> QED
  BY <1>1, <1>2

\* addCommand hands over all the subsystems of the new command at once.
LEMMA ScheduleTakes ==
  ASSUME IndicesFit, Inv, Inv', NEW c \in Command, Acceptable(c), Schedule(c)
  PROVE  Ownership!Take(c)
<1> DEFINE evicted == Holders(Needs(c))
<1>1. added' = (added \ evicted) \cup {c}
  BY MaskIsBit DEF Schedule
<1>2. \A d \in added : Needs(d) \in SUBSET Subsystem
  BY NeedsType DEF Inv, TypeOK
<1>3. Needs(c) \in SUBSET Subsystem /\ Needs(c) # {}
  BY NeedsType DEF Acceptable
<1>4. \A s \in Subsystem :
        /\ \A d \in added : s \in Needs(d) => OwnerOf[s] = d
        /\ (\A d \in added : s \notin Needs(d)) => OwnerOf[s] = NoCommand
  BY OwnerIsHolder DEF Inv
<1>5. \A s \in Subsystem :
        /\ \A d \in added' : s \in Needs(d) => OwnerOf'[s] = d
        /\ (\A d \in added' : s \notin Needs(d)) => OwnerOf'[s] = NoCommand
  <2> SUFFICES ASSUME NEW s \in Subsystem
               PROVE  /\ \A d \in added' : s \in Needs(d) => OwnerOf'[s] = d
                      /\ (\A d \in added' : s \notin Needs(d)) => OwnerOf'[s] = NoCommand
    OBVIOUS
  <2>1. ExclusiveSubsystems'
    BY DEF Inv
  <2>2. OwnerOf'[s] = IF \E d \in added' : s \in Needs(d)
                      THEN CHOOSE d \in added' : s \in Needs(d)
                      ELSE NoCommand
    BY DEF OwnerOf, Needs, Bits
  <2>3. ASSUME NEW d \in added', s \in Needs(d)
        PROVE  OwnerOf'[s] = d
    <3>1. OwnerOf'[s] \in added' /\ s \in Needs(OwnerOf'[s])
      BY <2>2, <2>3
    <3> QED
      BY <2>1, <2>3, <3>1 DEF ExclusiveSubsystems, Needs, Bits
  <2> QED
    BY <2>2, <2>3
<1> DEFINE disp == {OwnerOf[s] : s \in Needs(c)}
<1>6. \A d \in added : d \in evicted <=> d \in disp
  <2> SUFFICES ASSUME NEW d \in added
               PROVE  d \in evicted <=> d \in disp
    OBVIOUS
  <2>1. ASSUME d \in evicted PROVE d \in disp
    <3>1. PICK s \in Needs(d) \cap Needs(c) : TRUE
      BY <2>1 DEF Holders
    <3>2. OwnerOf[s] = d
      BY <3>1, <1>3, <1>4
    <3> QED
      BY <3>1, <3>2
  <2>2. ASSUME d \in disp PROVE d \in evicted
    <3>1. PICK s \in Needs(c) : OwnerOf[s] = d
      BY <2>2
    <3>2. d # NoCommand
      BY NullIsNoCommand DEF Inv, TypeOK
    <3>3. s \in Needs(d)
      BY <3>1, <3>2, <1>3, <1>4
    <3> QED
      BY <3>1, <3>3 DEF Holders
  <2> QED
    BY <2>1, <2>2
<1> DEFINE given(s) == IF s \in Needs(c) THEN c
                       ELSE IF OwnerOf[s] \in disp THEN NoCommand ELSE OwnerOf[s]
<1>7. ASSUME NEW s \in Subsystem
      PROVE  OwnerOf'[s] = given(s)
  <2>1. CASE s \in Needs(c)
    BY <2>1, <1>1, <1>5
  <2>2. CASE s \notin Needs(c) /\ \E d \in added \ evicted : s \in Needs(d)
    <3>1. PICK d \in added \ evicted : s \in Needs(d)
      BY <2>2
    <3>2. OwnerOf[s] = d /\ OwnerOf'[s] = d
      BY <3>1, <1>1, <1>4, <1>5
    <3>3. d \notin disp
      BY <3>1, <1>6
    <3> QED
      BY <2>2, <3>2, <3>3
  <2>3. CASE s \notin Needs(c) /\ \A d \in added \ evicted : s \notin Needs(d)
    <3>1. OwnerOf'[s] = NoCommand
      BY <2>3, <1>1, <1>5
    <3>2. CASE \E d \in evicted : s \in Needs(d)
      <4>1. PICK d \in evicted : s \in Needs(d)
        BY <3>2
      <4>2. d \in added
        BY <4>1 DEF Holders
      <4>3. OwnerOf[s] = d /\ d \in disp
        BY <4>1, <4>2, <1>4, <1>6
      <4> QED
        BY <2>3, <3>1, <4>3
    <3>3. CASE \A d \in evicted : s \notin Needs(d)
      <4>1. OwnerOf[s] = NoCommand
        BY <2>3, <3>3, <1>4
      <4> QED
        BY <2>3, <3>1, <4>1
    <3> QED
      BY <3>2, <3>3
  <2> QED
    BY <2>1, <2>2, <2>3
<1>8. OwnerOf' = [s \in Subsystem |-> given(s)]
  <2>1. OwnerOf' = [s \in Subsystem |-> OwnerOf'[s]]
    BY DEF OwnerOf
  <2> HIDE DEF given
  <2> QED
    BY <2>1, <1>7
<1> QED
  BY <1>3, <1>8 DEF Ownership!Take, Ownership!Displaced

\* removeCommand gives back exactly the subsystems of the command.
LEMMA UnscheduleGivesBack ==
  ASSUME Inv, Inv', NEW c \in Command, c \in added, Unschedule(c)
  PROVE  Ownership!GiveBack(c)
<1>1. added' = added \ {c}
  BY DEF Unschedule
<1>2. Needs(c) \in SUBSET Subsystem /\ Needs(c) # {}
  BY NeedsType DEF Inv, RequirementsRegistered
<1>3. \A s \in Subsystem :
        /\ \A d \in added : s \in Needs(d) => OwnerOf[s] = d
        /\ (\A d \in added : s \notin Needs(d)) => OwnerOf[s] = NoCommand
  BY OwnerIsHolder DEF Inv
<1>4. \E s \in Subsystem : OwnerOf[s] = c
  BY <1>2, <1>3
<1> DEFINE given(s) == IF OwnerOf[s] = c THEN NoCommand ELSE OwnerOf[s]
<1>5. ASSUME NEW s \in Subsystem
      PROVE  OwnerOf'[s] = given(s)
  <2>1. OwnerOf'[s] = IF \E d \in added' : s \in Needs(d)
                      THEN CHOOSE d \in added' : s \in Needs(d)
                      ELSE NoCommand
    BY DEF OwnerOf, Needs, Bits
  <2>2. CASE \E d \in added' : s \in Needs(d)
    <3>1. OwnerOf'[s] \in added' /\ s \in Needs(OwnerOf'[s])
      BY <2>1, <2>2
    <3>2. OwnerOf[s] = OwnerOf'[s] /\ OwnerOf[s] # c
      BY <3>1, <1>1, <1>3
    <3> QED
      BY <3>2
  <2>3. CASE \A d \in added' : s \notin Needs(d)
    <3>1. OwnerOf'[s] = NoCommand
      BY <2>1, <2>3
    <3>2. OwnerOf[s] = c \/ OwnerOf[s] = NoCommand
      BY <1>1, <1>3, <2>3
    <3> QED
      BY <3>1, <3>2
  <2> QED
    BY <2>2, <2>3
<1>6. OwnerOf' = [s \in Subsystem |-> given(s)]
  <2>1. OwnerOf' = [s \in Subsystem |-> OwnerOf'[s]]
    BY DEF OwnerOf
  <2> HIDE DEF given
  <2> QED
    BY <2>1, <1>5
<1> QED
  BY <1>4, <1>6 DEF Ownership!GiveBack

\* Every step of the scheduler is a step of the map, or leaves it alone.
LEMMA StepRefines ==
  ASSUME IndicesFit, Inv, Inv', [Next]_vars
  PROVE  [Ownership!Next]_OwnerOf
<1>1. ASSUME UNCHANGED added
      PROVE  UNCHANGED OwnerOf
  BY <1>1 DEF OwnerOf, Needs, Bits
<1>2. ASSUME NEW c \in Command, Acceptable(c), Schedule(c)
      PROVE  Ownership!Next
  BY <1>2, ScheduleTakes DEF Ownership!Next
<1>3. ASSUME NEW c \in Command, c \in added, Unschedule(c)
      PROVE  Ownership!Next
  BY <1>3, UnscheduleGivesBack DEF Ownership!Next
<1>4. ASSUME StartHardwareTests
      PROVE  Ownership!Next
  <2>1. added' = {}
    BY <1>4 DEF StartHardwareTests
  <2>2. OwnerOf' = [s \in Subsystem |-> NoCommand]
    BY <2>1 DEF OwnerOf
  <2> QED
    BY <2>2 DEF Ownership!Next, Ownership!RevokeAll
<1>5. ASSUME NEW s \in Subsystem, RefreshSubsystem(s)
      PROVE  Ownership!Next \/ UNCHANGED OwnerOf
  <2> DEFINE d == DefaultCommand[s]
  <2>1. \/ d \in Command /\ Acceptable(d) /\ Schedule(d)
        \/ UNCHANGED added
    BY <1>5, DefaultType DEF RefreshSubsystem
  <2> HIDE DEF d
  <2> QED
    BY <2>1, <1>1, <1>2
<1>6. ASSUME NEW c \in Command, AddCommand(c) \/ RemoveCommand(c) \/ ExecuteCommand(c)
      PROVE  Ownership!Next \/ UNCHANGED OwnerOf
  <2>1. \/ Acceptable(c) /\ Schedule(c)
        \/ c \in added /\ Unschedule(c)
        \/ UNCHANGED added
    BY <1>6 DEF AddCommand, RemoveCommand, ExecuteCommand, AtCursor
  <2> QED
    BY <2>1, <1>1, <1>2, <1>3
<1>7. ASSUME \/ \E s \in Subsystem : RegisterSubsystem(s) \/ TestSubsystem(s)
             \/ StopHardwareTests \/ BeginRun \/ EndCommands \/ EndRun
             \/ UNCHANGED vars
      PROVE  UNCHANGED OwnerOf
  <2>1. UNCHANGED added
    BY <1>7 DEF RegisterSubsystem, TestSubsystem, StopHardwareTests, BeginRun,
                EndCommands, EndRun, vars
  <2> QED
    BY <2>1, <1>1
<1> QED
  BY <1>4, <1>5, <1>6, <1>7 DEF Next, Run, Request

\* The scheduler implements the map from subsystems to commands.
THEOREM Refinement ==
  ASSUME IndicesFit
  PROVE  Spec => ImplementsOwnership
<1>1. Init => Ownership!Init
  BY DEF Init, Ownership!Init, OwnerOf
<1>2. Inv /\ Inv' /\ [Next]_vars => [Ownership!Next]_OwnerOf
  BY StepRefines
<1> QED
  BY <1>1, <1>2, Invariance, PTL DEF Spec, ImplementsOwnership, Ownership!Spec

-----------------------------------------------------------------------------
(* Calls.                                                                  *)

Function == {"addCommand", "removeCommand", "add unless scheduled"}
Call == [by : Mapping, function : Function, command : Command]

LEMMA EachCall ==
  ASSUME NEW m \in Mapping, NEW f \in Function
  PROVE  /\ CallEach(m, f) \in Seq(Call)
         /\ \A i \in 1..Len(CallEach(m, f)) :
              /\ CallEach(m, f)[i].by = m /\ CallEach(m, f)[i].function = f
              /\ CallEach(m, f)[i].command \in CommandsOf(m)
         /\ \A c \in CommandsOf(m) :
              \E i \in 1..Len(CallEach(m, f)) : CallEach(m, f)[i].command = c
         /\ CallEach(m, f) = <<>> <=> MappedCommands[m] = <<>>
<1> DEFINE s == MappedCommands[m]
<1> DEFINE t == CallEach(m, f)
<1>1. s \in Seq(Command)
  BY MapperTypes
<1>2. Len(s) \in Nat /\ \A i \in 1..Len(s) : s[i] \in Command
  BY <1>1
<1>3. t = [i \in 1..Len(s) |-> [by |-> m, function |-> f, command |-> s[i]]]
  BY DEF CallEach
<1>4. \A i \in 1..Len(s) : /\ t[i] \in Call
                           /\ t[i].by = m /\ t[i].function = f /\ t[i].command = s[i]
  BY <1>2, <1>3 DEF Call
<1>6. CommandsOf(m) = {s[i] : i \in 1..Len(s)}
  BY DEF CommandsOf
<1> HIDE DEF t, s
<1>5. t \in Seq(Call) /\ Len(t) = Len(s)
  <2>1. t \in [1..Len(s) -> Call]
    BY <1>3, <1>4
  <2>2. \A S, f0 : \A n \in Nat : f0 \in [1..n -> S] => f0 \in Seq(S) /\ Len(f0) = n
    OBVIOUS
  <2> QED
    BY <1>2, <2>1, <2>2
<1>7. \A i \in 1..Len(t) : t[i].by = m /\ t[i].function = f /\ t[i].command \in CommandsOf(m)
  BY <1>4, <1>5, <1>6
<1>8. \A c \in CommandsOf(m) : \E i \in 1..Len(t) : t[i].command = c
  BY <1>4, <1>5, <1>6
<1>9. t = <<>> <=> s = <<>>
  <2>1. \A S, q : q \in Seq(S) => (q = <<>> <=> Len(q) = 0)
    OBVIOUS
  <2> QED
    BY <1>1, <1>5, <2>1
<1> QED
  BY <1>5, <1>7, <1>8, <1>9 DEF t, s

LEMMA NoCall == <<>> \in Seq(Call) /\ Len(<<>>) = 0
  OBVIOUS

LEMMA FirstCall ==
  ASSUME NEW s \in Seq(Call), s # <<>>
  PROVE  /\ Head(s) \in Call /\ Head(s) = s[1] /\ 1 \in 1..Len(s)
         /\ Tail(s) \in Seq(Call)
         /\ \A i \in 1..Len(Tail(s)) : i + 1 \in 1..Len(s) /\ Tail(s)[i] = s[i + 1]
         /\ \A i \in 2..Len(s) : i - 1 \in 1..Len(Tail(s)) /\ Tail(s)[i - 1] = s[i]
<1>1. Len(s) \in Nat /\ Len(s) >= 1 /\ Len(Tail(s)) = Len(s) - 1 /\ Tail(s) \in Seq(Call)
  OBVIOUS
<1>2. \A i \in 1..Len(s) - 1 : Tail(s)[i] = s[i + 1]
  OBVIOUS
<1>3. Head(s) = s[1] /\ s[1] \in Call
  BY <1>1
<1> QED
  BY <1>1, <1>2, <1>3

LEMMA Indices ==
  /\ Len(AddMapCalls) \in Nat
  /\ \A k \in 1..Len(AddMapCalls) : AddMapCalls[k] \in Mapping
  /\ \A k \in 0..Len(AddMapCalls) :
       /\ NextIndex(k) \in 0..Len(AddMapCalls)
       /\ NextIndex(k) = 0 => k = Len(AddMapCalls)
       /\ NextIndex(k) # 0 => NextIndex(k) = k + 1
<1>1. AddMapCalls \in Seq(Mapping)
  BY MapperTypes
<1>2. Len(AddMapCalls) \in Nat /\ \A k \in 1..Len(AddMapCalls) : AddMapCalls[k] \in Mapping
  BY <1>1
<1> QED
  BY <1>2 DEF NextIndex

-----------------------------------------------------------------------------
(* The inductive invariant.                                                *)

MapperShape ==
  /\ {remote, previous} \subseteq RemoteStates \cup {NoPacket}
  /\ visiting \in 0..Len(AddMapCalls)
  /\ calls \in Seq(Call)
  /\ on \in [Mapping -> BOOLEAN] /\ pressed \in [Mapping -> BOOLEAN]
  /\ Busy => phase = "idle"

\* What the flags of mapping m say of the packet it was shown last.
Remembers(m, packet, isOn, isPressed) ==
  /\ Kind[m] \in {"hold", "hold repeat"} => (isOn <=> Active(m, packet))
  /\ Kind[m] \in {"press", "toggle"} => (isPressed <=> Active(m, packet))
  /\ Kind[m] = "toggle" /\ isOn => ~NegKeysHeld(m, packet)

LastShown(k) == IF visiting # 0 /\ k >= visiting THEN previous ELSE remote

InStep ==
  \A k \in 1..Len(AddMapCalls) :
    LET m == AddMapCalls[k] IN Installed(k) => Remembers(m, LastShown(k), on[m], pressed[m])

InstalledMapping(m) == \E k \in 1..Len(AddMapCalls) : Installed(k) /\ AddMapCalls[k] = m

Wants(m, flags) == Kind[m] = "press" \/ flags[m]

\* A pending call that adds is one the mapping still means.
CallsMeant ==
  \A i \in 1..Len(calls) :
    LET m == calls[i].by IN
    /\ InstalledMapping(m) /\ calls[i].command \in CommandsOf(m)
    /\ calls[i].function # "removeCommand" => Wants(m, on)

Default(c) == \E s \in Subsystem : DefaultCommand[s] = c

AboutToGo(c, pending) ==
  \E i \in 1..Len(pending) : pending[i].function = "removeCommand" /\ pending[i].command = c

Justified(c, flags, pending) ==
  \/ Default(c)
  \/ \E m \in Mapping : InstalledMapping(m) /\ c \in CommandsOf(m) /\ Wants(m, flags)
  \/ AboutToGo(c, pending)

AllJustified == \A c \in added : Justified(c, on, calls)

MapperInv == MapperShape /\ InStep /\ CallsMeant /\ AllJustified

\* InStep depends on the mapper's own state only.
LEMMA InStepKept ==
  ASSUME InStep, UNCHANGED <<remote, previous, visiting, on, pressed>>
  PROVE  InStep'
<1>1. InStep' <=>
        \A k \in 1..Len(AddMapCalls) :
          Installed(k) =>
            Remembers(AddMapCalls[k], IF visiting' # 0 /\ k >= visiting' THEN previous' ELSE remote',
                      on'[AddMapCalls[k]], pressed'[AddMapCalls[k]])
  BY DEF InStep, LastShown, Remembers, Active, mappingSubset, NegKeysHeld, NegKeys, Installed
<1> QED
  BY <1>1 DEF InStep, LastShown

\* What is said of the pending calls, call by call.
Meant(call, flags) ==
  /\ InstalledMapping(call.by) /\ call.command \in CommandsOf(call.by)
  /\ call.function # "removeCommand" => Wants(call.by, flags)

LEMMA CallByCall ==
  /\ CallsMeant <=> \A i \in 1..Len(calls) : Meant(calls[i], on)
  /\ CallsMeant' <=> \A i \in 1..Len(calls') : Meant(calls'[i], on')
BY DEF CallsMeant, Meant, InstalledMapping, CommandsOf, Wants, Installed, NegKeys

LEMMA MapperInitInv == MapperInit => MapperInv
<1>1. SUFFICES ASSUME MapperInit PROVE MapperInv
  OBVIOUS
<1>2. /\ remote = NoPacket /\ previous = NoPacket /\ visiting = 0 /\ calls = <<>>
      /\ on = [m \in Mapping |-> FALSE] /\ pressed = [m \in Mapping |-> FALSE]
      /\ added = {}
  BY <1>1 DEF MapperInit, Init
<1>3. Len(AddMapCalls) \in Nat /\ \A k \in 1..Len(AddMapCalls) : AddMapCalls[k] \in Mapping
  BY Indices
<1>4. MapperShape
  BY <1>2, <1>3, NoCall DEF MapperShape, Busy
<1>5. InStep
  <2>1. ASSUME NEW m \in Mapping
        PROVE  Remembers(m, NoPacket, on[m], pressed[m])
    BY <1>2 DEF Remembers, Active, mappingSubset, NegKeysHeld
  <2>2. \A k : LastShown(k) = NoPacket
    BY <1>2 DEF LastShown
  <2> QED
    BY <1>3, <2>1, <2>2 DEF InStep
<1>6. CallsMeant /\ AllJustified
  BY <1>2, NoCall DEF CallsMeant, AllJustified
<1> QED
  BY <1>4, <1>5, <1>6 DEF MapperInv

-----------------------------------------------------------------------------
(* A packet arrives.                                                       *)

LEMMA PacketKeeps ==
  ASSUME MapperInv, NEW packet \in RemoteStates, handleKeyStateChange(packet)
  PROVE  MapperInv'
<1>1. /\ phase = "idle" /\ phase' = "idle" /\ visiting = 0 /\ calls = <<>> /\ calls' = <<>>
      /\ previous' = remote /\ remote' = packet /\ visiting' = NextIndex(0)
      /\ on' = on /\ pressed' = pressed /\ added' = added
  BY DEF handleKeyStateChange, Busy, vars
<1>2. MapperShape'
  BY <1>1, Indices DEF MapperInv, MapperShape, Busy
<1>3. InStep'
  <2>1. SUFFICES ASSUME NEW k \in 1..Len(AddMapCalls), Installed(k)
                 PROVE  Remembers(AddMapCalls[k], LastShown(k), on[AddMapCalls[k]], pressed[AddMapCalls[k]])'
    BY DEF InStep, Installed, NegKeys
  <2>2. LastShown(k) = remote
    BY <1>1 DEF LastShown
  <2>3. LastShown(k)' = remote
    <3>1. visiting' # 0 /\ k >= visiting'
      BY <1>1, Indices
    <3> QED
      BY <1>1, <3>1 DEF LastShown
  <2>4. Remembers(AddMapCalls[k], remote, on[AddMapCalls[k]], pressed[AddMapCalls[k]])
    BY <2>1, <2>2 DEF MapperInv, InStep
  <2> QED
    BY <1>1, <2>3, <2>4 DEF Remembers, Active, mappingSubset, NegKeysHeld, NegKeys
<1>4. CallsMeant'
  BY <1>1, NoCall DEF CallsMeant
<1>5. AllJustified'
  BY <1>1 DEF MapperInv, AllJustified, Justified, AboutToGo, Wants, Default, InstalledMapping
<1> QED
  BY <1>2, <1>3, <1>4, <1>5 DEF MapperInv

-----------------------------------------------------------------------------
(* A mapping is shown a packet.                                            *)

LEMMA Flags ==
  ASSUME NEW m, NEW packet
  PROVE  Active(m, packet) \in BOOLEAN /\ NegKeysHeld(m, packet) \in BOOLEAN
BY DEF Active, NegKeysHeld

\* What showing the packet to mapping m leaves.
Shown(m) ==
  /\ on' \in [Mapping -> BOOLEAN] /\ pressed' \in [Mapping -> BOOLEAN]
  /\ \A n \in Mapping : n # m => (on'[n] = on[n] /\ pressed'[n] = pressed[n])
  /\ Remembers(m, remote, on'[m], pressed'[m])

\* The calls it makes: some on an edge and none otherwise; it adds what it
\* wants and takes back what it no longer wants.
CallsShown(m) ==
  /\ Edge(m) => \E f \in Function : /\ calls' = CallEach(m, f)
                                    /\ f # "removeCommand" => Wants(m, on')
  /\ ~Edge(m) => calls' = <<>>
  /\ Wants(m, on) /\ ~Wants(m, on') => calls' = CallEach(m, "removeCommand")

\* What is an edge to each kind of mapping.
LEMMA Edges ==
  ASSUME NEW m \in Mapping
  PROVE  /\ Kind[m] = "hold" => (Edge(m) <=> Active(m, remote) # Active(m, previous))
         /\ Kind[m] = "hold repeat" => (Edge(m) <=> Active(m, remote) \/ Active(m, previous))
         /\ Kind[m] = "press" => (Edge(m) <=> Active(m, remote) /\ ~Active(m, previous))
         /\ Kind[m] = "toggle" =>
              (Edge(m) <=> \/ (Active(m, remote) /\ ~Active(m, previous))
                           \/ (NegKeysHeld(m, remote) /\ on[m]))
<1>1. Active(m, remote) \in BOOLEAN /\ Active(m, previous) \in BOOLEAN
  BY Flags
<1> QED
  BY <1>1 DEF Edge, BecameActive, BecameInactive

LEMMA HoldShown ==
  ASSUME MapperShape, NEW m \in Mapping, Remembers(m, previous, on[m], pressed[m]),
         Kind[m] = "hold", Hold(m)
  PROVE  Shown(m) /\ CallsShown(m)
<1> DEFINE now == Active(m, remote)
<1> DEFINE was == Active(m, previous)
<1>1. now \in BOOLEAN /\ was \in BOOLEAN /\ on[m] \in BOOLEAN /\ (on[m] <=> was)
  BY Flags DEF MapperShape, Remembers
<1>2. /\ on' = [on EXCEPT ![m] = now] /\ pressed' = pressed
      /\ calls' = IF on'[m] = on[m] THEN <<>>
                  ELSE CallEach(m, IF on'[m] THEN "addCommand" ELSE "removeCommand")
  BY DEF Hold
<1> HIDE DEF now, was
<1>3. /\ on' \in [Mapping -> BOOLEAN] /\ pressed' \in [Mapping -> BOOLEAN]
      /\ on'[m] = now /\ \A n \in Mapping : n # m => (on'[n] = on[n] /\ pressed'[n] = pressed[n])
  BY <1>1, <1>2 DEF MapperShape
<1>4. Remembers(m, remote, on'[m], pressed'[m])
  BY <1>3 DEF Remembers, now
<1>5. Shown(m)
  BY <1>3, <1>4 DEF Shown
<1>9. Edge(m) <=> now # was
  BY Edges DEF now, was
<1>6. CASE on'[m] = on[m]
  BY <1>1, <1>2, <1>3, <1>5, <1>6, <1>9 DEF CallsShown, Wants
<1>7. CASE on'[m] # on[m] /\ on'[m]
  <2>1. calls' = CallEach(m, "addCommand") /\ Wants(m, on') /\ now # was
    BY <1>1, <1>2, <1>3, <1>7 DEF Wants
  <2> QED
    BY <1>5, <1>9, <2>1 DEF CallsShown, Function
<1>8. CASE on'[m] # on[m] /\ ~on'[m]
  <2>1. calls' = CallEach(m, "removeCommand") /\ now # was
    BY <1>1, <1>2, <1>3, <1>8
  <2> QED
    BY <1>5, <1>9, <2>1 DEF CallsShown, Function
<1> QED
  BY <1>5, <1>6, <1>7, <1>8

LEMMA HoldRepeatShown ==
  ASSUME MapperShape, NEW m \in Mapping, Remembers(m, previous, on[m], pressed[m]),
         Kind[m] = "hold repeat", HoldRepeat(m)
  PROVE  Shown(m) /\ CallsShown(m)
<1> DEFINE now == Active(m, remote)
<1> DEFINE was == Active(m, previous)
<1>1. now \in BOOLEAN /\ was \in BOOLEAN /\ on[m] \in BOOLEAN /\ (on[m] <=> was)
  BY Flags DEF MapperShape, Remembers
<1>2. /\ on' = [on EXCEPT ![m] = now] /\ pressed' = pressed
      /\ calls' = IF on'[m] THEN CallEach(m, "add unless scheduled")
                  ELSE IF on[m] THEN CallEach(m, "removeCommand") ELSE <<>>
  BY DEF HoldRepeat
<1> HIDE DEF now, was
<1>3. /\ on' \in [Mapping -> BOOLEAN] /\ pressed' \in [Mapping -> BOOLEAN]
      /\ on'[m] = now /\ \A n \in Mapping : n # m => (on'[n] = on[n] /\ pressed'[n] = pressed[n])
  BY <1>1, <1>2 DEF MapperShape
<1>4. Remembers(m, remote, on'[m], pressed'[m])
  BY <1>3 DEF Remembers, now
<1>5. Shown(m)
  BY <1>3, <1>4 DEF Shown
<1>9. Edge(m) <=> now \/ was
  BY Edges DEF now, was
<1>6. CASE on'[m]
  <2>1. calls' = CallEach(m, "add unless scheduled") /\ Wants(m, on') /\ now
    BY <1>2, <1>3, <1>6 DEF Wants
  <2> QED
    BY <1>5, <1>9, <2>1 DEF CallsShown, Function
<1>7. CASE ~on'[m] /\ on[m]
  <2>1. calls' = CallEach(m, "removeCommand") /\ was
    BY <1>1, <1>2, <1>7
  <2> QED
    BY <1>5, <1>9, <2>1 DEF CallsShown, Function
<1>8. CASE ~on'[m] /\ ~on[m]
  BY <1>1, <1>2, <1>3, <1>5, <1>8, <1>9 DEF CallsShown, Wants
<1> QED
  BY <1>5, <1>6, <1>7, <1>8

LEMMA PressShown ==
  ASSUME MapperShape, NEW m \in Mapping, Remembers(m, previous, on[m], pressed[m]),
         Kind[m] = "press", Press(m)
  PROVE  Shown(m) /\ CallsShown(m)
<1> DEFINE now == Active(m, remote)
<1> DEFINE was == Active(m, previous)
<1>1. now \in BOOLEAN /\ was \in BOOLEAN /\ pressed[m] \in BOOLEAN /\ (pressed[m] <=> was)
  BY Flags DEF MapperShape, Remembers
<1>2. /\ pressed' = [pressed EXCEPT ![m] = now] /\ on' = on
      /\ calls' = IF pressed'[m] /\ ~pressed[m] THEN CallEach(m, "addCommand") ELSE <<>>
  BY DEF Press
<1> HIDE DEF now, was
<1>3. /\ on' \in [Mapping -> BOOLEAN] /\ pressed' \in [Mapping -> BOOLEAN]
      /\ pressed'[m] = now /\ \A n \in Mapping : n # m => (on'[n] = on[n] /\ pressed'[n] = pressed[n])
  BY <1>1, <1>2 DEF MapperShape
<1>4. Remembers(m, remote, on'[m], pressed'[m])
  BY <1>3 DEF Remembers, now
<1>5. Shown(m)
  BY <1>3, <1>4 DEF Shown
<1>6. Wants(m, on')
  BY DEF Wants
<1>9. Edge(m) <=> now /\ ~was
  BY Edges DEF now, was
<1>7. CASE pressed'[m] /\ ~pressed[m]
  <2>1. calls' = CallEach(m, "addCommand") /\ now /\ ~was
    BY <1>1, <1>2, <1>3, <1>7
  <2> QED
    BY <1>5, <1>6, <1>9, <2>1 DEF CallsShown, Function
<1>8. CASE ~(pressed'[m] /\ ~pressed[m])
  BY <1>1, <1>2, <1>3, <1>5, <1>6, <1>8, <1>9 DEF CallsShown
<1> QED
  BY <1>5, <1>7, <1>8

LEMMA ToggleShown ==
  ASSUME MapperShape, NEW m \in Mapping, Remembers(m, previous, on[m], pressed[m]),
         Kind[m] = "toggle", Toggle(m)
  PROVE  Shown(m) /\ CallsShown(m)
<1> DEFINE now == Active(m, remote)
<1> DEFINE was == Active(m, previous)
<1> DEFINE reset == NegKeysHeld(m, remote)
<1>1. /\ now \in BOOLEAN /\ was \in BOOLEAN /\ reset \in BOOLEAN
      /\ pressed[m] \in BOOLEAN /\ (pressed[m] <=> was)
      /\ on[m] \in BOOLEAN /\ (on[m] => ~NegKeysHeld(m, previous))
  BY Flags DEF MapperShape, Remembers
<1>2. /\ pressed' = [pressed EXCEPT ![m] = now]
      /\ IF reset
           THEN /\ on' = [on EXCEPT ![m] = FALSE]
                /\ calls' = IF on[m] THEN CallEach(m, "removeCommand") ELSE <<>>
           ELSE IF pressed'[m] /\ ~pressed[m]
                  THEN /\ on' = [on EXCEPT ![m] = ~@]
                       /\ calls' = CallEach(m, IF on[m] THEN "removeCommand" ELSE "addCommand")
                  ELSE calls' = <<>> /\ on' = on
  BY DEF Toggle
<1> HIDE DEF now, was, reset
<1>3. /\ pressed' \in [Mapping -> BOOLEAN] /\ pressed'[m] = now
      /\ \A n \in Mapping : n # m => pressed'[n] = pressed[n]
  BY <1>1, <1>2 DEF MapperShape
<1>7. Edge(m) <=> (now /\ ~was) \/ (reset /\ on[m])
  BY Edges DEF now, was, reset
<1>8. reset => ~now
  BY DEF Active, now, reset
<1>4. CASE reset
  <2>1. /\ on' \in [Mapping -> BOOLEAN] /\ ~on'[m]
        /\ \A n \in Mapping : n # m => on'[n] = on[n]
        /\ calls' = IF on[m] THEN CallEach(m, "removeCommand") ELSE <<>>
    BY <1>2, <1>4 DEF MapperShape
  <2>2. Shown(m)
    BY <1>3, <2>1 DEF Shown, Remembers, now
  <2>3. CASE on[m]
    BY <1>4, <1>7, <2>1, <2>2, <2>3 DEF CallsShown, Function
  <2>4. CASE ~on[m]
    BY <1>4, <1>7, <1>8, <2>1, <2>2, <2>4 DEF CallsShown, Wants
  <2> QED
    BY <2>2, <2>3, <2>4
<1>5. CASE ~reset /\ now /\ ~was
  <2>1. pressed'[m] /\ ~pressed[m]
    BY <1>1, <1>3, <1>5
  <2>2. /\ on' = [on EXCEPT ![m] = ~on[m]]
        /\ calls' = CallEach(m, IF on[m] THEN "removeCommand" ELSE "addCommand")
    BY <1>2, <1>5, <2>1
  <2>3. /\ on' \in [Mapping -> BOOLEAN] /\ (on'[m] <=> ~on[m])
        /\ \A n \in Mapping : n # m => on'[n] = on[n]
    BY <1>1, <2>2 DEF MapperShape
  <2>4. Shown(m)
    BY <1>3, <1>5, <2>3 DEF Shown, Remembers, now, reset
  <2>5. Edge(m)
    BY <1>5, <1>7
  <2>6. CASE on[m]
    <3>1. calls' = CallEach(m, "removeCommand")
      BY <2>2, <2>6
    <3> QED
      BY <2>4, <2>5, <3>1 DEF CallsShown, Function
  <2>7. CASE ~on[m]
    <3>1. calls' = CallEach(m, "addCommand") /\ Wants(m, on')
      BY <2>2, <2>3, <2>7 DEF Wants
    <3> QED
      BY <2>4, <2>5, <3>1 DEF CallsShown, Function
  <2> QED
    BY <2>4, <2>6, <2>7
<1>6. CASE ~reset /\ ~(now /\ ~was)
  <2>1. ~(pressed'[m] /\ ~pressed[m])
    BY <1>1, <1>3, <1>6
  <2>2. calls' = <<>> /\ on' = on
    BY <1>2, <1>6, <2>1
  <2>3. ~Edge(m)
    BY <1>6, <1>7
  <2>4. Shown(m)
    BY <1>3, <1>6, <2>2 DEF MapperShape, Shown, Remembers, now, reset
  <2> QED
    BY <2>2, <2>3, <2>4 DEF CallsShown, Wants
<1> QED
  BY <1>1, <1>4, <1>5, <1>6

LEMMA MappingShown ==
  ASSUME MapperShape, NEW m \in Mapping, Remembers(m, previous, on[m], pressed[m]),
         executeCommandMapping(m)
  PROVE  Shown(m) /\ CallsShown(m)
BY HoldShown, HoldRepeatShown, PressShown, ToggleShown DEF executeCommandMapping

\* An installed map state belongs to one mapping, and a mapping is installed
\* at most once.
LEMMA InstalledOnce ==
  ASSUME NEW j \in 1..Len(AddMapCalls), NEW k \in 1..Len(AddMapCalls), Installed(j), Installed(k),
         AddMapCalls[j] = AddMapCalls[k]
  PROVE  j = k
<1>1. j \in Int /\ k \in Int
  BY Indices
<1>2. ~(j < k)
  BY <1>1 DEF Installed
<1>3. ~(k < j)
  BY <1>1 DEF Installed
<1> QED
  BY <1>1, <1>2, <1>3

LEMMA VisitKeeps ==
  ASSUME MapperInv, Visit
  PROVE  MapperInv'
<1> PICK k : k = visiting
  OBVIOUS
<1> DEFINE m == AddMapCalls[k]
<1>1. /\ k = visiting /\ k # 0 /\ calls = <<>> /\ visiting' = NextIndex(k)
      /\ remote' = remote /\ previous' = previous /\ added' = added /\ phase' = phase
  BY DEF Visit, vars
<1>2. /\ k \in 1..Len(AddMapCalls) /\ m \in Mapping
      /\ visiting' \in 0..Len(AddMapCalls)
      /\ visiting' = 0 => k = Len(AddMapCalls)
      /\ visiting' # 0 => visiting' = k + 1
  <2>1. k \in 0..Len(AddMapCalls)
    BY DEF MapperInv, MapperShape
  <2> QED
    BY <1>1, <2>1, Indices
<1>3. LastShown(k) = previous /\ LastShown(k)' = remote
  BY <1>1, <1>2, Indices DEF LastShown
<1>4. ASSUME NEW j \in 1..Len(AddMapCalls), j # k
      PROVE  LastShown(j)' = LastShown(j)
  <2>1. /\ k \in Nat /\ j \in Nat /\ Len(AddMapCalls) \in Nat /\ j <= Len(AddMapCalls)
        /\ k >= 1 /\ k <= Len(AddMapCalls)
    BY <1>2, <1>4, Indices
  <2>2. (visiting # 0 /\ j >= visiting) <=> (visiting' # 0 /\ j >= visiting')
    BY <1>1, <1>2, <1>4, <2>1
  <2> QED
    BY <1>1, <2>2 DEF LastShown
<1>5. phase' = "idle"
  BY <1>1 DEF MapperInv, MapperShape, Busy
<1>6. CASE ~Installed(k)
  <2>1. calls' = <<>> /\ on' = on /\ pressed' = pressed
    BY <1>1, <1>6 DEF Visit
  <2>2. MapperShape'
    BY <1>1, <1>2, <1>5, <2>1 DEF MapperInv, MapperShape
  <2>3. InStep'
    <3>1. SUFFICES ASSUME NEW j \in 1..Len(AddMapCalls), Installed(j)
                   PROVE  Remembers(AddMapCalls[j], LastShown(j), on[AddMapCalls[j]], pressed[AddMapCalls[j]])'
      BY DEF InStep, Installed, NegKeys
    <3>2. LastShown(j)' = LastShown(j)
      BY <1>4, <1>6, <3>1
    <3>3. Remembers(AddMapCalls[j], LastShown(j), on[AddMapCalls[j]], pressed[AddMapCalls[j]])
      BY <3>1 DEF MapperInv, InStep
    <3> QED
      BY <2>1, <3>2, <3>3 DEF Remembers, Active, mappingSubset, NegKeysHeld, NegKeys
  <2>4. CallsMeant'
    BY <2>1, NoCall DEF CallsMeant
  <2>5. AllJustified'
    BY <1>1, <2>1 DEF MapperInv, AllJustified, Justified, AboutToGo, Wants, Default, InstalledMapping
  <2> QED
    BY <2>2, <2>3, <2>4, <2>5 DEF MapperInv
<1>7. CASE Installed(k)
  <2>1. executeCommandMapping(m)
    BY <1>1, <1>7 DEF Visit
  <2>2. MapperShape /\ Remembers(m, previous, on[m], pressed[m])
    BY <1>2, <1>3, <1>7 DEF MapperInv, InStep
  <2>3. Shown(m) /\ CallsShown(m)
    BY <1>2, <2>1, <2>2, MappingShown
  <2>4. \/ calls' = <<>>
        \/ \E f \in Function : /\ calls' = CallEach(m, f)
                               /\ f # "removeCommand" => Wants(m, on')
    <3>1. CASE Edge(m)
      BY <2>3, <3>1 DEF CallsShown
    <3>2. CASE ~Edge(m)
      BY <2>3, <3>2 DEF CallsShown
    <3> QED
      BY <3>1, <3>2
  <2>5. /\ calls' \in Seq(Call)
        /\ \A i \in 1..Len(calls') : /\ calls'[i].by = m
                                     /\ calls'[i].command \in CommandsOf(m)
                                     /\ calls'[i].function # "removeCommand" => Wants(m, on')
    <3>1. CASE calls' = <<>>
      BY <3>1, NoCall
    <3>2. ASSUME NEW f \in Function, calls' = CallEach(m, f),
                 f # "removeCommand" => Wants(m, on')
          PROVE  /\ calls' \in Seq(Call)
                 /\ \A i \in 1..Len(calls') : /\ calls'[i].by = m
                                              /\ calls'[i].command \in CommandsOf(m)
                                              /\ calls'[i].function # "removeCommand" => Wants(m, on')
      <4>1. CallEach(m, f) \in Seq(Call)
        BY <1>2, EachCall
      <4>2. \A i \in 1..Len(CallEach(m, f)) :
              /\ CallEach(m, f)[i].by = m /\ CallEach(m, f)[i].function = f
              /\ CallEach(m, f)[i].command \in CommandsOf(m)
        BY <1>2, EachCall
      <4> QED
        BY <3>2, <4>1, <4>2
    <3> QED
      BY <2>4, <3>1, <3>2
  <2>6. MapperShape'
    BY <1>1, <1>2, <1>5, <2>3, <2>5 DEF MapperInv, MapperShape, Shown
  <2>7. InStep'
    <3>1. SUFFICES ASSUME NEW j \in 1..Len(AddMapCalls), Installed(j)
                   PROVE  Remembers(AddMapCalls[j], LastShown(j), on[AddMapCalls[j]], pressed[AddMapCalls[j]])'
      BY DEF InStep, Installed, NegKeys
    <3>2. CASE j = k
      <4>1. Remembers(m, remote, on'[m], pressed'[m])
        BY <2>3 DEF Shown
      <4> QED
        BY <1>3, <3>2, <4>1 DEF Remembers, Active, mappingSubset, NegKeysHeld, NegKeys
    <3>3. CASE j # k
      <4>1. LastShown(j)' = LastShown(j)
        BY <1>4, <3>3
      <4>2. Remembers(AddMapCalls[j], LastShown(j), on[AddMapCalls[j]], pressed[AddMapCalls[j]])
        BY <3>1 DEF MapperInv, InStep
      <4>3. AddMapCalls[j] # m /\ AddMapCalls[j] \in Mapping
        BY <1>2, <1>7, <3>1, <3>3, InstalledOnce, Indices
      <4>4. on'[AddMapCalls[j]] = on[AddMapCalls[j]] /\ pressed'[AddMapCalls[j]] = pressed[AddMapCalls[j]]
        BY <2>3, <4>3 DEF Shown
      <4> QED
        BY <4>1, <4>2, <4>4 DEF Remembers, Active, mappingSubset, NegKeysHeld, NegKeys
    <3> QED
      BY <3>2, <3>3
  <2>8. InstalledMapping(m)
    BY <1>2, <1>7 DEF InstalledMapping
  <2>9. CallsMeant'
    BY <2>5, <2>8, CallByCall DEF Meant
  <2>11. AllJustified'
    <3>1. SUFFICES ASSUME NEW c \in added
                   PROVE  Justified(c, on', calls')
      BY <1>1 DEF AllJustified, Justified, AboutToGo, Wants, Default, InstalledMapping, CommandsOf,
                  Installed, NegKeys
    <3>2. ~AboutToGo(c, calls)
      BY <1>1, NoCall DEF AboutToGo
    <3>3. Justified(c, on, calls)
      BY DEF MapperInv, AllJustified
    <3>4. CASE Default(c)
      BY <3>4 DEF Justified
    <3>5. CASE \E n \in Mapping : InstalledMapping(n) /\ c \in CommandsOf(n) /\ Wants(n, on)
      <4>1. PICK n \in Mapping : InstalledMapping(n) /\ c \in CommandsOf(n) /\ Wants(n, on)
        BY <3>5
      <4>2. CASE Wants(n, on')
        BY <4>1, <4>2 DEF Justified
      <4>3. CASE ~Wants(n, on')
        <5>1. n = m
          BY <2>3, <4>1, <4>3 DEF Shown, Wants
        <5>2. calls' = CallEach(m, "removeCommand")
          BY <2>3, <4>1, <4>3, <5>1 DEF CallsShown
        <5>3. "removeCommand" \in Function
          BY DEF Function
        <5>4. \A i \in 1..Len(CallEach(m, "removeCommand")) :
                CallEach(m, "removeCommand")[i].function = "removeCommand"
          BY <1>2, <5>3, EachCall
        <5>5. \E i \in 1..Len(CallEach(m, "removeCommand")) :
                CallEach(m, "removeCommand")[i].command = c
          BY <1>2, <4>1, <5>1, <5>3, EachCall
        <5>6. AboutToGo(c, calls')
          BY <5>2, <5>4, <5>5 DEF AboutToGo
        <5> QED
          BY <5>6 DEF Justified
      <4> QED
        BY <4>2, <4>3
    <3> QED
      BY <3>2, <3>3, <3>4, <3>5 DEF Justified
  <2> QED
    BY <2>6, <2>7, <2>9, <2>11 DEF MapperInv
<1> QED
  BY <1>6, <1>7

-----------------------------------------------------------------------------
(* A call of the scheduler, and the rest of the program.                   *)

\* addCommand puts at most the new command on the map of scheduled ones.
LEMMA ScheduleAdds ==
  ASSUME NEW c, Schedule(c)
  PROVE  added' \subseteq added \cup {c}
BY DEF Schedule, Mask

LEMMA CallAdds ==
  ASSUME MakeCall
  PROVE  /\ added' \subseteq added \cup {Head(calls).command}
         /\ Head(calls).function = "removeCommand" =>
              added' \subseteq added \ {Head(calls).command}
<1> DEFINE c == Head(calls).command
<1>1. CASE Head(calls).function = "removeCommand"
  BY <1>1 DEF MakeCall, Unschedule
<1>2. CASE Head(calls).function # "removeCommand"
  <2>1. added' = added \/ Schedule(c)
    BY <1>2 DEF MakeCall
  <2> QED
    BY <1>2, <2>1, ScheduleAdds
<1> QED
  BY <1>1, <1>2

LEMMA CallKeeps ==
  ASSUME MapperInv, MakeCall
  PROVE  MapperInv'
<1>1. /\ calls # <<>> /\ calls \in Seq(Call) /\ calls' = Tail(calls)
      /\ remote' = remote /\ previous' = previous /\ visiting' = visiting
      /\ on' = on /\ pressed' = pressed /\ phase' = phase
  BY DEF MapperInv, MapperShape, MakeCall
<1>2. /\ Head(calls) = calls[1] /\ 1 \in 1..Len(calls) /\ calls' \in Seq(Call)
      /\ \A i \in 1..Len(calls') : i + 1 \in 1..Len(calls) /\ calls'[i] = calls[i + 1]
      /\ \A i \in 2..Len(calls) : i - 1 \in 1..Len(calls') /\ calls'[i - 1] = calls[i]
  BY <1>1, FirstCall
<1>3. MapperShape'
  BY <1>1, <1>2 DEF MapperInv, MapperShape, Busy
<1>4. InStep'
  BY <1>1, InStepKept DEF MapperInv
<1>5. CallsMeant'
  BY <1>1, <1>2, CallByCall DEF MapperInv
<1>7. AllJustified'
  <2>1. SUFFICES ASSUME NEW d \in added'
                 PROVE  Justified(d, on, calls')
    BY <1>1 DEF AllJustified, Justified, AboutToGo, Wants, Default, InstalledMapping, CommandsOf,
                Installed, NegKeys
  <2>2. CASE d \in added
    <3>1. Justified(d, on, calls)
      BY <2>2 DEF MapperInv, AllJustified
    <3>2. CASE AboutToGo(d, calls)
      <4>1. PICK i \in 1..Len(calls) : calls[i].function = "removeCommand" /\ calls[i].command = d
        BY <3>2 DEF AboutToGo
      <4>2. i # 1
        BY <1>2, <2>1, <4>1, CallAdds
      <4>3. i \in 2..Len(calls)
        BY <4>1, <4>2
      <4>4. AboutToGo(d, calls')
        BY <1>2, <4>1, <4>3 DEF AboutToGo
      <4> QED
        BY <4>4 DEF Justified
    <3>3. CASE ~AboutToGo(d, calls)
      BY <3>1, <3>3 DEF Justified
    <3> QED
      BY <3>2, <3>3
  <2>3. CASE d \notin added
    <3>1. d = calls[1].command /\ calls[1].function # "removeCommand"
      BY <1>2, <2>1, <2>3, CallAdds
    <3>2. InstalledMapping(calls[1].by) /\ d \in CommandsOf(calls[1].by) /\ Wants(calls[1].by, on)
      BY <1>2, <3>1 DEF MapperInv, CallsMeant
    <3>3. calls[1].by \in Mapping
      BY <1>1, <1>2, FirstCall DEF Call
    <3> QED
      BY <3>2, <3>3 DEF Justified
  <2> QED
    BY <2>2, <2>3
<1> QED
  BY <1>3, <1>4, <1>5, <1>7 DEF MapperInv

\* Between the calls, only defaults are scheduled.
LEMMA SchedulerAdds ==
  ASSUME Scheduler, NEW c \in added', c \notin added
  PROVE  Default(c)
<1>1. PICK s \in Subsystem : RefreshSubsystem(s)
  BY DEF Scheduler, Run, RegisterSubsystem, StartHardwareTests, StopHardwareTests, BeginRun,
         ExecuteCommand, Unschedule, EndCommands, TestSubsystem, EndRun
<1>2. Schedule(DefaultCommand[s])
  BY <1>1 DEF RefreshSubsystem
<1>3. c = DefaultCommand[s]
  BY <1>2, ScheduleAdds
<1> QED
  BY <1>3 DEF Default

LEMMA SchedulerKeeps ==
  ASSUME MapperInv, Scheduler
  PROVE  MapperInv'
<1>1. /\ ~Busy /\ calls' = calls
      /\ remote' = remote /\ previous' = previous /\ visiting' = visiting
      /\ on' = on /\ pressed' = pressed
  BY DEF Scheduler, mapper
<1>2. MapperShape'
  BY <1>1 DEF MapperInv, MapperShape, Busy
<1>3. InStep'
  BY <1>1, InStepKept DEF MapperInv
<1>4. CallsMeant'
  BY <1>1, CallByCall DEF MapperInv
<1>5. AllJustified'
  <2>1. SUFFICES ASSUME NEW d \in added'
                 PROVE  Justified(d, on, calls)
    BY <1>1 DEF AllJustified, Justified, AboutToGo, Wants, Default, InstalledMapping, CommandsOf,
                Installed, NegKeys
  <2>2. CASE d \in added
    BY <2>2 DEF MapperInv, AllJustified
  <2>3. CASE d \notin added
    BY <2>1, <2>3, SchedulerAdds DEF Justified
  <2> QED
    BY <2>2, <2>3
<1> QED
  BY <1>2, <1>3, <1>4, <1>5 DEF MapperInv

LEMMA MapperNextInv == MapperInv /\ [MapperNext]_allVars => MapperInv'
<1>1. SUFFICES ASSUME MapperInv, [MapperNext]_allVars PROVE MapperInv'
  OBVIOUS
<1>2. CASE Packet
  BY <1>1, <1>2, PacketKeeps DEF Packet
<1>3. CASE Visit
  BY <1>1, <1>3, VisitKeeps
<1>4. CASE MakeCall
  BY <1>1, <1>4, CallKeeps
<1>5. CASE Scheduler
  BY <1>1, <1>5, SchedulerKeeps
<1>6. CASE UNCHANGED allVars
  <2>1. /\ calls' = calls /\ remote' = remote /\ previous' = previous /\ visiting' = visiting
        /\ on' = on /\ pressed' = pressed /\ added' = added /\ phase' = phase
    BY <1>6 DEF allVars, vars, mapper
  <2>2. MapperShape'
    BY <1>1, <2>1 DEF MapperInv, MapperShape, Busy
  <2>3. InStep'
    BY <1>1, <2>1, InStepKept DEF MapperInv
  <2>4. CallsMeant'
    BY <1>1, <2>1, CallByCall DEF MapperInv
  <2>5. AllJustified'
    BY <1>1, <2>1 DEF MapperInv, AllJustified, Justified, AboutToGo, Wants, Default, InstalledMapping,
                      CommandsOf, Installed, NegKeys
  <2> QED
    BY <2>2, <2>3, <2>4, <2>5 DEF MapperInv
<1> QED
  BY <1>1, <1>2, <1>3, <1>4, <1>5, <1>6 DEF MapperNext

-----------------------------------------------------------------------------
(* What the mappings are to the scheduler.                                 *)

\* A mapping's call is one that anybody could make between two passes.
LEMMA CallIsRequest ==
  ASSUME MapperInv, MakeCall
  PROVE  [Next]_vars
<1> DEFINE c == Head(calls).command
<1> DEFINE function == Head(calls).function
<1>1. phase = "idle" /\ c \in Command
  <2>1. calls # <<>> /\ calls \in Seq(Call)
    BY DEF MakeCall, MapperInv, MapperShape
  <2>2. Head(calls) \in Call
    BY <2>1, FirstCall
  <2> QED
    BY <2>1, <2>2 DEF MapperInv, MapperShape, Busy, Call
<1>2. UNCHANGED <<registered, testing, testsComplete, phase, cursor>>
  BY DEF MakeCall
<1>3. CASE UNCHANGED <<associated, added, active>>
  BY <1>2, <1>3 DEF vars
<1>4. CASE c \in added /\ Unschedule(c)
  <2>1. RemoveCommand(c)
    BY <1>1, <1>2, <1>4 DEF RemoveCommand
  <2> QED
    BY <1>1, <2>1 DEF Next, Request
<1>5. CASE \E ready \in Readiness(c) : ready /\ Acceptable(c) /\ Schedule(c)
  <2>1. PICK ready \in Readiness(c) : ready /\ Acceptable(c) /\ Schedule(c)
    BY <1>5
  <2>2. TRUE \in Readiness(c)
    BY DEF Readiness
  <2>3. AddCommand(c)
    BY <1>1, <1>2, <2>1, <2>2 DEF AddCommand
  <2> QED
    BY <1>1, <2>3 DEF Next, Request
<1>6. \/ UNCHANGED <<associated, added, active>>
      \/ c \in added /\ Unschedule(c)
      \/ \E ready \in Readiness(c) : ready /\ Acceptable(c) /\ Schedule(c)
  BY DEF MakeCall
<1> QED
  BY <1>3, <1>4, <1>5, <1>6

LEMMA MapperRefines == MapperInv /\ [MapperNext]_allVars => [Next]_vars
<1>1. SUFFICES ASSUME MapperInv, [MapperNext]_allVars PROVE [Next]_vars
  OBVIOUS
<1>2. CASE Packet
  BY <1>2 DEF Packet, handleKeyStateChange
<1>3. CASE Visit
  BY <1>3 DEF Visit
<1>4. CASE MakeCall
  BY <1>1, <1>4, CallIsRequest
<1>5. CASE Scheduler
  BY <1>5 DEF Scheduler, Next, Request
<1>6. CASE UNCHANGED allVars
  BY <1>6 DEF allVars
<1> QED
  BY <1>1, <1>2, <1>3, <1>4, <1>5, <1>6 DEF MapperNext

\* A program with mappings is one of the programs the scheduler was proved
\* correct for: they call it between two passes, through its entry points.
THEOREM MappingsAreCallers == MapperSpec => Spec
<1>1. MapperInit => Init
  BY DEF MapperInit
<1> QED
  BY <1>1, MapperInitInv, MapperNextInv, MapperRefines, PTL DEF MapperSpec, Spec

\* Type correctness of the mappings and, as far as each index has a bit, of
\* the scheduler under them.
THEOREM MapperTypeCorrect ==
  ASSUME IndicesFit
  PROVE  MapperSpec => []MapperTypeOK
<1>1. MapperInv /\ TypeOK => MapperTypeOK
  BY DEF MapperInv, MapperShape, MapperTypeOK, Call, Function
<1> QED
  BY <1>1, MapperInitInv, MapperNextInv, MappingsAreCallers, TypeCorrect, PTL DEF MapperSpec

\* Whatever becomes of commands behind a mapping's back, between two packets
\* a command runs only on demand.
THEOREM RunsOnDemand == MapperSpec => []ScheduledOnDemand
<1>1. MapperInv => ScheduledOnDemand
  <2>1. SUFFICES ASSUME MapperInv, ~Busy, NEW c \in added
                 PROVE  \/ \E k \in 1..Len(AddMapCalls) :
                             LET m == AddMapCalls[k] IN
                             Installed(k) /\ c \in CommandsOf(m) /\ (Kind[m] = "press" \/ Demands(m))
                        \/ \E s \in Subsystem : DefaultCommand[s] = c
    BY DEF ScheduledOnDemand
  <2>2. visiting = 0 /\ calls = <<>>
    BY <2>1 DEF Busy
  <2>3. ~AboutToGo(c, calls)
    BY <2>2, NoCall DEF AboutToGo
  <2>4. Justified(c, on, calls)
    BY <2>1 DEF MapperInv, AllJustified
  <2>5. CASE Default(c)
    BY <2>5 DEF Default
  <2>6. CASE \E m \in Mapping : InstalledMapping(m) /\ c \in CommandsOf(m) /\ Wants(m, on)
    <3>1. PICK m \in Mapping : InstalledMapping(m) /\ c \in CommandsOf(m) /\ Wants(m, on)
      BY <2>6
    <3>2. PICK k \in 1..Len(AddMapCalls) : Installed(k) /\ AddMapCalls[k] = m
      BY <3>1 DEF InstalledMapping
    <3>3. Remembers(m, remote, on[m], pressed[m])
      BY <2>1, <2>2, <3>2 DEF MapperInv, InStep, LastShown
    <3>4. Kind[m] \in {"hold", "hold repeat", "press", "toggle"}
      BY MapperTypes
    <3>5. Kind[m] = "press" \/ Demands(m)
      BY <3>1, <3>3, <3>4 DEF Wants, Remembers, Demands
    <3> QED
      BY <3>1, <3>2, <3>5
  <2> QED
    BY <2>3, <2>4, <2>5, <2>6 DEF Justified
<1> QED
  BY <1>1, MapperInitInv, MapperNextInv, PTL DEF MapperSpec

\* The remote repeats itself; a mapping calls exactly when two packets in a
\* row differ in what it waits for.
THEOREM EdgesOnly == MapperSpec => ActsOnEdges
<1>1. ASSUME MapperInv, Visit, Installed(visiting)
      PROVE  LET m == AddMapCalls[visiting] IN
             calls' # <<>> <=> MappedCommands[m] # <<>> /\ Edge(m)
  <2> DEFINE m == AddMapCalls[visiting]
  <2>1. visiting \in 1..Len(AddMapCalls) /\ m \in Mapping
    <3>1. visiting \in 0..Len(AddMapCalls) /\ visiting # 0
      BY <1>1 DEF MapperInv, MapperShape, Visit
    <3> QED
      BY <3>1, Indices
  <2>2. LastShown(visiting) = previous
    BY <2>1, Indices DEF LastShown
  <2>3. Remembers(m, previous, on[m], pressed[m])
    BY <1>1, <2>1, <2>2 DEF MapperInv, InStep
  <2>4. executeCommandMapping(m)
    BY <1>1 DEF Visit
  <2>5. CallsShown(m)
    BY <1>1, <2>1, <2>3, <2>4, MappingShown DEF MapperInv
  <2>6. \A f \in Function : CallEach(m, f) = <<>> <=> MappedCommands[m] = <<>>
    BY <2>1, EachCall
  <2>7. CASE Edge(m)
    <3>1. PICK f \in Function : calls' = CallEach(m, f)
      BY <2>5, <2>7 DEF CallsShown
    <3> QED
      BY <2>6, <2>7, <3>1
  <2>8. CASE ~Edge(m)
    <3>1. calls' = <<>>
      BY <2>5, <2>8 DEF CallsShown
    <3> QED
      BY <2>8, <3>1
  <2> QED
    BY <2>7, <2>8
<1>2. MapperInv /\ [MapperNext]_allVars =>
        [Visit /\ Installed(visiting) =>
           LET m == AddMapCalls[visiting] IN
           calls' # <<>> <=> MappedCommands[m] # <<>> /\ Edge(m)]_allVars
  BY <1>1
<1> QED
  BY <1>2, MapperInitInv, MapperNextInv, PTL DEF MapperSpec, ActsOnEdges
=============================================================================
