------------------------ MODULE MC_CommandScheduler ------------------------
(* Four commands over three subsystems, with every overlap of requirements *)
(* that the eviction loop can meet.                                        *)
EXTENDS CommandScheduler, TLC

MCCommand == 0..3
MCSubsystem == 0..2

\* 0 and 1 need one subsystem each, 2 needs both of theirs, 3 straddles.
MCRequirements == (0 :> {0}) @@ (1 :> {1}) @@ (2 :> {0, 1}) @@ (3 :> {1, 2})

\* The default of subsystem 2 also takes 1, whose own default needs nothing else.
MCDefaultCommand == (0 :> 0) @@ (1 :> 1) @@ (2 :> 3)
=============================================================================
