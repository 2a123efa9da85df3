SPECIFICATION FairSpec
CONSTANTS
  Command <- MCCommand
  Subsystem <- MCSubsystem
  NoCommand = NoCommand
  Requirements <- MCRequirements
  DefaultCommand <- MCDefaultCommand
  AlwaysReady = {0, 3}
  IsMaster = TRUE
  LongBits = 32
INVARIANTS
  ExclusiveSubsystems
  AssociationIsUnion
  Balanced
  LegitimateSchedule
PROPERTIES
  DefaultsPreemptNobody
  ImplementsOwnership
  DefaultTakesOver
