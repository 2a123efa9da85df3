SPECIFICATION MapperSpec
CONSTANTS
  Command <- MCCommand
  Subsystem <- MCSubsystem
  NoCommand = NoCommand
  Requirements <- MCRequirements
  DefaultCommand <- MCDefaultCommand
  AlwaysReady = {0, 1, 2}
  IsMaster = TRUE
  LongBits = 32
  Mapping <- MCMapping
  AddMapCalls <- MCAddMapCalls
  Kind <- MCKind
  Inputs <- MCInputs
  GivenNegKeys <- MCGivenNegKeys
  MappedCommands <- MCMappedCommands
  RemoteStates <- MCRemoteStates
  NoPacket = NoPacket
INVARIANTS
  MapperTypeOK
  ScheduledOnDemand
PROPERTIES
  ActsOnEdges
  HoldRepeatPersists
