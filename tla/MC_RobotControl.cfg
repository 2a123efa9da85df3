SPECIFICATION FairSpec
CONSTANTS
  StickMax = 2
  Packet <- MCPacket
INVARIANTS
  TypeOK
  RailsShareSpeed
  DriveOrFire
  ReleasedSticksStop
PROPERTIES
  OverrideOwnsVertical
  ReleasedRobotRests
