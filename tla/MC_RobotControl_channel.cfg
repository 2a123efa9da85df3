SPECIFICATION Spec
CONSTANTS
  StickMax = 2
  Packet <- MCGarbledPacket
INVARIANTS
  ChannelInRange
