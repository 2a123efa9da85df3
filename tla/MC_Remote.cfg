SPECIFICATION FairSpec
CONSTANTS
  Length = 3
  ReadTimeout = 2
  DisconnectTimeout = 9
  Gap = 7
INVARIANTS
  TypeOK
  SilenceDisconnects
PROPERTIES
  ImplementsRemoteLink
  Reconnects
