SPECIFICATION FairSpec
CONSTANTS
  Capacity = 2
  MaxMessages = 6
INVARIANTS
  TypeOK
  NothingLostOrDoubled
  InOrderPerRoute
  MailboxStaysEmpty
PROPERTIES
  BufferedDrains
CHECK_DEADLOCK FALSE
