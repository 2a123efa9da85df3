SPECIFICATION Spec
CONSTANTS
  Byte <- MCByte
  TxCapacity = 7
  FRAME_HEADER_LENGTH = 2
  FRAME_CRC16_LENGTH = 1
  Crc8Length = 2
  SERIAL_TX_BUFF_SIZE = 7
  SERIAL_RX_BUFF_SIZE = 7
  DataLength <- MCDataLength
  RxCapacity = 2
  LookAlike <- MCLookAlike
  MaxFrames = 4
  MaxErrors = 1
INVARIANTS
  TypeOK
  InterruptOn
PROPERTIES
  ImplementsChannel
  DamageIsLocal
CHECK_DEADLOCK FALSE
