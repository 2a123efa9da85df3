SPECIFICATION Spec
CONSTANTS
  m4 = m4
  m5 = m5
  other = other
  nullptr = nullptr
  Motor <- MCMotor
  BusOf <- MCBusOf
  SlotOf <- MCSlotOf
  Inverted = {other}
  Base = 4
  Request <- MCRequest
INVARIANTS
  ErrorMeansFailure
