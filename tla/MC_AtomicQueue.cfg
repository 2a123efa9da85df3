SPECIFICATION Spec
CONSTANTS
  N = 3
  Value = {a, b}
  Nothing = Nothing
INVARIANTS
  TypeOK
  NoSharedSlot
PROPERTIES
  ImplementsFifo
