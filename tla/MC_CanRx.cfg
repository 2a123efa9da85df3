SPECIFICATION Spec
CONSTANTS
  Motor = {plain, inverted}
  Stranger = {stranger}
  Inverted = {inverted}
  ENC_RESOLUTION = 6
  Capacity = 2
  Start <- MCStart
  Sweep <- MCSweep
  MaxMessages = 5
INVARIANTS
  TypeOK
  OnceAndInOrder
  HandlerFindsMessage
  EncoderFollowsShaft
CHECK_DEADLOCK FALSE
