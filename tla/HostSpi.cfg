SPECIFICATION Spec
CONSTANTS
  FrameLen = 5
  Depth = 3
  MaxMishaps = 2
INVARIANTS InStep
PROPERTIES FrameDelivered
