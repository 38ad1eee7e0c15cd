SPECIFICATION Spec
CONSTANTS
  FrameLen = 5
  Depth = 3
  MaxMishaps = 1
PROPERTIES Resyncs
