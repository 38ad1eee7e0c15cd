CONSTANTS
  Depth = 3
  TagMod = 6
  Samples = {p1, p2}
  NoSample = none
SPECIFICATION Spec
PROPERTY QueueSpec
