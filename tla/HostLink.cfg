CONSTANTS
  ByteBits = 2
  WordBytes = 2
  OutBytes = 2
  InBytes = 2
  MosiHdr = 1
  MisoHdr = 2
SPECIFICATION Spec
INVARIANTS FaultShown CrashIsReported PinsExact
PROPERTIES HostFollows
