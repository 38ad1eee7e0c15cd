CONSTANTS
  Budget = 3
  N = 2
  RefSlave = 0
  PrimingCycles = 3
  IndexMod = 13
  RxLen = 2
  TxLen = 2
  MaxFaults = 2
SPECIFICATION FairSpec
INVARIANTS
  TypeOK
  ReplyIsCurrent
  OperationalIsGenuine
  OpInRingOrder
  FaultJustified
PROPERTIES
  RepliesResume
  BringUpEnds
  DropDetected
  PhaseOrder
