SPECIFICATION Spec
CONSTANTS
  TxLen = 2
  RxLen = 2
  IndexMod = 6
  MaxAttempts = 3
  WireLen = 1
  MaxTrouble = 8
INVARIANTS RingsInStep QuietAfterReply
PROPERTIES OwnReply Recovers
