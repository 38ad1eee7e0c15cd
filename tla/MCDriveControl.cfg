CONSTANTS
  d1 = d1
  Drives = {d1}
  Intents <- MCIntent
  Limit = 2
SPECIFICATION FairSpec
 
PROPERTIES   ResetClearsFault
