SPECIFICATION ConsoleSpec
CONSTANTS
  OctetBits = 2
  RateMin = 50
  RateMax = 100
  MaxNumber = 360
  MaxPlace = 20
  Commands = {"Empty", "Query", "Rescan", "Start", "Stop", "Monitor"}
  MaxTyped = 3
  MaxChunks = 2
  MaxTraces = 1
  MaxWaits = 2
  Banner = 1
  MaxUnplugs = 1
INVARIANTS CommandsExact
PROPERTIES OutputDrains WorkerReturns StoppedOnce StopAnnounced
