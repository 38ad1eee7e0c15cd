SPECIFICATION Spec
CONSTANTS
  MaxWaits = 2
  MaxMboxWaits = 2
  Work <- MCWork
  Words = 1
  MaxPolls = 1
  Capacity = 32
  N = 2
  RefSlave = 0
  CoeSlaves = {0}
  Commands = {"Rescan", "Sdo", "Start", "Stop"}
  Targets = {}
  MaxMishaps = 1
  ClockMod = 32
  PortMod = 16
  Margin = 5
  MaxDelay = 3
  MaxCycle = 4
  MaxTransit = 2
  MaxCable = 5
  MaxLoop = 4
INVARIANTS OneUser StartedIsConfigured ListedIsAddressed AnswerIsOwn ClocksAligned
PROPERTIES ReportedIsReached
