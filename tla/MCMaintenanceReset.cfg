CONSTANTS
  Files = {paired, credentials}
  Erased = {paired}
  Values <- MCValues
  Size <- MCSize
  Commands = {c1}
  MaxHost = 1
  MaxTime = 1
  AtFirst = {"long"}
  MaxStarts = 1
  MaxCommands = 1
  MaxSaves = 0
  MaxFaults = 0
  MaxRetention = 0
SPECIFICATION Spec
INVARIANT ResetErasesAll
CHECK_DEADLOCK FALSE
