CONSTANTS
  Files = {f1, f2}
  Erased = {f1, f2}
  Values <- MCValues
  Size <- MCSize
  Commands = {c1, c2}
  MaxHost = 1
  MaxTime = 2
  AtFirst = {"long"}
  MaxStarts = 2
  MaxCommands = 3
  MaxSaves = 1
  MaxFaults = 1
  MaxRetention = 1
SYMMETRY Symmetry
SPECIFICATION Spec
INVARIANTS TypeOK GoodBackupSurvives RoundTrip ResetForgets
PROPERTY ImplementsBackupStore
CHECK_DEADLOCK FALSE
