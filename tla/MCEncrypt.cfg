CONSTANTS
  Files = {f1, f2}
  Keys = {k1, k2}
  Commands = {c1, c2}
  MaxCommands = 3
  MaxSaves = 1
  MaxFaults = 2
  MaxHalts = 2
SYMMETRY Symmetry
SPECIFICATION Spec
INVARIANTS TypeOK DataKept RootSpared KeyOpens
CHECK_DEADLOCK FALSE
