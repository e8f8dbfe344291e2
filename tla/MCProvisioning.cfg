CONSTANTS
  Handlers = {h1, h2}
  Wizards = {w1, w2}
  Codes = {c1, c2}
  Ids = {i1, i2, i3, i4}
  MaxHalts = 1
  MaxFaults = 1
SPECIFICATION Spec
SYMMETRY Symmetric
INVARIANTS TypeOK ConfiguredMeans CredentialsKept
CHECK_DEADLOCK FALSE
