CONSTANTS
  Regular = {r1, r2}
  Special = {s1}
  MaxMoveFaults = 1
  Enters = {m, a, b, c}
  Devices = {d1, d2}
  Machine = m
  Bytes <- MCBytes
  Programs <- MCPrograms
  Marker <- MCMarker
  Buffer = 3
  Shipped <- MCShipped
SYMMETRY Symmetry
SPECIFICATION Spec
INVARIANTS TypeOK MovesWhole RootIsMine NothingLeaks ImageFound
CHECK_DEADLOCK FALSE
