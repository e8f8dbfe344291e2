CONSTANTS
  Docs <- MCDocs
  Malformed = Malformed
  Remote = {"url"}
  Callers = {c1}
  MaxEvents = 2
SPECIFICATION Spec
INVARIANTS TypeOK Converged
PROPERTY KeysKept
CHECK_DEADLOCK FALSE
