CONSTANTS
  MaxFaults = 1
  MaxCommands = 2
  MaxHalts = 1
  MaxRestarts = 2
  Operators = {o1, o2}
  Editors = {e1, e2}
  Names <- MCNames
  Restarted <- MCRestarted
  Default <- MCRestarted
SPECIFICATION Spec
INVARIANTS RolesSettled EditsKept RestartsBounded
CHECK_DEADLOCK FALSE
PROPERTIES Persists
