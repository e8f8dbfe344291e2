CONSTANTS
  Process = {p1}
  Version = {v1, v2, v3}
  Factory = v1
  None = None
  Installed <- OverlayInstall
  Requests <- AllRequests
  MaxFaults = 0
  MaxKills = 1
SPECIFICATION Spec
INVARIANT PreviousPreserved
