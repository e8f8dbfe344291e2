CONSTANTS
  Process = {p1}
  Version = {v1, v2}
  Factory = v1
  Latest = v2
  None = None
  Installed <- OverlayInstall
  Requests <- PlanOnly
  MaxFaults = 2
  MaxKills = 0
SPECIFICATION FairSpec
INVARIANT CurrentDurable
PROPERTIES Converges RebootsStop
