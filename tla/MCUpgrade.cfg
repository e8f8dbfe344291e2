CONSTANTS
  Process = {p1, p2}
  Version = {v1, v2}
  Factory = v1
  None = None
  Installed <- OverlayInstall
  Requests <- AllRequests
  MaxFaults = 1
  MaxKills = 1
SPECIFICATION Spec
SYMMETRY Runs
INVARIANTS CurrentComplete FallbackUsable CleanupComplete SyncedBeforeReboot
PROPERTIES OrphanBlocks FrozenForever ImplementsAtomicActivation
