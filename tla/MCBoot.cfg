CONSTANTS
  Disks <- AllDisks
  Requests <- AllRequests
  MaxCrashes = 2
  MaxFaults = 2
SPECIFICATION FairSpec
INVARIANTS LoaderWorks BinWhole CleanSlate
PROPERTIES UserDataKept FreshAfterReset Arrives
