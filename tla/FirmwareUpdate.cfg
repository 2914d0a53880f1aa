SPECIFICATION FairSpec
CONSTANTS
  Modules = {m1}
  Sectors = 2
  SectorPages = 2
  ConfigPages = 1
  PageBytes = 2
  Files = {3, 5, 7, 8, 10}
  Erased = erased
  Junk = junk
  MaxUploads = 2
  MaxLosses = 3
INVARIANTS TypeOK Bootable ConfigSpared
PROPERTIES InstalledOnce Recovers
CHECK_DEADLOCK FALSE
