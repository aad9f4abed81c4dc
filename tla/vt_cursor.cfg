SPECIFICATION Spec
CONSTANTS
  Sizes <- Windows
  MaxParam = 3
  MAX_TABS = 2
  MaxSaves = 1
  initflags <- Wraparound
PROPERTIES
  OnlyBackLeaves
  RegionHolds
  MainCursorKept
  RestoreReturns
