\* A request restores the item that the scheduler backs up; users delete its artifacts; cleanups fail.
SPECIFICATION FairSpec
CONSTANTS
  Workers = {"scheduler", "http"}
  Items = {"world"}
  DirItems = {"world"}
  Stagings = {"world"}
  Dirs = {"world"}
  StagingOf <- StagingByName
  DirOf <- DirByName
  MaxBackups <- KeepOne
  ItemsOf <- EachItem
  Requests <- RestoreBeside
  NContents = 3
  Merged <- Crossing
  Live = {"world"}
  PerSecond = 2
  Horizon = 2
  Deletable = {"world"}
  Faults = {"clean", "extract", "receive", "nodigest"}
PROPERTIES RestoreMatchesName RunEnds
