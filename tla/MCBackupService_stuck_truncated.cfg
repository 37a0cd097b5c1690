\* A download may stop midway; later runs take the truncated file for a backup.
SPECIFICATION Spec
CONSTANTS
  Workers = {"w"}
  Items = {"world"}
  DirItems = {"world"}
  Stagings = {"world"}
  Dirs = {"world"}
  StagingOf <- StagingByName
  DirOf <- DirByName
  MaxBackups <- KeepTwo
  ItemsOf <- EachItem
  Requests <- EachBackup
  NContents = 2
  Merged <- Growing
  Live = {}
  PerSecond = 1
  Horizon = 2
  Deletable = {}
  Faults = {"receive"}
PROPERTIES SkipMeansBackedUp
