\* Two backups of one item overlap.
SPECIFICATION Spec
CONSTANTS
  Workers = {"scheduler", "http"}
  Items = {"world"}
  DirItems = {"world"}
  Stagings = {"world"}
  Dirs = {"world"}
  StagingOf <- StagingByName
  DirOf <- DirByName
  MaxBackups <- KeepTwo
  ItemsOf <- EachItem
  Requests <- EachBackup
  NContents = 2
  Merged <- Growing
  Live = {}
  PerSecond = 1
  Horizon = 1
  Deletable = {}
  Faults = {}
INVARIANTS NameTellsContent
