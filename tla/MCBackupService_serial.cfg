\* One worker, every step may fail and the process may crash; a directory of a running container and a file whose copies users delete.
SPECIFICATION Spec
CONSTANTS
  Workers = {"w"}
  Items = {"world", "props"}
  DirItems = {"world"}
  Stagings = {"world", "props"}
  Dirs = {"world", "props"}
  StagingOf <- StagingByName
  DirOf <- DirByName
  MaxBackups <- KeepMixed
  ItemsOf <- SerialItems
  Requests <- SerialRequests
  NContents = 2
  Merged <- Growing
  Live = {"world"}
  PerSecond = 1
  Horizon = 3
  Deletable = {"props"}
  Faults <- AnyStepOrCrash
INVARIANTS TypeOK NameTellsContent FreshSurvivesPrune RetentionHolds
PROPERTIES OnlyOlderPruned RestoreNewest KeepsVault RestoreMatchesName
