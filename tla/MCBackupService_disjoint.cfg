\* Two workers on items of their own; copies and cleanups fail, sha256sum may be missing, downloads and injections do not.
SPECIFICATION Spec
CONSTANTS
  Workers = {"scheduler", "http"}
  Items = {"world", "props"}
  DirItems = {"world", "props"}
  Stagings = {"world", "props"}
  Dirs = {"world", "props"}
  StagingOf <- StagingByName
  DirOf <- DirByName
  MaxBackups <- KeepOne
  ItemsOf <- DisjointItems
  Requests <- DisjointRequests
  NContents = 2
  Merged <- Growing
  Live = {"world"}
  PerSecond = 1
  Horizon = 2
  Deletable = {"props"}
  Faults = {"copy", "nodigest", "clean"}
INVARIANTS NamesInv FreshInv
PROPERTIES KeepsVault SkipMeansBackedUp OnlyOlderPruned RestoreMatchesName
