\* Any configuration is saved at any time, runs and loads fail, the process restarts.
SPECIFICATION FairSpec
CONSTANTS
  Ids = {"a", "b"}
  Position <- Order
  Configs <- AnyConfig
  Horizon = 4
  Sick = {}
  Outages = TRUE
  MayRestart = TRUE
INVARIANTS TypeOK NoOrphans Cadence NotEarly
PROPERTIES EditTakesEffect EarlyShowsError HealthyItemsRun
