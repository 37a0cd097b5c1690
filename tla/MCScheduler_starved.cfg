\* The first item always fails.
SPECIFICATION FairSpec
CONSTANTS
  Ids = {"a", "b"}
  Position <- Order
  Configs <- Fixed
  Horizon = 1
  Sick = {"a"}
  Outages = FALSE
  MayRestart = FALSE
PROPERTIES HealthyItemsRun
