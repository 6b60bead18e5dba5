SPECIFICATION FairSpec
CONSTANTS
  driver = driver
  app = app
  NoThread = NoThread
  disk = disk
  Threads = {driver, app}
  Sources = {disk}
  Slots = {1}
  Depth = 4
  Batch = 1
  RecordDepth = 2
  StormBudget = 2
  Granted <- ToDriver
  BindsAgain = FALSE
  MaxFailures = 1
  MaxDeferrals = 1
INVARIANTS NoPanic WorkTracked SourceMatches WaiterHeard
PROPERTIES MaintenanceDone IdleEnds
