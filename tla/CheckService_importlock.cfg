\* One plugin hangs while it is imported.
CONSTANTS
  Source = {1, 2}
  Catalogs = {{1, 2}}
  Worker = {w1, w2}
  Scheduler = scheduler
  Startup = startup
  SyncOnStartup = TRUE
  Api = {a1}
  None = None
  HangLoad = {1}
  HangRun = {}
  Poison = {}
  StoreFails = FALSE
  MaxQueue = 3
  Stops = TRUE
SPECIFICATION Spec
SYMMETRY WorkerSymmetry
INVARIANT Isolation
