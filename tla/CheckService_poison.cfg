\* One plugin may raise out of check_plugin.
CONSTANTS
  Source = {1, 2}
  Catalogs = {{1, 2}}
  Worker = {w1}
  Scheduler = scheduler
  Startup = startup
  SyncOnStartup = TRUE
  Api = {}
  None = None
  HangLoad = {}
  HangRun = {}
  Poison = {1}
  StoreFails = FALSE
  MaxQueue = 2
  Stops = FALSE
SPECIFICATION FairSpec
PROPERTY DueGetsRecorded
