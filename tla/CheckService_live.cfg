\* No plugin raises or hangs; requests and syncs compete with the sweeps for two workers, the process is stopped now and then.
CONSTANTS
  Source = {1, 2}
  Catalogs = {{1, 2}, {2}}
  Worker = {w1, w2}
  Scheduler = scheduler
  Startup = startup
  SyncOnStartup = FALSE
  Api = {a1}
  None = None
  HangLoad = {}
  HangRun = {}
  Poison = {}
  StoreFails = FALSE
  MaxQueue = 1
  Stops = TRUE
SPECIFICATION SettledSpec
PROPERTIES
  
  ShutdownEnds
  ClosingStartsNothing
  PhasesSpec
  DueGetsRecorded
  DroppedIsLeftAlone
