\* The whole service with one worker: hanging and raising plugins, timeouts, store failures, shutdown, kills.
CONSTANTS
  Source = {1, 2}
  Catalogs = {{1, 2}, {2}}
  Worker = {w1}
  Scheduler = scheduler
  Startup = startup
  SyncOnStartup = TRUE
  Api = {a1}
  None = None
  HangLoad = {2}
  HangRun = {}
  Poison = {1}
  StoreFails = TRUE
  MaxQueue = 1
  Stops = TRUE
SPECIFICATION SettledSpec
INVARIANTS
  TypeOK
  NoLostCheck
PROPERTIES
  ContractSpec
  SweepsEnd
