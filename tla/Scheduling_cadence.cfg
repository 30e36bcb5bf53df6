\* A daily source, an hourly tick and checks that take some time.
CONSTANTS
  None = None
  Invalid = Invalid
  Interval = 4
  TickPeriod = 2
  MaxSweep = 1
  Cron = {}
  Horizon = 40
SPECIFICATION Spec
INVARIANTS
  KeepsCadence
