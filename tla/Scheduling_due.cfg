\* Sweeps may outlast the tick, so that ticks are skipped.
CONSTANTS
  None = None
  Invalid = Invalid
  Interval = 4
  TickPeriod = 2
  MaxSweep = 3
  Cron = {3, 6}
  Horizon = 30
SPECIFICATION Spec
INVARIANTS
  TypeOK
  DueIsChecked
  RateBounded
PROPERTIES
  NotEarly
