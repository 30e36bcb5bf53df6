\* One sweep at a time: every check is recorded before the source is checked again.
CONSTANTS
  None = None
  Absent = Absent
  Unreadable = Unreadable
  Source = {s1}
  Recorder = {r1, r2}
  Version = {v1, v2}
  Schedule = {c1}
  MaxClock = 3
SPECIFICATION SerialSpec
SYMMETRY Symmetry
INVARIANTS
  MostRecent
  TimesOrdered
  FirstSeenSinceChange
PROPERTIES
  CheckedAtAdvances
  ErrorKeepsKnown
  WindowSpec
