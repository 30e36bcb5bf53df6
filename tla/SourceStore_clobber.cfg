\* An error record racing with a success.
CONSTANTS
  None = None
  Absent = Absent
  Unreadable = Unreadable
  Source = {s1}
  Recorder = {r1, r2}
  Version = {v1, v2}
  Schedule = {c1}
  MaxClock = 2
SPECIFICATION Spec
PROPERTY ErrorKeepsKnown
