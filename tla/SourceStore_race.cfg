\* Two recorders race on one source.
CONSTANTS
  None = None
  Absent = Absent
  Unreadable = Unreadable
  Source = {s1}
  Recorder = {r1, r2}
  Version = {v1, v2}
  Schedule = {}
  MaxClock = 2
SPECIFICATION Spec
SYMMETRY Symmetry
INVARIANTS
  TypeOK
  Provenance
