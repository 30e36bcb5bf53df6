---------------------------- MODULE SourceStore ----------------------------
(***************************************************************************)
(* The state store (store/base.py, store/sqlite_store.py,                  *)
(* store/dynamo_store.py) and the processes that write it.                 *)
(*                                                                         *)
(* A recorder is any thread on its way from a check to the stored row: the *)
(* scheduler's job, the start-up thread, an API request, or another        *)
(* instance on the same table.  It finishes a check (Check), then runs     *)
(* record_check, which takes no lock: now = _now() (Stamp), self.get       *)
(* (Get), and the merge with self.put (Put).  Each backend makes get and   *)
(* put atomic and nothing more, so other recorders run between any two of  *)
(* these steps.                                                            *)
(*                                                                         *)
(* Abstracted: download_urls, error and plugin_type, which no decision     *)
(* reads, and updated_at, which always equals checked_at in a stored row.  *)
(* A timestamp of 0 is None.                                               *)
(***************************************************************************)
EXTENDS CheckRunner, Naturals

CONSTANTS Source,      \* the catalogued sources (repo/plugin keys)
          Recorder,    \* threads that check and record
          Absent,      \* the store has no row
          Unreadable,  \* the row no longer validates as a SourceState
          MaxClock     \* bound: the wall clock stops here

ASSUME ClockAssumption == MaxClock \in Nat \ {0}

VARIABLES rows,       \* the table: source -> row
          pc,         \* recorder -> where it is in check + record_check
          job,        \* recorder -> what it holds in its local variables
          upstream,   \* the version each source publishes now
          clock,      \* datetime.now(timezone.utc)
          sightings   \* history: every successful detection that was stored

vars == <<rows, pc, job, upstream, clock, sightings>>

(***************************************************************************)
(* SourceState, and the row kept for it.                                   *)
(***************************************************************************)
Row == [current_version : Version \cup {None}, current_version_at : Nat,
        last_version : Version \cup {None}, last_version_at : Nat,
        schedule : Schedule \cup {None},
        status : Status \cup {"pending"},
        checked_at : Nat]

\* SourceState(repo=..., plugin=..., plugin_type=...): the field defaults.
Blank == [current_version |-> None, current_version_at |-> 0,
          last_version |-> None, last_version_at |-> 0,
          schedule |-> None, status |-> "pending", checked_at |-> 0]

ASSUME RowAssumption == Absent \notin Row /\ Unreadable \notin Row

\* Slip: only a missing row is replaced, not one that does not deserialize.
ReadAnyDocument(stored) == IF stored = Absent THEN Blank ELSE stored

\* get(...) or SourceState(...): a row that does not deserialize reads as none.
Read(stored) == IF stored \in {Absent, Unreadable} THEN Blank ELSE stored

\* Slip: the schedule of a failed check is trusted too.
ScheduleOfAnyCheck(row, result) == result.schedule

\* The schedule is kept unless the status says the plugin loaded.
MergedSchedule(row, result) ==
  IF result.status \in {"ok", "unsupported"} THEN result.schedule ELSE row.schedule

\* Slip: only the first sighting counts as new.
IsFirstSighting(row, result) ==
  result.status = "ok" /\ result.latest_version # None /\ row.current_version = None

\* Slip: a check that found no release counts as a new one.
IsDifferent(row, result) ==
  result.status = "ok" /\ result.latest_version # row.current_version

\* Slip: every detection counts as new.
IsDetected(row, result) == result.status = "ok" /\ result.latest_version # None

\* detected_version is not None and detected_version != state.current_version
IsNewVersion(row, result) ==
  /\ result.status = "ok"
  /\ result.latest_version # None
  /\ result.latest_version # row.current_version

\* Slip: the time stays behind when the version is rotated.
RotateVersionOnly(row, v, now) ==
  [row EXCEPT !.last_version = row.current_version,
              !.current_version = v, !.current_version_at = now]

\* Rotate current into last, unless there is no current yet.
Rotate(row, v, now) ==
  LET kept == IF row.current_version # None
              THEN [row EXCEPT !.last_version = row.current_version,
                               !.last_version_at = row.current_version_at]
              ELSE row
  IN  [kept EXCEPT !.current_version = v, !.current_version_at = now]

\* Slip: a check that finds a new version does not count as an attempt.
MergeNewUnchecked(row, result, now) ==
  IF IsNewVersion(row, result)
  THEN Rotate(row, result.latest_version, now)
  ELSE [row EXCEPT !.status = result.status, !.checked_at = now]

\* Slip: a failed attempt clears checked_at.
MergeFailureUnchecked(row, result, now) ==
  IF result.status = "ok"
  THEN [row EXCEPT !.status = "ok", !.checked_at = now]
  ELSE [row EXCEPT !.status = result.status, !.checked_at = 0]

\* The body of record_check between self.get and self.put.
Merge(row, result, now) ==
  LET attempted == [row EXCEPT !.status = result.status,
                               !.checked_at = now,
                               !.schedule = MergedSchedule(row, result)]
  IN  IF IsNewVersion(row, result)
      THEN Rotate(attempted, result.latest_version, now)
      ELSE attempted

(***************************************************************************)
(* A recorder's locals.  seen_at is history: when its check looked         *)
(* upstream.                                                               *)
(***************************************************************************)
Job == [source : Source, result : CheckResult, seen_at : Nat, now : Nat, row : Row]

Sighting == [version : Version, at : Nat, seen_at : Nat]

Stages == {"idle", "checked", "stamped", "read"}

Init ==
  /\ rows \in [Source -> {Absent, Unreadable}]
  /\ pc = [r \in Recorder |-> "idle"]
  /\ job = [r \in Recorder |-> None]
  /\ upstream \in [Source -> Version]
  /\ clock = 1
  /\ sightings = [s \in Source |-> {}]

(***************************************************************************)
(* The world outside.                                                      *)
(***************************************************************************)
Tick ==
  /\ clock < MaxClock
  /\ clock' = clock + 1
  /\ UNCHANGED <<rows, pc, job, upstream, sightings>>

\* The source publishes another release, perhaps one it published before.
Publish(s) ==
  /\ \E v \in Version \ {upstream[s]} : upstream' = [upstream EXCEPT ![s] = v]
  /\ UNCHANGED <<rows, pc, job, clock, sightings>>

(***************************************************************************)
(* check_source and _check_refs: a check ends, or is given up.             *)
(***************************************************************************)
CheckOutcomes(s) == {CheckPlugin(run) : run \in PluginRun(upstream[s])} \cup {TimedOut}

Check(r, s) ==
  /\ pc[r] = "idle"
  /\ pc' = [pc EXCEPT ![r] = "checked"]
  /\ \E result \in CheckOutcomes(s) :
       job' = [job EXCEPT ![r] = [source |-> s, result |-> result, seen_at |-> clock,
                                  now |-> 0, row |-> Blank]]
  /\ UNCHANGED <<rows, upstream, clock, sightings>>

(***************************************************************************)
(* record_check.                                                           *)
(***************************************************************************)
Stamp(r) ==
  /\ pc[r] = "checked"
  /\ pc' = [pc EXCEPT ![r] = "stamped"]
  /\ job' = [job EXCEPT ![r].now = clock]
  /\ UNCHANGED <<rows, upstream, clock, sightings>>

Get(r) ==
  /\ pc[r] = "stamped"
  /\ pc' = [pc EXCEPT ![r] = "read"]
  /\ job' = [job EXCEPT ![r].row = Read(rows[job[r].source])]
  /\ UNCHANGED <<rows, upstream, clock, sightings>>

Detected(j) ==
  IF j.result.status = "ok" /\ j.result.latest_version # None
  THEN {[version |-> j.result.latest_version, at |-> j.now, seen_at |-> j.seen_at]}
  ELSE {}

Put(r) ==
  LET j == job[r] IN
  /\ pc[r] = "read"
  /\ rows' = [rows EXCEPT ![j.source] = Merge(j.row, j.result, j.now)]
  /\ sightings' = [sightings EXCEPT ![j.source] = @ \cup Detected(j)]
  /\ pc' = [pc EXCEPT ![r] = "idle"]
  /\ job' = [job EXCEPT ![r] = None]
  /\ UNCHANGED <<upstream, clock>>

\* The store raises, or the sweep holding the result is aborted.
Abandon(r) ==
  /\ pc[r] # "idle"
  /\ pc' = [pc EXCEPT ![r] = "idle"]
  /\ job' = [job EXCEPT ![r] = None]
  /\ UNCHANGED <<rows, upstream, clock, sightings>>

\* The process is killed and started again on the same store.
Restart ==
  /\ pc' = [r \in Recorder |-> "idle"]
  /\ job' = [r \in Recorder |-> None]
  /\ UNCHANGED <<rows, upstream, clock, sightings>>

Record(r) == Stamp(r) \/ Get(r) \/ Put(r) \/ Abandon(r)

Next ==
  \/ Tick
  \/ \E s \in Source : Publish(s)
  \/ \E r \in Recorder, s \in Source : Check(r, s)
  \/ \E r \in Recorder : Record(r)
  \/ Restart

Spec == Init /\ [][Next]_vars

(***************************************************************************)
(* The discipline README recommends ("so only one sweep runs at a time"):  *)
(* a source is in the hands of one recorder from its check to its put.     *)
(***************************************************************************)
Busy(r, s) == pc[r] # "idle" /\ job[r].source = s

OneSweep == \A r, q \in Recorder, s \in Source : Busy(r, s) /\ Busy(q, s) => r = q

SerialNext == Next /\ OneSweep'

SerialSpec == Init /\ [][SerialNext]_vars

-----------------------------------------------------------------------------
(***************************************************************************)
(* Properties.                                                             *)
(***************************************************************************)
TypeOK ==
  /\ rows \in [Source -> Row \cup {Absent, Unreadable}]
  /\ pc \in [Recorder -> Stages]
  /\ job \in [Recorder -> Job \cup {None}]
  /\ \A r \in Recorder : pc[r] # "idle" => job[r] \in Job
  /\ upstream \in [Source -> Version]
  /\ clock \in 1..MaxClock
  /\ sightings \in [Source -> SUBSET Sighting]

(***************************************************************************)
(* A stored version and its time always come from one and the same         *)
(* successful check of that source, and the two slots never show the same  *)
(* version: however recorders interleave, crash or lose updates, a row is  *)
(* never a mixture (record_check, base.py:119-131).                        *)
(***************************************************************************)
Genuine(s, v, t) ==
  IF v = None THEN t = 0
  ELSE \E g \in sightings[s] : g.version = v /\ g.at = t

GenuineRow(s, row) ==
  /\ Genuine(s, row.current_version, row.current_version_at)
  /\ Genuine(s, row.last_version, row.last_version_at)
  /\ row.last_version # None => row.current_version \notin {None, row.last_version}

Provenance == \A s \in Source : GenuineRow(s, Read(rows[s]))

(***************************************************************************)
(* base.py:26: current_version is the most recently detected upstream      *)
(* version: no stored detection of this source looked upstream later.      *)
(***************************************************************************)
MostRecent ==
  \A s \in Source : \A g \in sightings[s] :
    \E h \in sightings[s] : /\ h.version = Read(rows[s]).current_version
                            /\ h.seen_at >= g.seen_at

(***************************************************************************)
(* base.py:100-102 and test_store.py:26 ("first-seen kept"):               *)
(* current_version_at is when the current version was first seen.  When    *)
(* upstream returns to an earlier release that means: first seen since the *)
(* last different one.  A detection of the shown version from before that  *)
(* time was followed by one of another version.                            *)
(***************************************************************************)
FirstSeenSinceChange ==
  \A s \in Source : \A g \in sightings[s] :
    LET row == Read(rows[s]) IN
    g.version = row.current_version /\ g.at < row.current_version_at =>
      \E h \in sightings[s] : /\ h.version # row.current_version
                              /\ g.at <= h.at /\ h.at <= row.current_version_at

(***************************************************************************)
(* test_store.py:37 and base.py:112: the three times of a row are in       *)
(* order, last <= current <= checked <= now, so that the window reads as   *)
(* history and next_check_at is computed from the latest attempt.          *)
(***************************************************************************)
TimesOrdered ==
  \A s \in Source :
    LET row == Read(rows[s]) IN
    /\ row.last_version_at <= row.current_version_at
    /\ row.current_version_at <= row.checked_at
    /\ row.checked_at <= clock

(***************************************************************************)
(* base.py:112: checked_at is the latest attempt, so it never moves back   *)
(* (a source would look due again).                                        *)
(***************************************************************************)
CheckedAtAdvances ==
  [][\A s \in Source : Read(rows[s]).checked_at <= Read(rows'[s]).checked_at]_vars

(***************************************************************************)
(* test_store.py:48 ("not clobbered on error") and base.py:114-115: a      *)
(* check that failed or timed out leaves the versions, their times and the *)
(* schedule of the stored row as they are.                                 *)
(***************************************************************************)
Known4(row) == <<row.current_version, row.current_version_at,
                 row.last_version, row.last_version_at, row.schedule>>

ErrorKeepsKnown ==
  [][\A r \in Recorder : Put(r) /\ job[r].result.status = "error" =>
        \A s \in Source : Known4(Read(rows'[s])) = Known4(Read(rows[s]))]_vars

(***************************************************************************)
(* One sweep at a time, the rows implement the two-place version window.   *)
(***************************************************************************)
WindowOf(row) ==
  [current_version |-> row.current_version, current_version_at |-> row.current_version_at,
   last_version |-> row.last_version, last_version_at |-> row.last_version_at]

Window == INSTANCE VersionWindow WITH
            Time <- 1..MaxClock,
            window <- [s \in Source |-> WindowOf(Read(rows[s]))]

WindowSpec == Window!Spec
=============================================================================
