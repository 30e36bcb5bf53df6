------------------------- MODULE SourceStoreProofs -------------------------
(***************************************************************************)
(* Proofs about SourceStore, for every number of sources, recorders,       *)
(* versions and schedules:                                                 *)
(*   - under racing recorders, rows are well typed and never mixed;        *)
(*   - one sweep at a time, a row's times are in order, current_version is *)
(*     the most recent detection, a failed check keeps what is known, and  *)
(*     the rows implement the version window.                              *)
(***************************************************************************)
EXTENDS SourceStore, TLAPS

USE NoneAssumption, ClockAssumption, RowAssumption

-----------------------------------------------------------------------------
(***************************************************************************)
(* The operators record_check is made of.                                  *)
(***************************************************************************)

\* A check of a plugin, or its timeout, always yields a CheckResult.
LEMMA OutcomeType ==
  ASSUME NEW s \in Source, upstream \in [Source -> Version]
  PROVE  CheckOutcomes(s) \subseteq CheckResult
<1>1. ASSUME NEW run \in PluginRun(upstream[s])
      PROVE  CheckPlugin(run) \in CheckResult
  <2>1. EnsureRelease(run) \in Version \cup {None}
    BY <1>1 DEF PluginRun, EnsureRelease
  <2>2. DumperStatus(run) \in Status
    BY <1>1 DEF PluginRun, DumperStatus, Status
  <2>3. RunDumperCheck(run) \in CheckResult
    BY <1>1, <2>1, <2>2 DEF PluginRun, RunDumperCheck, CheckResult
  <2> QED
    BY <2>3 DEF CheckPlugin, CheckResult, Status
<1>2. TimedOut \in CheckResult
  BY DEF TimedOut, CheckResult, Status
<1> QED
  BY <1>1, <1>2 DEF CheckOutcomes

\* A row not yet written is a SourceState with its defaults.
LEMMA BlankType == Blank \in Row
BY DEF Blank, Row

\* get(...) or SourceState(...) is always a SourceState.
LEMMA ReadType ==
  ASSUME NEW stored \in Row \cup {Absent, Unreadable}
  PROVE  Read(stored) \in Row
BY BlankType DEF Read

\* A row that was put reads back as it is.
LEMMA ReadRow ==
  ASSUME NEW row \in Row
  PROVE  Read(row) = row
BY DEF Read

\* What the merge does to each field.
LEMMA MergeFields ==
  ASSUME NEW row \in Row, NEW result \in CheckResult, NEW now \in Nat,
         NEW new, new = Merge(row, result, now)
  PROVE  /\ new \in Row
         /\ new.checked_at = now
         /\ new.schedule = MergedSchedule(row, result)
         /\ IsNewVersion(row, result) =>
              /\ new.current_version = result.latest_version
              /\ new.current_version_at = now
              /\ row.current_version # None =>
                   /\ new.last_version = row.current_version
                   /\ new.last_version_at = row.current_version_at
              /\ row.current_version = None =>
                   /\ new.last_version = row.last_version
                   /\ new.last_version_at = row.last_version_at
         /\ ~IsNewVersion(row, result) =>
              /\ new.current_version = row.current_version
              /\ new.current_version_at = row.current_version_at
              /\ new.last_version = row.last_version
              /\ new.last_version_at = row.last_version_at
<1> DEFINE attempted == [row EXCEPT !.status = result.status,
                                    !.checked_at = now,
                                    !.schedule = MergedSchedule(row, result)]
<1>1. MergedSchedule(row, result) \in Schedule \cup {None}
  BY DEF MergedSchedule, Row, CheckResult
<1>2. /\ attempted \in Row
      /\ attempted.checked_at = now
      /\ attempted.schedule = MergedSchedule(row, result)
      /\ attempted.current_version = row.current_version
      /\ attempted.current_version_at = row.current_version_at
      /\ attempted.last_version = row.last_version
      /\ attempted.last_version_at = row.last_version_at
  BY <1>1 DEF Row, CheckResult
<1>3. CASE IsNewVersion(row, result)
  <2>1. result.latest_version \in Version
    BY <1>3 DEF IsNewVersion, CheckResult
  <2> DEFINE v == result.latest_version
             kept == IF attempted.current_version # None
                     THEN [attempted EXCEPT !.last_version = attempted.current_version,
                                            !.last_version_at = attempted.current_version_at]
                     ELSE attempted
  <2>2. Merge(row, result, now) = [kept EXCEPT !.current_version = v,
                                               !.current_version_at = now]
    BY <1>3 DEF Merge, Rotate
  <2> HIDE DEF attempted
  <2>3. /\ kept \in Row
        /\ kept.checked_at = now
        /\ kept.schedule = MergedSchedule(row, result)
        /\ row.current_version # None =>
             /\ kept.last_version = row.current_version
             /\ kept.last_version_at = row.current_version_at
        /\ row.current_version = None =>
             /\ kept.last_version = row.last_version
             /\ kept.last_version_at = row.last_version_at
    BY <1>2 DEF Row
  <2> HIDE DEF kept
  <2> QED
    BY <1>3, <2>1, <2>2, <2>3 DEF Row
<1>4. CASE ~IsNewVersion(row, result)
  BY <1>2, <1>4 DEF Merge
<1> QED
  BY <1>3, <1>4

\* MergeFields, without the last version.
LEMMA MergeCurrent ==
  ASSUME NEW row \in Row, NEW result \in CheckResult, NEW now \in Nat
  PROVE  /\ Merge(row, result, now) \in Row
         /\ Merge(row, result, now).current_version =
              IF IsNewVersion(row, result) THEN result.latest_version
                                           ELSE row.current_version
<1> SUFFICES ASSUME NEW new, new = Merge(row, result, now)
             PROVE  /\ new \in Row
                    /\ new.current_version =
                         IF IsNewVersion(row, result) THEN result.latest_version
                                                      ELSE row.current_version
  OBVIOUS
<1>1. CASE IsNewVersion(row, result)
  BY <1>1, MergeFields
<1>2. CASE ~IsNewVersion(row, result)
  BY <1>2, MergeFields
<1> QED BY <1>1, <1>2

\* A merge of anything but a new version leaves the window alone.
LEMMA MergeKeepsWindow ==
  ASSUME NEW row \in Row, NEW result \in CheckResult, NEW now \in Nat,
         ~IsNewVersion(row, result)
  PROVE  /\ WindowOf(Merge(row, result, now)) = WindowOf(row)
         /\ Merge(row, result, now).checked_at = now
         /\ Merge(row, result, now).schedule = MergedSchedule(row, result)
<1> SUFFICES ASSUME NEW new, new = Merge(row, result, now)
             PROVE  /\ WindowOf(new) = WindowOf(row)
                    /\ new.checked_at = now
                    /\ new.schedule = MergedSchedule(row, result)
  OBVIOUS
<1>1. /\ new.checked_at = now
      /\ new.schedule = MergedSchedule(row, result)
      /\ new.current_version = row.current_version
      /\ new.current_version_at = row.current_version_at
      /\ new.last_version = row.last_version
      /\ new.last_version_at = row.last_version_at
  BY MergeFields
<1> QED BY <1>1 DEF WindowOf

(***************************************************************************)
(* base.py:101-138, where overlapping sweeps record one source twice: a    *)
(* second answer with the version of the first leaves the versions and     *)
(* their times as the first put them, for any row and any two times; only  *)
(* checked_at and the schedule are those of the second.                    *)
(***************************************************************************)
THEOREM SameAnswerTwice ==
  ASSUME NEW row \in Row, NEW t1 \in Nat, NEW t2 \in Nat,
         NEW first \in CheckResult, NEW second \in CheckResult,
         first.status = "ok", second.status = "ok",
         first.latest_version = second.latest_version
  PROVE  LET once  == Merge(row, first, t1)
             twice == Merge(once, second, t2)
         IN  /\ WindowOf(twice) = WindowOf(once)
             /\ twice.checked_at = t2
             /\ twice.schedule = second.schedule
<1> DEFINE once  == Merge(row, first, t1)
<1>1. /\ once \in Row
      /\ once.current_version = IF IsNewVersion(row, first) THEN first.latest_version
                                                            ELSE row.current_version
  BY MergeCurrent
<1> HIDE DEF once
<1>2. ~IsNewVersion(once, second)
  BY <1>1 DEF IsNewVersion
<1>3. /\ WindowOf(Merge(once, second, t2)) = WindowOf(once)
      /\ Merge(once, second, t2).checked_at = t2
      /\ Merge(once, second, t2).schedule = MergedSchedule(once, second)
  BY <1>1, <1>2, MergeKeepsWindow
<1>4. MergedSchedule(once, second) = second.schedule
  BY DEF MergedSchedule
<1> QED
  BY <1>3, <1>4 DEF once

-----------------------------------------------------------------------------
(***************************************************************************)
(* Type correctness under racing recorders.                                *)
(***************************************************************************)
LEMMA TypeInit == Init => TypeOK
BY DEF Init, TypeOK, Stages

LEMMA TypeStep == TypeOK /\ [Next]_vars => TypeOK'
<1> SUFFICES ASSUME TypeOK, [Next]_vars
             PROVE  TypeOK'
  OBVIOUS
<1>1. CASE Tick
  BY <1>1 DEF TypeOK, Tick
<1>2. ASSUME NEW s \in Source, Publish(s)
      PROVE  TypeOK'
  BY <1>2 DEF TypeOK, Publish
<1>3. ASSUME NEW r \in Recorder, NEW s \in Source, Check(r, s)
      PROVE  TypeOK'
  <2>1. PICK result \in CheckOutcomes(s) :
          job' = [job EXCEPT ![r] = [source |-> s, result |-> result, seen_at |-> clock,
                                     now |-> 0, row |-> Blank]]
    BY <1>3 DEF Check
  <2>2. result \in CheckResult
    BY OutcomeType DEF TypeOK
  <2>3. [source |-> s, result |-> result, seen_at |-> clock,
         now |-> 0, row |-> Blank] \in Job
    BY <2>2, BlankType DEF Job, TypeOK
  <2> QED
    BY <1>3, <2>1, <2>3 DEF TypeOK, Check, Stages
<1>4. ASSUME NEW r \in Recorder, Stamp(r)
      PROVE  TypeOK'
  <2>1. [job[r] EXCEPT !.now = clock] \in Job
    BY <1>4 DEF TypeOK, Stamp, Job
  <2> QED
    BY <1>4, <2>1 DEF TypeOK, Stamp, Stages
<1>5. ASSUME NEW r \in Recorder, Get(r)
      PROVE  TypeOK'
  <2>1. Read(rows[job[r].source]) \in Row
    BY <1>5, ReadType DEF TypeOK, Get, Job
  <2>2. [job[r] EXCEPT !.row = Read(rows[job[r].source])] \in Job
    BY <1>5, <2>1 DEF TypeOK, Get, Job
  <2> QED
    BY <1>5, <2>2 DEF TypeOK, Get, Stages
<1>6. ASSUME NEW r \in Recorder, Put(r)
      PROVE  TypeOK'
  <2>1. job[r] \in Job
    BY <1>6 DEF TypeOK, Put
  <2>2. Merge(job[r].row, job[r].result, job[r].now) \in Row
    BY <2>1, MergeFields DEF Job
  <2>3. Detected(job[r]) \subseteq Sighting
    BY <2>1 DEF Job, CheckResult, Detected, Sighting
  <2>4. job[r].source \in Source
    BY <2>1 DEF Job
  <2>5. rows' \in [Source -> Row \cup {Absent, Unreadable}]
    BY <1>6, <2>2, <2>4 DEF TypeOK, Put
  <2>6. sightings' \in [Source -> SUBSET Sighting]
    BY <1>6, <2>3, <2>4 DEF TypeOK, Put
  <2> QED
    BY <1>6, <2>5, <2>6 DEF TypeOK, Put, Stages
<1>7. ASSUME NEW r \in Recorder, Abandon(r)
      PROVE  TypeOK'
  BY <1>7 DEF TypeOK, Abandon, Stages
<1>8. CASE Restart
  BY <1>8 DEF TypeOK, Restart, Stages
<1>9. CASE UNCHANGED vars
  BY <1>9 DEF TypeOK, vars
<1> QED
  BY <1>1, <1>2, <1>3, <1>4, <1>5, <1>6, <1>7, <1>8, <1>9 DEF Next, Record

(***************************************************************************)
(* The store and every recorder always hold well-typed values, whatever    *)
(* plugins return and however recorders race (store/base.py).              *)
(***************************************************************************)
THEOREM TypeCorrect == Spec => []TypeOK
BY TypeInit, TypeStep, PTL DEF Spec

-----------------------------------------------------------------------------
(***************************************************************************)
(* Provenance under racing recorders.  A row in a recorder's hands is as   *)
(* genuine as the stored one it was read from, and stays so, because       *)
(* sightings are never forgotten.                                          *)
(***************************************************************************)
HeldGenuine ==
  \A r \in Recorder : pc[r] = "read" => GenuineRow(job[r].source, job[r].row)

ProvInv == TypeOK /\ Provenance /\ HeldGenuine

LEMMA BlankGenuine ==
  ASSUME NEW s \in Source
  PROVE  GenuineRow(s, Blank)
BY DEF GenuineRow, Genuine, Blank

\* More sightings never make a row less genuine.
LEMMA GenuineGrows ==
  ASSUME NEW s \in Source, NEW row \in Row, GenuineRow(s, row),
         sightings[s] \subseteq sightings'[s]
  PROVE  GenuineRow(s, row)'
BY DEF GenuineRow, Genuine

LEMMA ProvInit == Init => ProvInv
<1> SUFFICES ASSUME Init
             PROVE  ProvInv
  OBVIOUS
<1>1. \A s \in Source : Read(rows[s]) = Blank
  BY DEF Init, Read
<1>2. Provenance
  BY <1>1, BlankGenuine DEF Provenance
<1> QED
  BY <1>2, TypeInit DEF ProvInv, HeldGenuine, Init

\* Merging a genuine row with a detection that is being stored keeps it genuine.
LEMMA MergeGenuine ==
  ASSUME TypeOK, NEW r \in Recorder, Put(r),
         NEW j \in Job, j = job[r], GenuineRow(j.source, j.row),
         NEW new, new = Merge(j.row, j.result, j.now)
  PROVE  GenuineRow(j.source, new)'
<1> DEFINE s == j.source
<1>2. s \in Source /\ j.row \in Row /\ j.result \in CheckResult /\ j.now \in Nat
  BY DEF Job
<1>3. sightings'[s] = sightings[s] \cup Detected(j)
  BY <1>2 DEF Put, TypeOK
<1> SUFFICES /\ new.current_version = None => new.current_version_at = 0
             /\ new.current_version # None =>
                  \E g \in sightings'[s] : /\ g.version = new.current_version
                                           /\ g.at = new.current_version_at
             /\ new.last_version = None => new.last_version_at = 0
             /\ new.last_version # None =>
                  /\ \E g \in sightings'[s] : /\ g.version = new.last_version
                                              /\ g.at = new.last_version_at
                  /\ new.current_version \notin {None, new.last_version}
  BY DEF GenuineRow, Genuine
<1>4. /\ j.row.current_version = None => j.row.current_version_at = 0
      /\ j.row.current_version # None =>
           \E g \in sightings'[s] : /\ g.version = j.row.current_version
                                    /\ g.at = j.row.current_version_at
      /\ j.row.last_version = None => j.row.last_version_at = 0
      /\ j.row.last_version # None =>
           /\ \E g \in sightings'[s] : /\ g.version = j.row.last_version
                                       /\ g.at = j.row.last_version_at
           /\ j.row.current_version \notin {None, j.row.last_version}
  BY <1>3 DEF GenuineRow, Genuine
<1>5. CASE IsNewVersion(j.row, j.result)
  <2>1. [version |-> j.result.latest_version, at |-> j.now, seen_at |-> j.seen_at]
          \in sightings'[s]
    BY <1>3, <1>5 DEF IsNewVersion, Detected
  <2>2. /\ new.current_version = j.result.latest_version
        /\ new.current_version_at = j.now
        /\ j.row.current_version # None =>
             /\ new.last_version = j.row.current_version
             /\ new.last_version_at = j.row.current_version_at
        /\ j.row.current_version = None =>
             /\ new.last_version = j.row.last_version
             /\ new.last_version_at = j.row.last_version_at
    BY <1>2, <1>5, MergeFields
  <2>3. j.result.latest_version \notin {None, j.row.current_version}
    BY <1>5 DEF IsNewVersion
  <2> HIDE DEF s
  <2> QED
    BY <1>4, <2>1, <2>2, <2>3
<1>6. CASE ~IsNewVersion(j.row, j.result)
  <2>2. /\ new.current_version = j.row.current_version
        /\ new.current_version_at = j.row.current_version_at
        /\ new.last_version = j.row.last_version
        /\ new.last_version_at = j.row.last_version_at
    BY <1>2, <1>6, MergeFields
  <2> QED
    BY <1>4, <2>2
<1> QED
  BY <1>5, <1>6

LEMMA ProvStep == ProvInv /\ [Next]_vars => ProvInv'
<1> SUFFICES ASSUME ProvInv, [Next]_vars
             PROVE  ProvInv'
  OBVIOUS
<1> USE DEF ProvInv
<1>0. TypeOK'
  BY TypeStep
<1>1. ASSUME UNCHANGED <<rows, sightings>>,
             \A r \in Recorder : pc'[r] = "read" => pc[r] = "read" /\ job'[r] = job[r]
      PROVE  ProvInv'
  BY <1>0, <1>1 DEF Provenance, HeldGenuine, GenuineRow, Genuine
<1>2. CASE Tick
  BY <1>1, <1>2 DEF Tick
<1>3. ASSUME NEW s \in Source, Publish(s)
      PROVE  ProvInv'
  BY <1>1, <1>3 DEF Publish
<1>4. ASSUME NEW r \in Recorder, NEW s \in Source, Check(r, s)
      PROVE  ProvInv'
  BY <1>1, <1>4 DEF Check, TypeOK
<1>5. ASSUME NEW r \in Recorder, Stamp(r)
      PROVE  ProvInv'
  BY <1>1, <1>5 DEF Stamp, TypeOK
<1>6. ASSUME NEW r \in Recorder, Get(r)
      PROVE  ProvInv'
  <2>1. job[r] \in Job
    BY <1>6 DEF Get, TypeOK
  <2>2. /\ job'[r].source = job[r].source
        /\ job'[r].row = Read(rows[job[r].source])
    BY <1>6, <2>1 DEF Get, TypeOK, Job
  <2>3. GenuineRow(job[r].source, Read(rows[job[r].source]))
    BY <2>1 DEF Provenance, Job
  <2>4. HeldGenuine'
    BY <1>6, <2>2, <2>3 DEF HeldGenuine, Get, TypeOK, GenuineRow, Genuine
  <2>5. Provenance'
    BY <1>6 DEF Get, Provenance, GenuineRow, Genuine
  <2> QED
    BY <1>0, <2>4, <2>5
<1>7. ASSUME NEW r \in Recorder, Put(r)
      PROVE  ProvInv'
  <2>1. PICK j \in Job : j = job[r]
    BY <1>7 DEF Put, TypeOK
  <2>2. PICK s \in Source, new \in Row :
          s = j.source /\ new = Merge(j.row, j.result, j.now)
    BY <2>1, MergeFields DEF Job
  <2>3. \A t \in Source : sightings[t] \subseteq sightings'[t]
    BY <1>7, <2>1, <2>2 DEF Put, TypeOK
  <2>4. GenuineRow(s, new)'
    <3>1. GenuineRow(j.source, j.row)
      BY <1>7, <2>1 DEF HeldGenuine, Put
    <3> QED
      BY <1>7, <2>1, <2>2, <3>1, MergeGenuine
  <2>5. Provenance'
    <3> SUFFICES ASSUME NEW t \in Source
                 PROVE  GenuineRow(t, Read(rows[t]))'
      BY DEF Provenance
    <3>1. CASE t = s
      <4>1. Read(rows'[t]) = new
        BY <1>7, <2>1, <2>2, <3>1, ReadRow DEF Put, TypeOK
      <4> QED
        BY <2>4, <3>1, <4>1 DEF GenuineRow, Genuine
    <3>2. CASE t # s
      <4>1. rows'[t] = rows[t]
        BY <1>7, <2>1, <2>2, <3>2 DEF Put, TypeOK
      <4>2. Read(rows[t]) \in Row
        BY ReadType DEF TypeOK
      <4>3. GenuineRow(t, Read(rows[t]))
        BY DEF Provenance
      <4> QED
        BY <2>3, <4>1, <4>2, <4>3 DEF GenuineRow, Genuine
    <3> QED
      BY <3>1, <3>2
  <2>6. HeldGenuine'
    <3> SUFFICES ASSUME NEW q \in Recorder, pc'[q] = "read"
                 PROVE  GenuineRow(job[q].source, job[q].row)'
      BY DEF HeldGenuine
    <3>1. pc[q] = "read" /\ job'[q] = job[q]
      BY <1>7 DEF Put, TypeOK
    <3>2. job[q].source \in Source
      BY <3>1 DEF TypeOK, Job
    <3> QED
      BY <2>3, <3>1, <3>2 DEF HeldGenuine, GenuineRow, Genuine
  <2> QED
    BY <1>0, <2>5, <2>6
<1>8. ASSUME NEW r \in Recorder, Abandon(r)
      PROVE  ProvInv'
  BY <1>1, <1>8 DEF Abandon, TypeOK
<1>9. CASE Restart
  BY <1>1, <1>9 DEF Restart
<1>10. CASE UNCHANGED vars
  BY <1>1, <1>10 DEF vars
<1> QED
  BY <1>2, <1>3, <1>4, <1>5, <1>6, <1>7, <1>8, <1>9, <1>10 DEF Next, Record

(***************************************************************************)
(* However recorders race, die or lose updates, each stored version and    *)
(* its time come from one successful check (record_check, base.py:119-131).*)
(***************************************************************************)
THEOREM ProvenanceHolds == Spec => []Provenance
<1>1. ProvInv => Provenance
  BY DEF ProvInv
<1> QED
  BY <1>1, ProvInit, ProvStep, PTL DEF Spec
=============================================================================
