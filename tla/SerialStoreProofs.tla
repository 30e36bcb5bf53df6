------------------------- MODULE SerialStoreProofs -------------------------
(***************************************************************************)
(* Proofs about SourceStore when a source is checked and recorded by one   *)
(* recorder at a time (SerialSpec).                                        *)
(*                                                                         *)
(* None of the properties is inductive by itself.  What makes them so is   *)
(* that between a recorder's Get and its Put nobody else writes the row:   *)
(* the row in its hands is the stored one (HeldFresh), its stamp is not    *)
(* behind the stored checked_at (StampFresh), and its check looked         *)
(* upstream after every check stored before it (DetectionsBehind).         *)
(***************************************************************************)
EXTENDS SourceStoreProofs

HeldFresh ==
  \A r \in Recorder : pc[r] = "read" => job[r].row = Read(rows[job[r].source])

StampFresh ==
  \A r \in Recorder : pc[r] \in {"stamped", "read"} =>
    /\ Read(rows[job[r].source]).checked_at <= job[r].now
    /\ job[r].now \in 1..clock

DetectionsBehind ==
  /\ \A s \in Source : \A g \in sightings[s] : g.seen_at <= clock
  /\ \A r \in Recorder : pc[r] # "idle" =>
       /\ job[r].seen_at <= clock
       /\ \A g \in sightings[job[r].source] : g.seen_at <= job[r].seen_at

SerialInv ==
  /\ ProvInv
  /\ OneSweep
  /\ HeldFresh
  /\ StampFresh
  /\ DetectionsBehind
  /\ TimesOrdered
  /\ MostRecent

LEMMA SerialInit == Init => SerialInv
<1> SUFFICES ASSUME Init
             PROVE  SerialInv
  OBVIOUS
<1>1. \A s \in Source : Read(rows[s]) = Blank
  BY DEF Init, Read
<1>2. TimesOrdered
  BY <1>1 DEF TimesOrdered, Blank, Init
<1>3. MostRecent
  BY DEF MostRecent, Init
<1>4. HeldFresh /\ StampFresh /\ DetectionsBehind /\ OneSweep
  BY DEF HeldFresh, StampFresh, DetectionsBehind, OneSweep, Busy, Init
<1> QED
  BY <1>2, <1>3, <1>4, ProvInit DEF SerialInv

\* The types the step proofs need, one source and one recorder at a time.
LEMMA SerialTypes ==
  ASSUME TypeOK
  PROVE  /\ clock \in Nat
         /\ \A s \in Source : Read(rows[s]) \in Row /\ sightings[s] \in SUBSET Sighting
         /\ \A r \in Recorder : pc[r] # "idle" => job[r] \in Job
BY ReadType DEF TypeOK

(***************************************************************************)
(* Put is the only step that writes a row.  Everything it does is said     *)
(* here, of the recorder's job j, its source s and the new row.            *)
(***************************************************************************)
LEMMA SerialPut ==
  ASSUME SerialInv, NEW r \in Recorder, Put(r)
  PROVE  \E j \in Job, s \in Source, new \in Row :
           /\ j = job[r] /\ s = j.source
           /\ j.row = Read(rows[s])
           /\ new = Merge(Read(rows[s]), j.result, j.now)
           /\ Read(rows'[s]) = new
           /\ sightings'[s] = sightings[s] \cup Detected(j)
           /\ \A t \in Source \ {s} : rows'[t] = rows[t] /\ sightings'[t] = sightings[t]
           /\ Read(rows[s]).checked_at <= j.now
           /\ j.now \in 1..clock
<1> USE DEF SerialInv, ProvInv
<1>1. PICK j \in Job : j = job[r]
  BY DEF Put, TypeOK
<1>2. PICK s \in Source : s = j.source
  BY DEF Job
<1>3. j.row = Read(rows[s])
  BY <1>1, <1>2 DEF HeldFresh, Put
<1>4. PICK new \in Row : new = Merge(j.row, j.result, j.now)
  BY MergeFields DEF Job
<1>5. rows' = [rows EXCEPT ![s] = new] /\ sightings' = [sightings EXCEPT ![s] = @ \cup Detected(j)]
  BY <1>1, <1>2, <1>4 DEF Put
<1>6. Read(rows'[s]) = new
  BY <1>5, ReadRow DEF TypeOK
<1>7. Read(rows[s]).checked_at <= j.now /\ j.now \in 1..clock
  BY <1>1, <1>2 DEF StampFresh, Put
<1> QED
  BY <1>1, <1>2, <1>3, <1>4, <1>5, <1>6, <1>7 DEF TypeOK

LEMMA SerialStep == SerialInv /\ [SerialNext]_vars => SerialInv'
<1> SUFFICES ASSUME SerialInv, [SerialNext]_vars
             PROVE  SerialInv'
  OBVIOUS
<1> USE DEF SerialInv
<1>1. ProvInv'
  BY ProvStep DEF SerialNext
<1>2. OneSweep'
  BY DEF SerialNext, OneSweep, Busy, vars
<1>3. TypeOK /\ TypeOK'
  BY <1>1 DEF ProvInv
<1>4. /\ clock \in Nat
      /\ \A s \in Source : Read(rows[s]) \in Row /\ sightings[s] \in SUBSET Sighting
      /\ \A r \in Recorder : pc[r] # "idle" => job[r] \in Job
  BY <1>3, SerialTypes
<1>5. /\ clock' \in Nat
      /\ \A s \in Source : Read(rows[s])' \in Row /\ sightings'[s] \in SUBSET Sighting
      /\ \A r \in Recorder : pc'[r] # "idle" => job'[r] \in Job
  BY <1>3, ReadType DEF TypeOK
<1>6. ASSUME UNCHANGED <<rows, sightings>>, clock <= clock',
             \A r \in Recorder : pc'[r] # "idle" => pc'[r] = pc[r] /\ job'[r] = job[r]
      PROVE  SerialInv'
  <2>1. HeldFresh'
    BY <1>6 DEF HeldFresh
  <2>2. StampFresh'
    BY <1>4, <1>5, <1>6 DEF StampFresh, Job
  <2>3. DetectionsBehind'
    BY <1>4, <1>5, <1>6 DEF DetectionsBehind, Job, Sighting
  <2>4. TimesOrdered'
    BY <1>4, <1>5, <1>6 DEF TimesOrdered, Row
  <2>5. MostRecent'
    BY <1>6 DEF MostRecent
  <2> QED
    BY <1>1, <1>2, <2>1, <2>2, <2>3, <2>4, <2>5
<1>7. ASSUME UNCHANGED <<rows, sightings, clock>>
      PROVE  TimesOrdered' /\ MostRecent'
  BY <1>7 DEF TimesOrdered, MostRecent
<1>8. CASE Tick
  BY <1>4, <1>6, <1>8 DEF Tick
<1>9. ASSUME NEW s \in Source, Publish(s)
      PROVE  SerialInv'
  BY <1>4, <1>6, <1>9 DEF Publish
<1>10. ASSUME NEW r \in Recorder, NEW s \in Source, Check(r, s)
       PROVE  SerialInv'
  <2>1. /\ pc' = [pc EXCEPT ![r] = "checked"]
        /\ UNCHANGED <<rows, sightings, clock>>
        /\ \A q \in Recorder \ {r} : job'[q] = job[q]
        /\ job'[r].source = s /\ job'[r].seen_at = clock
    BY <1>3, <1>10 DEF Check, TypeOK
  <2>2. HeldFresh' /\ StampFresh'
    BY <1>3, <2>1 DEF HeldFresh, StampFresh, TypeOK
  <2>3. DetectionsBehind'
    BY <1>3, <1>4, <2>1 DEF DetectionsBehind, TypeOK
  <2> QED
    BY <1>1, <1>2, <1>7, <2>1, <2>2, <2>3
<1>11. ASSUME NEW r \in Recorder, Stamp(r)
       PROVE  SerialInv'
  <2>1. /\ pc' = [pc EXCEPT ![r] = "stamped"]
        /\ pc[r] = "checked"
        /\ UNCHANGED <<rows, sightings, clock>>
        /\ \A q \in Recorder \ {r} : job'[q] = job[q]
        /\ job'[r].source = job[r].source
        /\ job'[r].seen_at = job[r].seen_at
        /\ job'[r].now = clock
    BY <1>3, <1>4, <1>11 DEF Stamp, TypeOK, Job
  <2>2. job[r].source \in Source
    BY <1>4, <2>1 DEF Job
  <2>3. HeldFresh' /\ DetectionsBehind'
    BY <1>3, <1>4, <2>1 DEF HeldFresh, DetectionsBehind, TypeOK
  <2>4. StampFresh'
    BY <1>3, <1>4, <2>1, <2>2 DEF StampFresh, TimesOrdered, TypeOK
  <2> QED
    BY <1>1, <1>2, <1>7, <2>1, <2>3, <2>4
<1>12. ASSUME NEW r \in Recorder, Get(r)
       PROVE  SerialInv'
  <2>1. /\ pc' = [pc EXCEPT ![r] = "read"]
        /\ pc[r] = "stamped"
        /\ UNCHANGED <<rows, sightings, clock>>
        /\ \A q \in Recorder \ {r} : job'[q] = job[q]
        /\ job'[r].source = job[r].source
        /\ job'[r].seen_at = job[r].seen_at
        /\ job'[r].now = job[r].now
        /\ job'[r].row = Read(rows[job[r].source])
    BY <1>3, <1>4, <1>12 DEF Get, TypeOK, Job
  <2>2. HeldFresh'
    BY <1>3, <2>1 DEF HeldFresh, TypeOK
  <2>3. StampFresh' /\ DetectionsBehind'
    BY <1>3, <1>4, <2>1 DEF StampFresh, DetectionsBehind, TypeOK
  <2> QED
    BY <1>1, <1>2, <1>7, <2>1, <2>2, <2>3
<1>13. ASSUME NEW r \in Recorder, Put(r)
       PROVE  SerialInv'
  <2>1. PICK j \in Job, s \in Source, new \in Row :
           /\ j = job[r] /\ s = j.source
           /\ j.row = Read(rows[s])
           /\ new = Merge(Read(rows[s]), j.result, j.now)
           /\ Read(rows'[s]) = new
           /\ sightings'[s] = sightings[s] \cup Detected(j)
           /\ \A t \in Source \ {s} : rows'[t] = rows[t] /\ sightings'[t] = sightings[t]
           /\ Read(rows[s]).checked_at <= j.now
           /\ j.now \in 1..clock
    BY <1>13, SerialPut
  <2>2. PICK row \in Row : row = Read(rows[s])
    BY <1>4
  <2>3. j.result \in CheckResult /\ j.now \in Nat /\ j.seen_at \in Nat
    BY DEF Job
  <2>new. new = Merge(row, j.result, j.now)
    BY <2>1, <2>2
  <2>4. /\ pc[r] = "read" /\ clock' = clock
        /\ \A q \in Recorder : pc'[q] # "idle" => q # r /\ pc'[q] = pc[q] /\ job'[q] = job[q]
    BY <1>3, <1>13 DEF Put, TypeOK
  <2>5. \A q \in Recorder : pc'[q] # "idle" => job[q].source \in Source \ {s}
    BY <1>4, <2>1, <2>4 DEF OneSweep, Busy, Job
  <2>6. HeldFresh' /\ StampFresh'
    BY <2>1, <2>4, <2>5 DEF HeldFresh, StampFresh
  <2>7. \A g \in sightings[s] : g.seen_at <= j.seen_at /\ j.seen_at <= clock
    BY <2>1, <2>4 DEF DetectionsBehind
  <2>8. \A g \in Detected(j) : g.seen_at = j.seen_at /\ g.version = j.result.latest_version
    BY DEF Detected
  <2>9. DetectionsBehind'
    <3>1. \A g \in sightings'[s] : g.seen_at <= clock
      BY <2>1, <2>4, <2>8 DEF DetectionsBehind
    <3>2. \A t \in Source : \A g \in sightings'[t] : g.seen_at <= clock'
      BY <2>1, <2>4, <3>1 DEF DetectionsBehind
    <3>3. \A q \in Recorder : pc'[q] # "idle" =>
             /\ job'[q].seen_at <= clock'
             /\ \A g \in sightings'[job'[q].source] : g.seen_at <= job'[q].seen_at
      BY <2>1, <2>4, <2>5 DEF DetectionsBehind
    <3> QED
      BY <3>2, <3>3 DEF DetectionsBehind
  <2>10. TimesOrdered'
    <3>1. /\ row.last_version_at <= row.current_version_at
          /\ row.current_version_at <= row.checked_at
          /\ row.checked_at <= j.now
      BY <2>1, <2>2 DEF TimesOrdered
    <3>2. /\ new.checked_at = j.now
          /\ IsNewVersion(row, j.result) =>
               /\ new.current_version_at = j.now
               /\ new.last_version_at \in {row.current_version_at, row.last_version_at}
          /\ ~IsNewVersion(row, j.result) =>
               /\ new.current_version_at = row.current_version_at
               /\ new.last_version_at = row.last_version_at
      BY <2>new, <2>3, MergeFields
    <3>3. /\ new.last_version_at <= new.current_version_at
          /\ new.current_version_at <= new.checked_at
          /\ new.checked_at <= clock
      BY <1>4, <2>1, <2>3, <3>1, <3>2 DEF Row
    <3> QED
      BY <2>1, <2>4, <3>3 DEF TimesOrdered
  <2>11. MostRecent'
    <3>1. CASE Detected(j) = {}
      <4>1. ~IsNewVersion(row, j.result)
        BY <3>1 DEF Detected, IsNewVersion
      <4>2. new.current_version = row.current_version
        BY <2>new, <2>3, <4>1, MergeFields
      <4> QED
        BY <2>1, <2>2, <3>1, <4>2 DEF MostRecent
    <3>2. CASE Detected(j) # {}
      <4>1. /\ j.result.status = "ok" /\ j.result.latest_version # None
            /\ \E h \in sightings'[s] : /\ h.seen_at = j.seen_at
                                     /\ h.version = j.result.latest_version
        BY <2>1, <3>2 DEF Detected
      <4>2. new.current_version = j.result.latest_version
        BY <2>new, <2>3, <4>1, MergeFields DEF IsNewVersion
      <4>3. \A g \in sightings'[s] : g.seen_at <= j.seen_at
        BY <2>1, <2>3, <2>7, <2>8
      <4> QED
        BY <2>1, <4>1, <4>2, <4>3 DEF MostRecent
    <3> QED
      BY <3>1, <3>2
  <2> QED
    BY <1>1, <1>2, <2>6, <2>9, <2>10, <2>11
<1>14. ASSUME NEW r \in Recorder, Abandon(r)
       PROVE  SerialInv'
  BY <1>3, <1>4, <1>6, <1>14 DEF Abandon, TypeOK
<1>15. CASE Restart
  BY <1>4, <1>6, <1>15 DEF Restart
<1>16. CASE UNCHANGED vars
  BY <1>4, <1>6, <1>16 DEF vars
<1> QED
  BY <1>8, <1>9, <1>10, <1>11, <1>12, <1>13, <1>14, <1>15, <1>16
  DEF SerialNext, Next, Record

(***************************************************************************)
(* One sweep at a time, current_version is the most recently detected      *)
(* upstream version (SourceState docstring, base.py:26).                   *)
(***************************************************************************)
THEOREM MostRecentHolds == SerialSpec => []MostRecent
<1>1. SerialInv => MostRecent
  BY DEF SerialInv
<1> QED
  BY <1>1, SerialInit, SerialStep, PTL DEF SerialSpec

(***************************************************************************)
(* One sweep at a time, last <= current <= checked <= now in every row     *)
(* (record_check, base.py:104-129).                                        *)
(***************************************************************************)
THEOREM TimesOrderedHolds == SerialSpec => []TimesOrdered
<1>1. SerialInv => TimesOrdered
  BY DEF SerialInv
<1> QED
  BY <1>1, SerialInit, SerialStep, PTL DEF SerialSpec

(***************************************************************************)
(* One sweep at a time, checked_at never moves back (base.py:112).         *)
(***************************************************************************)
THEOREM CheckedAtAdvancesHolds == SerialSpec => CheckedAtAdvances
<1> DEFINE Advances == \A s \in Source : Read(rows[s]).checked_at <= Read(rows'[s]).checked_at
<1>1. SerialInv /\ [SerialNext]_vars => [Advances]_vars
  <2> SUFFICES ASSUME SerialInv, SerialNext
               PROVE  Advances
    OBVIOUS
  <2>1. \A s \in Source : Read(rows[s]) \in Row
    BY SerialTypes DEF SerialInv, ProvInv
  <2>2. CASE rows' = rows
    BY <2>1, <2>2 DEF Row
  <2>3. ASSUME NEW r \in Recorder, Put(r)
        PROVE  Advances
    <3>1. PICK j \in Job, s \in Source, new \in Row :
             /\ j.row = Read(rows[s])
             /\ new = Merge(Read(rows[s]), j.result, j.now)
             /\ Read(rows'[s]) = new
             /\ \A t \in Source \ {s} : rows'[t] = rows[t]
             /\ Read(rows[s]).checked_at <= j.now
      BY <2>3, SerialPut
    <3>2. new.checked_at = j.now
      BY <2>1, <3>1, MergeFields DEF Job
    <3> QED
      BY <2>1, <3>1, <3>2 DEF Row
  <2> QED
    BY <2>2, <2>3 DEF SerialNext, Next, Record, Tick, Publish, Check, Stamp, Get, Abandon, Restart
<1> QED
  BY <1>1, SerialInit, SerialStep, PTL DEF SerialSpec, CheckedAtAdvances

(***************************************************************************)
(* One sweep at a time, recording a failed or timed-out check leaves       *)
(* versions, times and schedule alone (base.py:114-119, test_store.py:48). *)
(***************************************************************************)
THEOREM ErrorKeepsKnownHolds == SerialSpec => ErrorKeepsKnown
<1> DEFINE Keeps == \A r \in Recorder : Put(r) /\ job[r].result.status = "error" =>
                      \A s \in Source : Known4(Read(rows'[s])) = Known4(Read(rows[s]))
<1>1. SerialInv /\ [SerialNext]_vars => [Keeps]_vars
  <2> SUFFICES ASSUME SerialInv,
                      NEW r \in Recorder, Put(r), job[r].result.status = "error",
                      NEW t \in Source
               PROVE  Known4(Read(rows'[t])) = Known4(Read(rows[t]))
    OBVIOUS
  <2>1. PICK j \in Job, s \in Source, new \in Row :
           /\ j = job[r]
           /\ j.row = Read(rows[s])
           /\ new = Merge(Read(rows[s]), j.result, j.now)
           /\ Read(rows'[s]) = new
           /\ \A u \in Source \ {s} : rows'[u] = rows[u]
    BY SerialPut
  <2>2. PICK row \in Row : row = Read(rows[s])
    BY SerialTypes DEF SerialInv, ProvInv
  <2>3. j.result.status = "error" /\ j.result \in CheckResult /\ j.now \in Nat
    BY <2>1 DEF Job
  <2>4. ~IsNewVersion(row, j.result) /\ MergedSchedule(row, j.result) = row.schedule
    BY <2>3 DEF IsNewVersion, MergedSchedule
  <2>5. /\ new.current_version = row.current_version
        /\ new.current_version_at = row.current_version_at
        /\ new.last_version = row.last_version
        /\ new.last_version_at = row.last_version_at
        /\ new.schedule = row.schedule
    BY <2>1, <2>2, <2>3, <2>4, MergeFields
  <2> QED
    BY <2>1, <2>2, <2>5 DEF Known4
<1> QED
  BY <1>1, SerialInit, SerialStep, PTL DEF SerialSpec, ErrorKeepsKnown

-----------------------------------------------------------------------------
(***************************************************************************)
(* When the current version was first seen.  Every detection was stored    *)
(* with a stamp not behind checked_at, and those after current_version_at  *)
(* are of the current version: a rotation finds the one it replaces later  *)
(* than every detection of the new version.                                *)
(***************************************************************************)
SinceIsCurrent ==
  \A s \in Source : \A g \in sightings[s] :
    LET row == Read(rows[s]) IN
    /\ g.at <= row.checked_at
    /\ row.current_version_at < g.at => g.version = row.current_version

SeenInv == SerialInv /\ SinceIsCurrent /\ FirstSeenSinceChange

LEMMA SeenPut ==
  ASSUME SeenInv, NEW r \in Recorder, Put(r)
  PROVE  SinceIsCurrent' /\ FirstSeenSinceChange'
<1>1. PICK j \in Job, s \in Source, new \in Row :
         /\ j.row = Read(rows[s])
         /\ new = Merge(Read(rows[s]), j.result, j.now)
         /\ Read(rows'[s]) = new
         /\ sightings'[s] = sightings[s] \cup Detected(j)
         /\ \A t \in Source \ {s} : rows'[t] = rows[t] /\ sightings'[t] = sightings[t]
         /\ Read(rows[s]).checked_at <= j.now
  BY SerialPut DEF SeenInv
<1>2. PICK row \in Row : row = Read(rows[s])
  BY SerialTypes DEF SeenInv, SerialInv, ProvInv
<1>3. /\ sightings[s] \in SUBSET Sighting
      /\ j.result \in CheckResult /\ j.now \in Nat
      /\ row.checked_at \in Nat /\ row.current_version_at \in Nat
      /\ \A g \in sightings[s] : g.at \in Nat
  BY SerialTypes DEF SeenInv, SerialInv, ProvInv, Job, Row, Sighting
<1>4. /\ new.checked_at = j.now
      /\ IsNewVersion(row, j.result) =>
           /\ new.current_version = j.result.latest_version
           /\ new.current_version_at = j.now
      /\ ~IsNewVersion(row, j.result) =>
           /\ new.current_version = row.current_version
           /\ new.current_version_at = row.current_version_at
  BY <1>1, <1>2, <1>3, MergeFields
<1>5. /\ row.current_version_at <= row.checked_at
      /\ row.checked_at <= j.now
      /\ \A g \in sightings[s] :
           /\ g.at <= row.checked_at
           /\ row.current_version_at < g.at => g.version = row.current_version
  BY <1>1, <1>2 DEF SeenInv, SerialInv, TimesOrdered, SinceIsCurrent
<1>6. \A g \in sightings[s] : g.at <= j.now
  BY <1>3, <1>5
<1>7. \A g \in Detected(j) : /\ g.at = j.now /\ g.version = j.result.latest_version
                             /\ ~IsNewVersion(row, j.result) => g.version = row.current_version
  BY DEF Detected, IsNewVersion
<1>8. CASE IsNewVersion(row, j.result)
  <2>1. \A g \in sightings'[s] : g.at <= j.now
    BY <1>1, <1>3, <1>6, <1>7
  <2>2. \A g \in sightings'[s] : ~(j.now < g.at)
    BY <1>1, <1>3, <1>6, <1>7
  <2>3. SinceIsCurrent'
    BY <1>1, <1>4, <1>8, <2>1, <2>2 DEF SeenInv, SinceIsCurrent
  <2>4. ASSUME NEW g \in sightings'[s], g.version = new.current_version, g.at < j.now
        PROVE  \E h \in sightings'[s] : /\ h.version # new.current_version
                                        /\ g.at <= h.at /\ h.at <= j.now
    <3>1. new.current_version # row.current_version
      BY <1>4, <1>8 DEF IsNewVersion
    <3>2. g \in sightings[s]
      BY <1>1, <1>3, <1>7, <2>4
    <3>3. g.at <= row.current_version_at
      BY <1>3, <1>5, <2>4, <3>1, <3>2
    <3>4. row.current_version # None
      <4>1. \E h \in sightings[s] : h.version = row.current_version
        BY <1>2, <3>2 DEF SeenInv, SerialInv, MostRecent
      <4> QED BY <1>3, <4>1, NoneAssumption DEF Sighting
    <3>5. PICK h \in sightings[s] :
             h.version = row.current_version /\ h.at = row.current_version_at
      BY <1>2, <3>4 DEF SeenInv, SerialInv, ProvInv, Provenance, GenuineRow, Genuine
    <3>6. h.at <= j.now
      BY <1>6
    <3> QED BY <1>1, <3>1, <3>3, <3>5, <3>6
  <2>5. FirstSeenSinceChange'
    BY <1>1, <1>4, <1>8, <2>4 DEF SeenInv, FirstSeenSinceChange
  <2> QED BY <2>3, <2>5
<1>9. CASE ~IsNewVersion(row, j.result)
  <2>1. \A g \in sightings'[s] : /\ g.at <= j.now
                                 /\ row.current_version_at < g.at =>
                                      g.version = row.current_version
    BY <1>1, <1>3, <1>5, <1>6, <1>7, <1>9
  <2>2. SinceIsCurrent'
    BY <1>1, <1>4, <1>9, <2>1 DEF SeenInv, SinceIsCurrent
  <2>3. ~(j.now < row.current_version_at)
    BY <1>3, <1>5
  <2>4. \A g \in sightings'[s] : g.at < row.current_version_at => g \in sightings[s]
    BY <1>1, <1>7, <2>3
  <2>5. \A g \in sightings[s] :
          g.version = row.current_version /\ g.at < row.current_version_at =>
            \E h \in sightings[s] : /\ h.version # row.current_version
                                    /\ g.at <= h.at /\ h.at <= row.current_version_at
    BY <1>2 DEF SeenInv, FirstSeenSinceChange
  <2>6. \A g \in sightings'[s] :
          g.version = new.current_version /\ g.at < new.current_version_at =>
            \E h \in sightings'[s] : /\ h.version # new.current_version
                                     /\ g.at <= h.at /\ h.at <= new.current_version_at
    BY <1>1, <1>4, <1>9, <2>4, <2>5
  <2>7. FirstSeenSinceChange'
    BY <1>1, <2>6 DEF SeenInv, FirstSeenSinceChange
  <2> QED BY <2>2, <2>7
<1> QED BY <1>8, <1>9

LEMMA SeenStep == SeenInv /\ [SerialNext]_vars => SeenInv'
<1> SUFFICES ASSUME SeenInv, [SerialNext]_vars
             PROVE  SinceIsCurrent' /\ FirstSeenSinceChange'
  BY SerialStep DEF SeenInv
<1>1. CASE UNCHANGED <<rows, sightings>>
  BY <1>1 DEF SeenInv, SinceIsCurrent, FirstSeenSinceChange
<1>2. ASSUME NEW r \in Recorder, Put(r)
      PROVE  SinceIsCurrent' /\ FirstSeenSinceChange'
  BY <1>2, SeenPut
<1> QED
  BY <1>1, <1>2
  DEF SerialNext, Next, Record, Tick, Publish, Check, Stamp, Get, Abandon, Restart, vars

(***************************************************************************)
(* One sweep at a time, current_version_at is when the current version was *)
(* first seen since another one was (base.py:100-102, test_store.py:26).   *)
(***************************************************************************)
THEOREM FirstSeenSinceChangeHolds == SerialSpec => []FirstSeenSinceChange
<1>1. Init => SeenInv
  BY SerialInit DEF Init, SeenInv, SinceIsCurrent, FirstSeenSinceChange
<1>2. SeenInv => FirstSeenSinceChange
  BY DEF SeenInv
<1> QED
  BY <1>1, <1>2, SeenStep, PTL DEF SerialSpec

-----------------------------------------------------------------------------
(***************************************************************************)
(* One sweep at a time, the rows implement the version window: a Put that  *)
(* rotates is a Sight, every other step leaves the window alone.           *)
(***************************************************************************)
LEMMA WindowInit == Init => Window!Init
BY DEF Init, Read, Blank, WindowOf, Window!Init, Window!Empty

LEMMA WindowPut ==
  ASSUME SerialInv, NEW r \in Recorder, Put(r)
  PROVE  [Window!Next]_([s \in Source |-> WindowOf(Read(rows[s]))])
<1> DEFINE window == [s \in Source |-> WindowOf(Read(rows[s]))]
<1>1. PICK j \in Job, s \in Source, new \in Row :
         /\ j = job[r] /\ s = j.source
         /\ j.row = Read(rows[s])
         /\ new = Merge(Read(rows[s]), j.result, j.now)
         /\ Read(rows'[s]) = new
         /\ \A t \in Source \ {s} : rows'[t] = rows[t]
         /\ Read(rows[s]).checked_at <= j.now
         /\ j.now \in 1..clock
  BY SerialPut
<1>2. PICK row \in Row : row = Read(rows[s])
  BY SerialTypes DEF SerialInv, ProvInv
<1>3. j.result \in CheckResult /\ j.now \in Nat
  BY DEF Job
<1>4. j.now \in 1..MaxClock
  <2>1. clock \in 1..MaxClock
    BY DEF SerialInv, ProvInv, TypeOK
  <2>2. j.now \in 1..clock
    BY <1>1
  <2> QED
    BY <2>1, <2>2, ClockAssumption
<1>5. CASE IsNewVersion(row, j.result)
  <2> DEFINE v == j.result.latest_version
  <2>1. v \in Version /\ v # row.current_version
    BY <1>3, <1>5 DEF IsNewVersion, CheckResult
  <2>2. j.now >= row.current_version_at
    BY <1>1, <1>2, <1>3 DEF SerialInv, TimesOrdered, Row
  <2>3. row.current_version = None =>
          /\ row.current_version_at = 0
          /\ row.last_version = None /\ row.last_version_at = 0
    BY <1>2 DEF SerialInv, ProvInv, Provenance, GenuineRow, Genuine
  <2>4. /\ new.current_version = v
        /\ new.current_version_at = j.now
        /\ new.last_version = row.current_version
        /\ new.last_version_at = row.current_version_at
    BY <1>1, <1>2, <1>3, <1>5, <2>3, MergeFields
  <2>5. window' = [window EXCEPT ![s] =
                     [current_version |-> v,
                      current_version_at |-> j.now,
                      last_version |-> window[s].current_version,
                      last_version_at |-> window[s].current_version_at]]
    BY <1>1, <1>2, <2>4 DEF WindowOf
  <2>6. Window!Sight(s, v, j.now)
    BY <1>2, <2>1, <2>2, <2>5 DEF Window!Sight, WindowOf
  <2> QED
    BY <1>4, <2>1, <2>6 DEF Window!Next
<1>6. CASE ~IsNewVersion(row, j.result)
  <2>1. /\ new.current_version = row.current_version
        /\ new.current_version_at = row.current_version_at
        /\ new.last_version = row.last_version
        /\ new.last_version_at = row.last_version_at
    BY <1>1, <1>2, <1>3, <1>6, MergeFields
  <2> QED
    BY <1>1, <1>2, <2>1 DEF WindowOf
<1> QED
  BY <1>5, <1>6

THEOREM ImplementsWindow == SerialSpec => WindowSpec
<1>1. SerialInv /\ [SerialNext]_vars
        => [Window!Next]_([s \in Source |-> WindowOf(Read(rows[s]))])
  <2> SUFFICES ASSUME SerialInv, [SerialNext]_vars
               PROVE  [Window!Next]_([s \in Source |-> WindowOf(Read(rows[s]))])
    OBVIOUS
  <2>1. CASE rows' = rows
    BY <2>1
  <2>2. ASSUME NEW r \in Recorder, Put(r)
        PROVE  [Window!Next]_([s \in Source |-> WindowOf(Read(rows[s]))])
    BY <2>2, WindowPut
  <2> QED
    BY <2>1, <2>2
    DEF SerialNext, Next, Record, Tick, Publish, Check, Stamp, Get, Abandon, Restart, vars
<1> QED
  BY <1>1, WindowInit, SerialInit, SerialStep, PTL DEF SerialSpec, WindowSpec, Window!Spec
=============================================================================
