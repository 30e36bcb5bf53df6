-------------------------- MODULE SchedulingProofs --------------------------
(***************************************************************************)
(* No source is left unchecked past its next_check_at by more than one     *)
(* tick and two sweeps, for every interval, tick, sweep limit and set of   *)
(* cron schedules.                                                         *)
(*                                                                         *)
(* DueIsChecked is not inductive: what bounds the delay is where the next  *)
(* tick lies when no sweep runs, and when the running sweep began          *)
(* otherwise.  TickNear says both.                                         *)
(***************************************************************************)
EXTENDS Scheduling, TLAPS

(***************************************************************************)
(* Without a sweep the next tick comes before DueAt plus a tick and a      *)
(* sweep; a sweep that found the source due began before that, and one     *)
(* that has nothing to record for it began before DueAt.  The first tick   *)
(* of a process finds a source that was never checked.                     *)
(***************************************************************************)
TickNear ==
  /\ sweep = None => tick <= DueAt + MaxSweep + TickPeriod
  /\ sweep # None /\ sweep.due => sweep.since <= DueAt + MaxSweep + TickPeriod
  /\ sweep # None /\ ~sweep.due => sweep.since < DueAt

SInv == TypeOK /\ TickNear

-----------------------------------------------------------------------------
(***************************************************************************)
(* The next check is always later than the last one (next_check_at).       *)
(***************************************************************************)
LEMMA NextIsLater ==
  ASSUME NEW schedule \in Cron \cup {Invalid, None}, NEW t \in Nat
  PROVE  NextCheckAt(schedule, t) \in Nat /\ t < NextCheckAt(schedule, t)
<1>1. CASE schedule \in Cron
  <2>1. schedule \in Nat /\ schedule > 0
    BY <1>1, ScheduleAssumption
  <2>2. t % schedule \in 0..(schedule - 1)
    BY <2>1, SMT
  <2>3. QED
    BY <1>1, <2>1, <2>2, SMT DEF NextCheckAt, CronNext
<1>2. CASE schedule \notin Cron
  BY <1>2, TimeAssumption DEF NextCheckAt
<1>3. QED
  BY <1>1, <1>2

LEMMA DueAtNat ==
  ASSUME TypeOK
  PROVE  DueAt \in Nat
<1>1. CASE row.checked_at = None
  BY <1>1 DEF DueAt
<1>2. CASE row.checked_at # None
  <2>1. row.checked_at \in Nat /\ row.schedule \in Cron \cup {Invalid, None}
    BY <1>2 DEF TypeOK, Row
  <2>2. QED
    BY <1>2, <2>1, NextIsLater DEF DueAt
<1>3. QED
  BY <1>1, <1>2

\* Once it is recorded, a source is due later than now.
LEMMA RecordedIsLater ==
  ASSUME TypeOK, NEW schedule \in Cron \cup {Invalid, None}, Recorded(schedule)
  PROVE  row' \in Row /\ DueAt' \in Nat /\ now < DueAt'
<1>1. now \in Nat /\ None # now
  BY ScheduleAssumption DEF TypeOK
<1>2. row'.checked_at = now /\ row'.schedule = schedule
  BY DEF Recorded
<1>3. row' \in Row
  BY <1>1 DEF Recorded, Row
<1>4. DueAt' = NextCheckAt(schedule, now)
  BY <1>1, <1>2 DEF DueAt, NextCheckAt
<1>5. QED
  BY <1>1, <1>3, <1>4, NextIsLater

\* What lies after now lies after the running sweep's start, and less than a
\* tick before the next one.
LEMMA AfterNow ==
  ASSUME TypeOK, NEW due \in Nat, now < due
  PROVE  /\ tick <= due + MaxSweep + TickPeriod
         /\ sweep # None => sweep.since < due /\ sweep.since <= due + MaxSweep + TickPeriod
<1>1. TickPeriod \in Nat /\ MaxSweep \in Nat
  BY TimeAssumption
<1>2. tick <= due + MaxSweep + TickPeriod
  BY <1>1 DEF TypeOK
<1>3. CASE sweep # None
  BY <1>1, <1>2, <1>3 DEF TypeOK, Sweep
<1>4. QED
  BY <1>2, <1>3

LEMMA InitInv == Init => SInv
<1> SUFFICES ASSUME Init PROVE SInv
  OBVIOUS
<1>1. TypeOK
  BY TimeAssumption, ScheduleAssumption DEF Init, TypeOK, Row
<1>2. DueAt \in Nat
  BY <1>1, DueAtNat
<1>3. TickNear
  BY <1>2, TimeAssumption DEF Init, TickNear
<1>4. QED
  BY <1>1, <1>3 DEF SInv

-----------------------------------------------------------------------------
LEMMA PassInv == SInv /\ Pass => SInv'
<1> SUFFICES ASSUME SInv, Pass PROVE SInv'
  OBVIOUS
<1>1. TypeOK'
  BY TimeAssumption, ScheduleAssumption DEF SInv, TypeOK, Sweep, Pass
<1>2. DueAt' = DueAt
  BY DEF Pass, DueAt, NextCheckAt
<1>3. TickNear'
  BY <1>2 DEF SInv, TypeOK, TickNear, Pass
<1>4. QED
  BY <1>1, <1>3 DEF SInv

LEMMA TickInv == SInv /\ Tick => SInv'
<1> SUFFICES ASSUME SInv, Tick PROVE SInv'
  OBVIOUS
<1>1. DueAt' = DueAt /\ DueAt \in Nat
  BY DueAtNat DEF Tick, DueAt, NextCheckAt, SInv
<1>2. IsDue(row, now) \in BOOLEAN /\ (~IsDue(row, now) => now < DueAt)
  <2>1. now \in Nat
    BY DEF SInv, TypeOK
  <2>2. QED
    BY <1>1, <2>1, SMT DEF IsDue, DueAt
<1>3. TypeOK' /\ TickNear'
  <2>1. CASE sweep = None
    <3>1. sweep' = [since |-> now, due |-> IsDue(row, now)]
      BY <2>1 DEF Tick
    <3>2. sweep' \in Sweep /\ sweep'.since = now /\ sweep'.due = IsDue(row, now)
      BY <1>2, <3>1 DEF SInv, TypeOK, Sweep
    <3>3. sweep' # None
      BY <3>2, NoneAssumption
    <3>4. TypeOK'
      BY <3>2, TimeAssumption DEF SInv, TypeOK, Tick
    <3>5. TickNear'
      BY <1>1, <1>2, <2>1, <3>2, <3>3 DEF SInv, TickNear, Tick
    <3>6. QED
      BY <3>4, <3>5
  <2>2. CASE sweep # None
    <3>1. sweep' = sweep
      BY <2>2 DEF Tick
    <3>2. TypeOK'
      BY <2>2, <3>1, TimeAssumption DEF SInv, TypeOK, Tick
    <3>3. TickNear'
      BY <1>1, <2>2, <3>1 DEF SInv, TickNear
    <3>4. QED
      BY <3>2, <3>3
  <2>3. QED
    BY <2>1, <2>2
<1>4. QED
  BY <1>3 DEF SInv

LEMMA RecordInv == SInv /\ Record => SInv'
<1> SUFFICES ASSUME SInv, Record PROVE SInv'
  OBVIOUS
<1>1. PICK schedule \in Cron \cup {Invalid, None} : Recorded(schedule)
  BY DEF Record, Checked
<1>2. row' \in Row /\ DueAt' \in Nat /\ now < DueAt'
  BY <1>1, RecordedIsLater DEF SInv
<1>3. sweep' \in Sweep /\ sweep'.since = sweep.since /\ ~sweep'.due
  BY DEF Record, Checked, SInv, TypeOK, Sweep
<1>4. sweep' # None
  BY <1>3, NoneAssumption
<1>5. streak' \in [from : Nat, checks : Nat]
  BY DEF Record, Checked, SInv, TypeOK
<1>6. TypeOK'
  BY <1>2, <1>3, <1>5 DEF Record, Checked, SInv, TypeOK
<1>7. TickNear'
  BY <1>2, <1>3, <1>4 DEF Record, Checked, SInv, TypeOK, Sweep, TickNear
<1>8. QED
  BY <1>6, <1>7 DEF SInv

LEMMA SweepEndsInv == SInv /\ SweepEnds => SInv'
<1> SUFFICES ASSUME SInv, SweepEnds PROVE SInv'
  OBVIOUS
<1>1. TypeOK'
  BY DEF SInv, TypeOK, SweepEnds
<1>2. DueAt' = DueAt /\ DueAt \in Nat
  BY DueAtNat DEF SweepEnds, DueAt, NextCheckAt, SInv
<1>3. TickNear'
  BY <1>2, TimeAssumption DEF SInv, TypeOK, Sweep, TickNear, SweepEnds
<1>4. QED
  BY <1>1, <1>3 DEF SInv

LEMMA ForceCheckInv == SInv /\ ForceCheck => SInv'
<1> SUFFICES ASSUME SInv, ForceCheck PROVE SInv'
  OBVIOUS
<1>1. PICK schedule \in Cron \cup {Invalid, None} : Recorded(schedule)
  BY DEF ForceCheck
<1>2. row' \in Row /\ DueAt' \in Nat /\ now < DueAt'
  BY <1>1, RecordedIsLater DEF SInv
<1>3. TypeOK'
  BY <1>2 DEF ForceCheck, SInv, TypeOK
<1>4. TickNear'
  <2>1. sweep' = sweep /\ tick' = tick
    BY DEF ForceCheck
  <2>2. tick <= DueAt' + MaxSweep + TickPeriod
    BY <1>2, AfterNow DEF SInv
  <2>3. sweep # None => sweep.since < DueAt' /\ sweep.since <= DueAt' + MaxSweep + TickPeriod
    BY <1>2, AfterNow DEF SInv
  <2>4. QED
    BY <2>1, <2>2, <2>3 DEF TickNear
<1>5. QED
  BY <1>3, <1>4 DEF SInv

LEMMA NextInv == SInv /\ [Next]_vars => SInv'
<1>1. SInv /\ UNCHANGED vars => SInv'
  BY DEF SInv, TypeOK, TickNear, DueAt, NextCheckAt, vars
<1>2. QED
  BY <1>1, PassInv, TickInv, RecordInv, SweepEndsInv, ForceCheckInv DEF Next

LEMMA InvImplies == SInv => DueIsChecked
<1> SUFFICES ASSUME SInv PROVE DueIsChecked
  OBVIOUS
<1>1. DueAt \in Nat
  BY DueAtNat DEF SInv
<1>2. CASE sweep = None
  BY <1>1, <1>2, TimeAssumption DEF SInv, TypeOK, TickNear, DueIsChecked, Lateness
<1>3. CASE sweep # None
  BY <1>1, <1>3, TimeAssumption DEF SInv, TypeOK, Sweep, TickNear, DueIsChecked, Lateness
<1>4. QED
  BY <1>2, <1>3

LEMMA SInvHolds == Spec => []SInv
BY InitInv, NextInv, PTL DEF Spec

-----------------------------------------------------------------------------
(***************************************************************************)
(* Rows and sweeps stay well typed; the next tick is never further away    *)
(* than one period, and no sweep outlives its limit.                       *)
(***************************************************************************)
THEOREM TypeCorrect == Spec => []TypeOK
<1>1. SInv => TypeOK
  BY DEF SInv
<1>2. QED
  BY <1>1, InitInv, NextInv, PTL DEF Spec

(***************************************************************************)
(* README.md:70-78: a source is checked when it is due, up to one tick and *)
(* two sweeps, whatever schedules its plugin declares over time.           *)
(***************************************************************************)
THEOREM DueIsCheckedHolds == Spec => []DueIsChecked
BY SInvHolds, InvImplies, PTL

-----------------------------------------------------------------------------
(***************************************************************************)
(* How often a source is checked.  A sweep that still has to record the    *)
(* source either found it due, and nobody has checked it since, or a       *)
(* request has, and then the streak begins with that.                      *)
(***************************************************************************)
DueOrForced ==
  sweep # None /\ sweep.due /\ row.checked_at # None =>
    IF row.checked_at < sweep.since
    THEN NextCheckAt(row.schedule, row.checked_at) <= sweep.since
    ELSE streak = [from |-> row.checked_at, checks |-> 0]

\* The two bounds of RateBounded as they stand when a check is recorded.
StreakRate ==
  row.checked_at # None /\ row.schedule = None =>
    /\ row.checked_at <= streak.from + streak.checks * (Interval + Lateness)
    /\ streak.from + streak.checks * Interval <= row.checked_at + Interval

CheckedBefore == row.checked_at # None => row.checked_at <= now

RateInv == DueOrForced /\ StreakRate /\ CheckedBefore

LEMMA OneMore ==
  ASSUME NEW n \in Nat, NEW d \in Nat
  PROVE  n * d \in Nat /\ (n + 1) * d = n * d + d
BY SMT

LEMMA RateInit == Init => RateInv
<1> SUFFICES ASSUME Init PROVE RateInv
  OBVIOUS
<1>1. Interval \in Nat /\ Lateness \in Nat
  BY TimeAssumption DEF Lateness
<1>2. 0 * (Interval + Lateness) = 0 /\ 0 * Interval = 0
  BY <1>1
<1>3. row.checked_at \in {None, 0} /\ row.schedule = None /\ now = 0
      /\ sweep = None /\ streak = [from |-> 0, checks |-> 0]
  BY DEF Init
<1> QED BY <1>1, <1>2, <1>3 DEF RateInv, DueOrForced, StreakRate, CheckedBefore

\* A check by somebody else begins the streak anew.
LEMMA RateForced ==
  ASSUME SInv, RateInv, ForceCheck
  PROVE  RateInv'
<1>1. Interval \in Nat /\ Lateness \in Nat
  BY TimeAssumption DEF Lateness
<1>2. now \in Nat /\ (sweep # None => sweep.since \in Nat /\ sweep.since <= now)
  BY DEF SInv, TypeOK, Sweep
<1>3. /\ row'.checked_at = now /\ now' = now /\ sweep' = sweep
      /\ streak' = [from |-> now, checks |-> 0]
  BY DEF ForceCheck, Recorded
<1>4. 0 * (Interval + Lateness) = 0 /\ 0 * Interval = 0
  BY <1>1
<1>5. DueOrForced'
  BY <1>2, <1>3 DEF DueOrForced
<1>6. StreakRate'
  BY <1>1, <1>2, <1>3, <1>4 DEF StreakRate, Lateness
<1> QED BY <1>2, <1>3, <1>5, <1>6 DEF RateInv, CheckedBefore

\* A check by a sweep comes at most Lateness after it was due, and no earlier
\* than an interval after the last but for what DueOrForced leaves open.
LEMMA RateRecorded ==
  ASSUME SInv, RateInv, Record
  PROVE  RateInv'
<1> DEFINE D == Interval + Lateness
<1>1. Interval \in Nat /\ Lateness \in Nat /\ D \in Nat
  BY TimeAssumption DEF Lateness
<1>2. now \in Nat /\ sweep.since \in Nat /\ sweep.since <= now /\ sweep.due /\ sweep # None
  BY DEF Record, Checked, SInv, TypeOK, Sweep
<1>3. PICK schedule \in Cron \cup {Invalid, None} :
        /\ row' = [checked_at |-> now, schedule |-> schedule]
        /\ streak' = IF schedule = None /\ row.schedule = None /\ row.checked_at # None
                     THEN [streak EXCEPT !.checks = @ + 1]
                     ELSE [from |-> now, checks |-> 0]
  BY DEF Record, Checked, Recorded
<1>4. now' = now /\ ~sweep'.due
  BY DEF Record, SInv, TypeOK, Sweep
<1>5. streak \in [from : Nat, checks : Nat]
  BY DEF SInv, TypeOK
<1>6. StreakRate'
  <2>1. CASE schedule = None /\ row.schedule = None /\ row.checked_at # None
    <3>1. row.checked_at \in Nat /\ row.schedule \notin Cron
      BY <2>1, ScheduleAssumption DEF SInv, TypeOK, Row
    <3>2. DueAt = row.checked_at + Interval /\ NextCheckAt(row.schedule, row.checked_at) = DueAt
      BY <2>1, <3>1 DEF DueAt, NextCheckAt
    <3>3. now <= row.checked_at + D
      BY <1>1, <1>2, <3>1, <3>2, InvImplies DEF DueIsChecked
    <3>4. streak'.from = streak.from /\ streak'.checks = streak.checks + 1
      BY <1>3, <1>5, <2>1
    <3>5. /\ streak.checks * D \in Nat /\ (streak.checks + 1) * D = streak.checks * D + D
          /\ streak.checks * Interval \in Nat
          /\ (streak.checks + 1) * Interval = streak.checks * Interval + Interval
      BY <1>1, <1>5, OneMore
    <3>6. /\ row.checked_at <= streak.from + streak.checks * D
          /\ streak.from + streak.checks * Interval <= row.checked_at + Interval
      BY <2>1 DEF RateInv, StreakRate
    <3>7. now <= streak.from + (streak.checks + 1) * D
      BY <1>1, <1>2, <1>5, <3>1, <3>3, <3>5, <3>6
    <3>8. streak.from + (streak.checks + 1) * Interval <= now + Interval
      <4>1. CASE row.checked_at < sweep.since
        <5>1. row.checked_at + Interval <= now
          BY <1>1, <1>2, <2>1, <3>1, <3>2, <4>1 DEF RateInv, DueOrForced
        <5> QED BY <1>1, <1>2, <1>5, <3>1, <3>5, <3>6, <5>1
      <4>2. CASE ~(row.checked_at < sweep.since)
        <5>1. streak.from = row.checked_at /\ streak.checks = 0
          BY <1>2, <2>1, <4>2 DEF RateInv, DueOrForced
        <5>2. row.checked_at <= now /\ (streak.checks + 1) * Interval = Interval
          BY <1>1, <2>1, <5>1 DEF RateInv, CheckedBefore
        <5> QED BY <1>1, <1>2, <3>1, <5>1, <5>2
      <4> QED BY <4>1, <4>2
    <3> QED BY <1>3, <3>4, <3>7, <3>8 DEF StreakRate, Lateness
  <2>2. CASE ~(schedule = None /\ row.schedule = None /\ row.checked_at # None)
    <3>1. 0 * D = 0 /\ 0 * Interval = 0
      BY <1>1
    <3> QED BY <1>1, <1>2, <1>3, <2>2, <3>1 DEF StreakRate, Lateness
  <2> QED BY <2>1, <2>2
<1>7. DueOrForced'
  BY <1>4 DEF DueOrForced
<1> QED BY <1>2, <1>3, <1>4, <1>6, <1>7 DEF RateInv, CheckedBefore

LEMMA RateTick ==
  ASSUME SInv, RateInv, Tick
  PROVE  RateInv'
<1>1. row' = row /\ streak' = streak /\ now' = now /\ now \in Nat
  BY DEF Tick, SInv, TypeOK
<1>2. DueOrForced'
  <2>1. CASE sweep = None
    <3>1. sweep'.since = now /\ sweep'.due = IsDue(row, now)
      BY <2>1 DEF Tick
    <3>2. ASSUME IsDue(row, now), row.checked_at # None
          PROVE  NextCheckAt(row.schedule, row.checked_at) <= now
                 /\ row.checked_at < NextCheckAt(row.schedule, row.checked_at)
                 /\ row.checked_at \in Nat
                 /\ NextCheckAt(row.schedule, row.checked_at) \in Nat
      <4>1. row.checked_at \in Nat /\ row.schedule \in Cron \cup {Invalid, None}
        BY <3>2 DEF SInv, TypeOK, Row
      <4> QED BY <3>2, <4>1, NextIsLater DEF IsDue
    <3>3. ASSUME IsDue(row, now), row.checked_at # None
          PROVE  NextCheckAt(row.schedule, row.checked_at) <= now /\ row.checked_at < now
      BY <1>1, <3>2, <3>3
    <3>4. NextCheckAt(row.schedule, row.checked_at)' = NextCheckAt(row.schedule, row.checked_at)
      BY <1>1 DEF NextCheckAt
    <3> QED BY <1>1, <3>1, <3>3, <3>4 DEF DueOrForced
  <2>2. CASE sweep # None
    <3>1. sweep' = sweep
      BY <2>2 DEF Tick
    <3> QED BY <1>1, <3>1 DEF RateInv, DueOrForced, NextCheckAt
  <2> QED BY <2>1, <2>2
<1> QED BY <1>1, <1>2 DEF RateInv, StreakRate, CheckedBefore

LEMMA RateStep == SInv /\ RateInv /\ [Next]_vars => RateInv'
<1> SUFFICES ASSUME SInv, RateInv, [Next]_vars PROVE RateInv'
  OBVIOUS
<1>1. CASE Pass
  <2>1. row' = row /\ streak' = streak /\ sweep' = sweep /\ now' = now + 1 /\ now \in Nat
    BY <1>1 DEF Pass, SInv, TypeOK
  <2>2. row.checked_at # None => row.checked_at \in Nat
    BY DEF SInv, TypeOK, Row
  <2> QED BY <2>1, <2>2 DEF RateInv, DueOrForced, StreakRate, CheckedBefore, NextCheckAt
<1>2. CASE SweepEnds \/ UNCHANGED vars
  <2>1. row' = row /\ streak' = streak /\ now' = now /\ (sweep' = sweep \/ sweep' = None)
    BY <1>2 DEF SweepEnds, vars
  <2> QED BY <2>1 DEF RateInv, DueOrForced, StreakRate, CheckedBefore, NextCheckAt
<1> QED BY <1>1, <1>2, RateTick, RateRecorded, RateForced DEF Next

(***************************************************************************)
(* README.md:75-78: a sweep re-checks a source before it is due only if    *)
(* somebody else has checked it since the sweep began.                     *)
(***************************************************************************)
THEOREM NotEarlyHolds == Spec => NotEarly
<1>1. RateInv => (Record /\ row.checked_at # None /\ row.checked_at < sweep.since =>
                    NextCheckAt(row.schedule, row.checked_at) <= sweep.since)
  BY DEF RateInv, DueOrForced, Record, Checked
<1>2. Spec => []RateInv
  BY RateInit, RateStep, SInvHolds, PTL DEF Spec
<1> QED BY <1>1, <1>2, PTL DEF NotEarly

(***************************************************************************)
(* README.md:72-73: a source without a schedule is checked by the default  *)
(* interval, each check being late by at most a tick and two sweeps and    *)
(* no more than one being early.                                           *)
(***************************************************************************)
THEOREM RateBoundedHolds == Spec => []RateBounded
<1>1. ASSUME SInv, RateInv, row.checked_at # None, row.schedule = None
      PROVE  now <= streak.from + (streak.checks + 1) * (Interval + Lateness)
  <2>1. Interval \in Nat /\ Lateness \in Nat
    BY TimeAssumption DEF Lateness
  <2>2. row.checked_at \in Nat /\ row.schedule \notin Cron /\ now \in Nat
        /\ streak.from \in Nat /\ streak.checks \in Nat
    BY <1>1, ScheduleAssumption DEF SInv, TypeOK, Row
  <2>3. now <= row.checked_at + Interval + Lateness
    BY <1>1, <2>2, InvImplies DEF DueIsChecked, DueAt, NextCheckAt
  <2>4. row.checked_at <= streak.from + streak.checks * (Interval + Lateness)
    BY <1>1 DEF RateInv, StreakRate
  <2>5. /\ streak.checks * (Interval + Lateness) \in Nat
        /\ (streak.checks + 1) * (Interval + Lateness)
             = streak.checks * (Interval + Lateness) + (Interval + Lateness)
    BY <2>1, <2>2, OneMore
  <2> QED BY <2>1, <2>2, <2>3, <2>4, <2>5
<1>2. SInv /\ RateInv => RateBounded
  BY <1>1 DEF RateInv, StreakRate, RateBounded
<1>3. Spec => []RateInv
  BY RateInit, RateStep, SInvHolds, PTL DEF Spec
<1> QED BY <1>2, <1>3, SInvHolds, PTL
=============================================================================
