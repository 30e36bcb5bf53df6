----------------------------- MODULE Scheduling -----------------------------
(***************************************************************************)
(* When a source is checked: the arithmetic of scheduling.py under the     *)
(* ticks of scheduler.py.  One source is enough, since due-ness is decided *)
(* per source; the other sources of a sweep only make it last longer.      *)
(*                                                                         *)
(* Time is a number of steps of the clock; an action takes none, and Pass  *)
(* lets a step go by.  A cron schedule is represented by its period.       *)
(*                                                                         *)
(* Assumed: ticks are on time, no sweep lasts longer than MaxSweep, and a  *)
(* sweep that found the source due records it (CheckService has sweeps     *)
(* that are aborted).                                                      *)
(***************************************************************************)
EXTENDS Naturals

CONSTANTS
  Interval,    \* scheduler_interval
  TickPeriod,  \* scheduler_tick
  MaxSweep,    \* the longest a sweep may last
  Cron,        \* the periods of the cron schedules a plugin may declare
  Invalid,     \* a schedule that croniter does not accept
  None,
  Horizon      \* bound: the clock stops here

ASSUME TimeAssumption ==
  /\ Interval \in Nat \ {0} /\ TickPeriod \in Nat \ {0}
  /\ MaxSweep \in Nat /\ Horizon \in Nat
ASSUME ScheduleAssumption ==
  /\ Cron \subseteq Nat \ {0}
  /\ Invalid \notin Nat /\ None \notin Nat

\* due: the sweep found the source due and has yet to record it.
Sweep == [since : Nat, due : BOOLEAN]

ASSUME NoneAssumption == None \notin Sweep

VARIABLES
  now,
  row,    \* what the store has of the source: checked_at, schedule
  tick,   \* when the job runs next
  sweep,  \* the sweep of the scheduler's job that is under way, or None
  streak  \* history: the run of checks the default interval alone caused

vars == <<now, row, tick, sweep, streak>>

Row == [checked_at : Nat \cup {None}, schedule : Cron \cup {Invalid, None}]

-----------------------------------------------------------------------------
(***************************************************************************)
(* scheduling.py.                                                          *)
(***************************************************************************)
\* croniter(schedule, base).get_next: the first firing after base.
CronNext(period, base) == base + (period - (base % period))

\* next_check_at, of a source that was checked.
NextCheckAt(schedule, last_checked) ==
  IF schedule \in Cron
  THEN CronNext(schedule, last_checked)
  ELSE last_checked + Interval

\* Slip: due only once the next check lies in the past by a whole interval.
IsDueLate(r, t) == r.checked_at = None \/ NextCheckAt(r.schedule, r.checked_at) + Interval <= t

\* Slip: what comes due before the next tick is taken along.
IsDueAhead(r, t) ==
  r.checked_at = None \/ NextCheckAt(r.schedule, r.checked_at) <= t + TickPeriod

\* A source that was never checked is always due.
IsDue(r, t) == r.checked_at = None \/ NextCheckAt(r.schedule, r.checked_at) <= t

-----------------------------------------------------------------------------
Init ==
  /\ now = 0
  /\ row \in [checked_at : {None, 0}, schedule : {None}]
  /\ tick = TickPeriod
  /\ sweep = None
  /\ streak = [from |-> 0, checks |-> 0]

(***************************************************************************)
(* A step of the clock goes by.  A tick is not missed, nor is a sweep's    *)
(* limit.                                                                  *)
(***************************************************************************)
Pass ==
  /\ now < Horizon
  /\ now < tick
  /\ sweep # None => now < sweep.since + MaxSweep
  /\ now' = now + 1
  /\ UNCHANGED <<row, tick, sweep, streak>>

\* Slip: a run that is skipped takes the next one with it.
TickSkipsTwo ==
  /\ now = tick
  /\ tick' = tick + (IF sweep = None THEN TickPeriod ELSE 2 * TickPeriod)
  /\ sweep' = IF sweep = None THEN [since |-> now, due |-> IsDue(row, now)] ELSE sweep
  /\ UNCHANGED <<now, row, streak>>

\* The job runs, unless its previous run still does (max_instances=1).
Tick ==
  /\ now = tick
  /\ tick' = tick + TickPeriod
  /\ sweep' = IF sweep = None THEN [since |-> now, due |-> IsDue(row, now)] ELSE sweep
  /\ UNCHANGED <<now, row, streak>>

\* record_check: checked_at is the time of the record.
Recorded(schedule) == row' = [checked_at |-> now, schedule |-> schedule]

\* The check of a sweep comes to its record_check.
Checked ==
  /\ sweep # None /\ sweep.due
  /\ \E schedule \in Cron \cup {Invalid, None} :
       /\ Recorded(schedule)
       /\ streak' = IF schedule = None /\ row.schedule = None /\ row.checked_at # None
                    THEN [streak EXCEPT !.checks = @ + 1]
                    ELSE [from |-> now, checks |-> 0]

\* Slip: a sweep checks again what it has checked.
RecordAgain == Checked /\ UNCHANGED <<now, tick, sweep>>

\* The sweep records the source, with the schedule its plugin now declares.
Record ==
  /\ Checked
  /\ sweep' = [sweep EXCEPT !.due = FALSE]
  /\ UNCHANGED <<now, tick>>

SweepEnds ==
  /\ sweep # None /\ ~sweep.due
  /\ sweep' = None
  /\ UNCHANGED <<now, row, tick, streak>>

\* A request, or the sweep at start-up, checks the source.
ForceCheck ==
  /\ \E schedule \in Cron \cup {Invalid, None} : Recorded(schedule)
  /\ streak' = [from |-> now, checks |-> 0]
  /\ UNCHANGED <<now, tick, sweep>>

Next == Pass \/ Tick \/ Record \/ SweepEnds \/ ForceCheck

Spec == Init /\ [][Next]_vars

-----------------------------------------------------------------------------
(***************************************************************************)
(* Properties.                                                             *)
(***************************************************************************)
TypeOK ==
  /\ now \in Nat
  /\ row \in Row
  /\ tick \in Nat /\ now <= tick /\ tick <= now + TickPeriod
  /\ sweep = None \/ /\ sweep \in Sweep
                     /\ sweep.since <= now /\ now <= sweep.since + MaxSweep
  /\ streak \in [from : Nat, checks : Nat]

\* When the source is due; next_check_at of the API response.
DueAt == IF row.checked_at = None THEN 0 ELSE NextCheckAt(row.schedule, row.checked_at)

(***************************************************************************)
(* README.md:70-78: a source is checked when it is due, up to the          *)
(* resolution of the tick: no source goes unchecked past its next_check_at *)
(* by more than one tick and the sweeps before and during it, also when    *)
(* its schedule changes, is invalid, or ticks are skipped.                 *)
(***************************************************************************)
Lateness == TickPeriod + 2 * MaxSweep

DueIsChecked == now <= DueAt + Lateness

(***************************************************************************)
(* README.md:75-78: the scheduler checks only what is due.  Due-ness was   *)
(* read when the sweep began, so a check may come early only if a request  *)
(* or another sweep has checked the source since then.                     *)
(***************************************************************************)
NotEarly ==
  [][Record /\ row.checked_at # None /\ row.checked_at < sweep.since =>
       NextCheckAt(row.schedule, row.checked_at) <= sweep.since]_vars

(***************************************************************************)
(* What holds of the rate at which a source without a schedule is checked: *)
(* by scheduler_interval and the lateness of each check, which do add up,  *)
(* and no more often than by scheduler_interval, but for one check that    *)
(* was already under way when a request began the streak.                  *)
(***************************************************************************)
RateBounded ==
  row.checked_at # None /\ row.schedule = None =>
    /\ now <= streak.from + (streak.checks + 1) * (Interval + Lateness)
    /\ streak.from + streak.checks * Interval <= row.checked_at + Interval

(***************************************************************************)
(* README.md:72-73: a source without a schedule is checked every           *)
(* scheduler_interval (daily); the lateness of one check is bounded as     *)
(* above and does not add up over checks.                                  *)
(***************************************************************************)
KeepsCadence ==
  row.checked_at # None /\ row.schedule = None =>
    now <= streak.from + (streak.checks + 1) * Interval + Lateness
=============================================================================
