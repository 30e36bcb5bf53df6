# BioThings Pulse in TLA+

BioThings Pulse watches the upstream data sources of BioThings hubs. It clones
plugin repositories, discovers the data plugins in them, runs each plugin's
release check on a schedule, and keeps for every source the current and the
previous upstream version. This directory holds TLA+ modules of its core, TLC
configurations that check them on small instances, and theorems about them that
TLAPS checks. Source paths below are relative to `src/biothings_pulse/` in the
repository; `README.md:n` is the repository's README.

## 1. The system

| component | state it keeps | operations | module |
|---|---|---|---|
| State store (`store/`) | one row per source: current and last version with the time of each, `checked_at`, status, error, schedule | `record_check` = stamp, `get`, merge, `put` | `SourceStore`, `VersionWindow` |
| Check runner (`checker/runner.py`) | none | `check_plugin`, `run_dumper_check`: plugin run to `CheckResult` | `CheckRunner` |
| Check service (`service.py`) | thread pool with its queue, futures, catalog | `run_due_checks`, `refresh_all`, `check_source`, `sync_and_discover`, `close` | `CheckService`, `SweepContract`, `CatalogSync` |
| Scheduler and lifespan (`scheduler.py`, `main.py`) | an APScheduler job, a start-up thread | tick, start-up sweep, shutdown | `CheckService`, `Scheduling` |
| Schedule arithmetic (`scheduling.py`) | none | `next_check_at`, `is_due` | `Scheduling` |
| Plugin loader (`checker/loader.py`) | process-wide `sys.path` and `sys.modules` under `_load_lock` | load a manifest, file or package plugin; undo the traces | `PluginLoader` |
| Repository sync, discovery (`plugins/`) | clones and submodules on disk | clone, fetch, reset, submodule update, discover | `CatalogSync` |
| Configuration (`config.py`) | settings, repository list | `resolved_repos` | `CatalogSync` |
| HTTP API (`api/`) | none | status reads; check, refresh and sync requests | callers in `CheckService` |
| Command line (`cli.py`), `scripts/install_plugin_requires.py` | none | sync, list, check in a process of their own | `Tool` in `CatalogSync`, recorders in `SourceStore` |
| SDK bootstrap, dashboard, plugin requirements | | | not modelled, section 7 |

How they interact. The scheduler's job, the start-up thread and API request
threads call the service. The service submits one `check_plugin` per source to a
shared pool, then awaits the futures **in key order**, with a timeout each, and
records each answer in the store. A pool worker loads the plugin under one
process-wide lock, then runs its check without the lock. A sync rewrites clones
on disk, discovers plugins in them and replaces the catalog by one assignment; a
sweep goes on with the catalog it took. Command-line syncs share the clones with
the service.
The store is shared by all callers, and with DynamoDB possibly by several
processes.

What is hard to test, and what makes each part correct:

* **Store.** `record_check` is a read-modify-write without a lock, stamps `now`
  before reading, and may record a result long after the check looked upstream.
  A row should never be a mixture of two checks; one recorder at a time, it
  should be the two-place window of what was detected, errors should change
  nothing known, and times should be in order.
* **Service.** Timed-out checks go on running; their worker is lost while they
  do. A raising check or store ends a sweep half-way; `close` cancels queued
  futures that sweeps await. No caller may wait for a future nobody will
  complete, every sweep must end, no plugin may starve another's check.
* **Loader.** Loads of repositories with equal package names share
  `sys.modules`; checks import beside them. A submodule is looked for in the package that
  is cached, whosever it is. A load must leave neither path entries nor modules and
  use none of another repository.
* **Sync.** Two syncs may overlap; git can fail or be killed at every step. A
  failure must stay with its repository, a complete clone must stay one, a lone
  sync must yield what upstream has.
* **Schedule.** Ticks are skipped while a sweep runs; a source must be checked
  soon after it comes due, and as often as its interval says.

`PROJECT.json` lists the hazards line by line with the properties that cover
each.

## 2. Plan

Order: (1) `CheckRunner`, `SourceStore` and the abstract `VersionWindow`: what a
user sees; (2) `CheckService` and the abstract `SweepContract`: who calls it
when; (3) `PluginLoader`, (4) `CatalogSync`, (5) `Scheduling`; then the proofs of
each. All are written. `SourceStore` extends `CheckRunner` (the outcomes it
records are the runner's) and is shown to implement `VersionWindow`;
`CheckService` is shown to implement `SweepContract`. `CheckService` and
`PluginLoader` are both shown to implement `LoadPhases`, and both extend
`Enumeration`. Three more abstractions tie the
modules together: `CheckService` treats a record as one step, which `SourceStore`
takes apart, and a sync as one step, which `CatalogSync` takes apart;
`Scheduling` has the times that `CheckService` leaves out. The first two meet in
the assumption "one recorder per source at a time" under which the store's
stronger properties hold.

What could still be added: checks that load from a tree while it is reset
(`PluginLoader` over `CatalogSync`), and the dashboard's overlapping loads.

## 3. Modules

**CheckRunner** (constant-level). `PluginRun` is the set of things plugin code
can do (fail to load, raise in `create_todump_list`, leave a release or not,
...); `CheckPlugin` maps each to the `CheckResult` of `runner.py`. Versions and
schedules are opaque values. `TimedOut` is the result `_check_refs` makes up.

**SourceStore.** `rows` is the table (`Absent` and `Unreadable` rows included);
`pc`/`job` are the recorders, that is all threads and processes that call
`record_check`. `Check` draws the result of a check of the *present* upstream,
`Stamp` takes `now`, `Get` reads, `Put` merges and writes, so every interleaving
of `base.py:104-131` is there. `Abandon` is a store error, `Restart` kills all
recorders. `Publish` and `Tick` are upstream and wall clock. Time 0 stands for
no timestamp; `sightings` is history. `Spec` lets recorders race; `SerialSpec`
adds the discipline of README.md:86-88 (one sweep at a time): a source is with
at most one recorder from its check to its put.

**VersionWindow** is the abstract specification: a window of two versions with
their times that is left alone, filled or rotated.

**CheckService.** `catalog` is `service._catalog`; a sync (`InitialSync`,
`AdminSync`) replaces it by any of `Catalogs`. A sweep (`Tick`, `InitialSweep`)
takes it and reads in `scan`, row by row, which sources are due (`ReadDue`), while
others record and sync; then it submits them all (`SubmitDue`). `todo`/`got`/
`future` are a caller's loop in `_check_refs`: sources left, the answer in hand,
the futures. `queue`/`worker` are the pool; a task's `phase` shows whether it waits
for `_load_lock`, holds it, or runs (`SetUpRaises`: it never gets to the lock, as its scratch
directory cannot be made). `TimeOut` detaches a task without stopping it;
`Abort` is an exception leaving the loop; `SubmitRaises` is a pool that is shut
down; `Close`, `Exit` and `Crash` are shutdown and kill. `due` abstracts the rows
to what `is_due` says of them. (A command-line check in another process, which
also makes a source not due, is a recorder of `SourceStore` and not in this
module.)

**SweepContract** is the abstract specification: sets of sources asked for,
answered one by one in key order, given up or forgotten; only an answer makes a
source not due. `asked` is mapped to `todo`.

**LoadPhases** is the abstract specification of what a check is to the workers:
each goes from idle to waiting for `_load_lock` (or drops the check there), to
loading (alone), to running its check beside the others, and back. `CheckService` has one step for a load and
`PluginLoader` one for every change of `sys.path` and `sys.modules`; that both
implement `LoadPhases` is why the first may treat a load as it does. Each module's
`Phase(w)` is the refinement mapping.

**Enumeration** (constant-level) has the increasing order in which a sweep submits
its sources and a load works through positions of `sys.path`.

**PluginLoader.** `path` and `modules` are the part of `sys.path` and
`sys.modules` that belongs to repositories, `load` the locals of a load (the
names cached before it, the directories it added, what it tries next). An import
has two steps, find and insert, under CPython's per-name import lock. `Search(n)`
is where a name is looked for: a top-level name along `sys.path`, a submodule
where its cached package lies (its `__path__`), even if that is another
repository. `MembersAt` picks the entries of a list at some positions: what a load
adds to `sys.path`, and what is left when it takes them off again. Loads run under
`lock`: `Enter`, then for each of `Attempts` `Try`, imports, `ImportFails` or
`TryEnds`, then `Settle`, `Restore`, `Purge` and `Leave`, where a manifest's dumper
is instantiated, after the purge. `LazyFind`/`LazyInsert` are imports a check makes
without the lock. `late` (brought in by such an import, or found through a package
that was) and `seen` (what a load has used) are history.

**CatalogSync.** `checkout`, `locks`, `at`, `files` and `origin` are the clones on
disk: whether there is a `.git` directory and of a complete clone, the lock files
killed gits left, the commit of the index, the work tree with its submodules, and
`origin/<target>`. `head` is upstream, `catalog` the service's, `sync` the locals
of a syncer. Each git command has a start and an end; in between, and
in what a failed or killed one leaves, the tree is any `Mixture` of the old and
the new. As in `sync.py:24`, whatever has a `.git` directory is fetched and reset,
also a partial clone. `Keyed` is the catalog dict, in which a later ref of the same
key replaces an earlier one. A `Tool` is a syncer in a process of its own
(`cli.py`, `install_plugin_requires.py`): it shares the clones, not the catalog,
and is killed by itself.

**Scheduling.** One source, the job's next tick, the sweep under way; an action
takes no time and `Pass` lets a unit go by. A cron schedule is represented by
its period.

`*Proofs` hold theorems, `MC*` the instances. In each module an operator whose
comment begins with "Slip:" is a plausible coding error; a run fails
when it replaces the definition below it.

## 4. Runs

| run | instance | shows |
|---|---|---|
| `store_race` | 1 source, 2 recorders, 2 versions, clock to 2 | `TypeOK`, `Provenance`: racing, dying recorders never mix fields of two checks |
| `store_serial` | the same, 1 schedule, clock to 3, serial | window refinement (`WindowSpec`), `MostRecent`, `FirstSeenSinceChange`, `TimesOrdered`, `CheckedAtAdvances`, `ErrorKeepsKnown` |
| `store_clobber` | 2 racing recorders | violates `ErrorKeepsKnown` (finding 1) |
| `service_pool` | 2 sources, 2 catalogs, 1 worker, scheduler + start-up + 1 request thread, one plugin that hangs when imported, one that raises, store failures, shutdown and kills that eventually stop | `TypeOK`, `NoLostCheck`; `ContractSpec`; `SweepsEnd`, with every fault at once |
| `service_live` | 2 sources, 2 catalogs, 2 workers, scheduler + 1 request thread (`sync_on_startup` off), no raising or hanging plugin and no failing store, shutdown and kills that eventually stop | `SweepsEnd` under an unfair load lock, `ShutdownEnds`, `DueGetsRecorded`, `DroppedIsLeftAlone`; `ClosingStartsNothing` (from shutdown on nothing is submitted or begun); `PhasesSpec` (implements `LoadPhases`) |
| `service_importlock` | a plugin hangs at import | violates `Isolation` (finding 2) |
| `service_poison` | a check raises | violates `DueGetsRecorded` (finding 3) |
| `loader_loads` | 3 workers, 3 plugins (two advanced, one manifest) of 2 repositories that share a package `hub`, its submodule and a unique name, one path a prefix of the other | `TypeOK`, `PathIsLoaders`, `NoResidue`, `ForeignOnlyByCheck`; `PhasesSpec` (implements `LoadPhases`) |
| `loader_leak` | the same | violates `LoadsIsolated` (finding 4) |
| `catalog_overlap` | 2 syncers, one of them a command-line tool, 2 enabled and 1 disabled repositories, 3 commits | `TypeOK`, `FailureStaysLocal`, `FreshWhenAlone`, `WholeStaysWhole` |
| `schedule_due` | interval 4, tick 2, sweeps to 3, cron 3 and 6, time to 30 | `TypeOK`, `DueIsChecked`, `NotEarly`, `RateBounded`: checked neither late nor early, at a rate whose bounds are what delays add up to |
| `schedule_cadence` | interval 4, tick 2, sweeps to 1, time to 40 | violates `KeepsCadence` (finding 5) |

Why the bounds are enough. *Store*: a lost update needs two recorders, an old
detection recorded late needs two versions and two moments; sources do not
interact, and the theorems hold for any number of sources, recorders, versions
and any clock bound. *Service*: two sources give an order to await in and a
healthy bystander; of the two catalogs one lacks a source, so that syncs drop it and
bring it back under running sweeps. In `service_pool` the one worker can be lost
to the plugin that hangs, which dooms every later check, and nobody may wait for
ever on that account; in `service_live` two workers contend for the load lock. The
theorems have any number of both. `MaxQueue` stops requests from filling the queue
and the scheduler from submitting to a longer one, not how often anything happens.
`service_live` leaves the start-up thread out for its size: its sweep is the
scheduler's code, and `service_pool` and the theorems have it. The plugin that
hangs does so while it holds the load lock, the worse place; one that hangs past
the lock (`HangRun`) costs a worker only, and the theorems have it too.
*Loader*: three workers are the least for two loads and a check
in the middle of an import; `hub` with its submodule is the least for a foreign
package to lead a load to more of it. *Catalog*: the second commit of one repository
turns a plugin's kind, adds one in a submodule and has two plugins of one name, so
that every rule of discovery has a case; the other repository, of one commit
without plugins, is there for a failure to affect. *Schedule*: `MaxSweep` exceeds the tick, so ticks are
skipped, and the horizon covers several intervals; `DueIsChecked` is proved
without it.

**Fairness.** Only `service_pool`, `service_live` and `service_poison` need it
(`FairSpec`): a pool
thread that can go on does (`Work`), and so does the thread of each caller
(`Advance`: a sweep reads on, `future.result(timeout)` returns or expires, an answer
is recorded or fails to be, the scheduler ticks); an interpreter whose threads have
ended exits. All of it is weak fairness;
in particular the load lock is not fair, so a worker may be passed there by others
for ever, and `DroppedIsLeftAlone` speaks of awaited and queued checks only.
Nothing is asked of requests, syncs, crashes, or a plugin that hangs. `SettledSpec`
adds that stops and kills eventually cease, since a process killed before each
record records nothing. That every sweep ends (`SweepsEnd`) holds whatever plugins and the
store do: `service_pool` checks it with a hanging and a raising plugin and a failing
store. That due sources are recorded does not (finding 3), so `service_live` has
none of these. The safety part of what callers are promised (`ContractSpec`) holds
with them too: `service_pool` checks it and it is proved. The liveness properties are written `[]<>P`, which says the same as
`~P ~> P` and is cheaper to check.

## 5. Findings

1. **An error record can undo a version** (`store/base.py:105`). Of two
   overlapping records of a source, one failed check and one success, the failed
   one may write back the row it read before. Tests and comments promise "not
   clobbered on error".
2. **One hanging import stops all loads** (`checker/loader.py:394`): plugin code
   runs while `_load_lock` is held, so every other source is recorded as timed out
   until the process ends.
3. **One raising check ends every sweep** (`service.py:84`). `check_plugin`
   "never raises", but `BaseException`s and errors around its temporary
   directory pass; the sources that sort after it are then never recorded.
4. **A module can outlive the purge** (`checker/loader.py:78`): an unlocked import
   found along another load's `sys.path` may be inserted after that load's purge
   and is used by later loads of other repositories. Section 6 proves the limits of
   it: only names below a top-level package that some check imports are at risk (the
   foreign package's `__path__` leads to its submodules), and none is with a pool of
   one worker (`PULSE_MAX_CHECK_WORKERS=1`).
5. **A daily source is checked every 25 hours** (`scheduling.py:53`): `checked_at`
   lies after the tick that started the check, so the tick a day later finds it
   not yet due; the delay repeats at each check. What does hold is `RateBounded`:
   after n checks a source is late by at most n times the delay of one.

Things the models make visible that are not findings: an `unsupported` result
wipes the stored schedule even if the plugin never loaded (`base.py:116`), though
the comment above it speaks of trusting loaded plugins; overlapping
due-sweeps check a source twice; checking a hanging plugin again and again
loses all workers, and keeps the process from exiting; a clone
killed half-way may keep its `.git`, and a later sync then fetches and resets it,
which may complete it or fail; a lock file that a killed git leaves
(`.git/shallow.lock`, `.git/index.lock`) makes every later fetch or reset of that
repository fail until someone removes it; a
repository that fails to sync vanishes from the catalog until it syncs again;
overlapping syncs may discover a half-reset tree or bring back an older catalog;
a source that returns to an earlier release gets a new `current_version_at`;
`sys_path` entries are on `sys.path` during the load only, not "while checking"
(README.md:243).

## 6. Proofs

TLAPS checks every theorem for all values of the constants, from the `ASSUME`s of
the modules, which say no more than that distinguished values differ and that
periods are positive.

* **SourceStoreProofs**, for `Spec` (any number of racing recorders).
  `TypeCorrect`: `[]TypeOK`, inductive by itself. `ProvenanceHolds`:
  `[]Provenance`. `Provenance` is not inductive, because what a recorder has read
  is written later; `ProvInv` adds `HeldGenuine`, that the row in a recorder's
  hands is genuine too. It is preserved since sightings only grow (`GenuineGrows`)
  and merging a genuine row with a result yields one (`MergeGenuine`).
  `SameAnswerTwice` is about `Merge` alone, for any row: when sweeps overlap and a
  source is recorded twice with one version, the second record does not rotate the
  window or touch its times.
* **SerialStoreProofs**, for `SerialSpec`. `SerialInv` adds what exclusivity
  buys: what a recorder has read is still in the store (`HeldFresh`), its stamp is
  not before the row's times (`StampFresh`), and no stored detection looked
  upstream later than the one in its hands (`DetectionsBehind`). From it
  follow `MostRecentHolds`, `TimesOrderedHolds`, `CheckedAtAdvancesHolds`,
  `ErrorKeepsKnownHolds` and `ImplementsWindow`: initial rows map to the empty
  window and every step to a window step or a stutter. `FirstSeenSinceChangeHolds`
  needs `SinceIsCurrent` besides: detections after `current_version_at` are all of
  the current version, so the one a rotation replaces is later than every
  detection of the new one.
* **CheckServiceProofs**, for any number of workers, callers and sources and any
  set of hanging or poisonous plugins. `TypeCorrect` and `NoLostCheckHolds`. Its inductive invariant `LostInv` adds `HeldAnswer`: the answer in a caller's hands
  is that of its first future, finished or let go. Without it `Record` could
  forget a future whose task is still on a worker. One lemma per action follows
  the carriers of a future: `DetachCarriers` for timeouts and exceptions,
  `SubmitLost` for the new end of the queue, `TakeLost` for the shift when its head
  leaves, `CloseLost` for what shutdown drops. `ImplementsContract`: initial states
  map to initial states, and `ContractStep` takes each action to a step of
  `SweepContract` or a stutter: `EnqueueAsks`, `RecordIsAnswer` (the recorded source
  is the least one asked for, by `FirstIsFirst`), `AbortGivesUp`, `BootRestarts`.
  `ClosingStartsNothingHolds` needs the invariant `ClosedQueue` (a closing service has
  an empty queue: `close` empties it and the pool takes nothing more until the next
  boot); without it a worker could begin a check that was queued. `ImplementsPhases`:
  under `TypeOK` each action is a step of `LoadPhases` or a stutter; a caller that
  detaches its task changes no phase.
* **PluginLoaderProofs**, for any plugins, directories and workers. The inductive
  invariant `IInv` has `TypeOK`; `LockInv` (only the holder of `_load_lock` is inside
  a load); `PathInv` (`sys.path` has only what the holder of the lock added, until it
  restores it); `FindInv` (an import under way is of a name that nobody else imports
  and nobody has cached; it is late, or a load's and finds its own repository's);
  `ModuleInv` (a cached module is late and lies below a package that some check
  imports, `LateInv`, or it is new since the load that holds the lock began and of its
  repository, `FreshModule`, so that its purge gets it; what was cached before that
  load is late); `AttemptInv`; `SeenInv` (a module of another repository that a load
  uses is late and below a package that some check imports). That a submodule is found
  where its cached package lies keeps this: below a late package it is late, below a
  fresh one it is of the load's repository. `PathIsLoadersHolds`, `NoResidueHolds` and
  `ForeignOnlyByCheckHolds` follow. `IsolatedWithOneWorker` is the counterpart of
  finding 4: `LoadsIsolated` is violated as it stands, and holds with one worker,
  whatever names repositories share, because `sys.path` and the repositories' modules
  are empty while a check of the only worker runs (`NothingLate`). The size of the pool
  is a setting (8 by default), so this is a hypothesis of the theorem and not an
  `ASSUME` of the module. `ImplementsPhases` needs `TypeOK` and `LockInv`.
* **CatalogSyncProofs**, for any repositories, commits and syncers. `TypeCorrect`;
  `DiscoverPerName`: of any set of directories `DiscoverPlugins` yields exactly one for
  every name that occurs, a manifest one if there is one, and of one kind the first
  (the least exists, by the library's well-foundedness of `<`), so that
  the keyed catalog loses none of them; `FailureStaysLocalHolds`, whose `LocalInv` says that each repository a sync has
  passed is among its paths or its failures; `WholeStaysWholeHolds`,
  action by action (`SyncRepoSpoils`; `KillEffect` says which clones a kill can change:
  those at which a killed git was); and `FreshWhenAloneHolds`, whose `FreshInv` says that beside an undisturbed sync no
  other runs, and that what it has fetched, and the tree of each repository among its
  paths, submodules apart, are those of a commit that upstream has had since it
  began.
* **SchedulingProofs.** `TypeCorrect` and `DueIsCheckedHolds`. The inductive
  invariant `SInv` is `TypeOK` with `TickNear`: an overdue source either is in the
  running sweep, or the next tick, or the one after the running sweep, is near
  enough. `RecordedIsLater` says that a recorded check is due strictly later.
  `NotEarlyHolds` and `RateBoundedHolds` need `RateInv` besides: `DueOrForced` (the
  source a running sweep will record was due when it began, or has been recorded
  since) and `StreakRate`, the two bounds of `RateBounded` as they stand when a check
  is recorded. The upper one is kept since a check is recorded before the source is
  overdue by more than `Lateness`; the lower one since it was due, except for the one
  check that was under way when a request began the streak.

Only model-checked: liveness (`SweepsEnd`, `ShutdownEnds`, `DueGetsRecorded`,
`DroppedIsLeftAlone`), which is out of the prover's reach, and the five
counterexamples of section 5.

## 7. Assumptions and what is left out

* The wall clock does not run backwards. Ticks are punctual in `Scheduling`, its
  sweeps last at most `MaxSweep`, and a sweep that finds the source due records it.
* In `CheckService` a sync is one step and so are a caller's submits of one sweep;
  `Catalogs` bounds what a sync may find.
* `PluginLoader` knows modules of repositories only, not the SDK or third-party
  packages nor the class a manifest may name from them, and takes a module body to
  run or raise as a whole. Packages have one directory; what is in a namespace
  package, whose `__path__` follows `sys.path`, is like a top-level name. A load adds
  its directories in one step and removes them in one.
* `CatalogSync` allows any git command to fail at any time, which covers gits that
  meet at a lock; a lock file that a living git holds is not state of its own.
* The store's properties of `SerialSpec`, `FreshWhenAlone` of `CatalogSync` and
  `DueIsChecked` of `Scheduling` hold under the stated discipline (one recorder, no
  overlapping sync, punctual ticks). What overlaps do beyond it is in the models;
  `Provenance`, `WholeStaysWhole` and finding 1 speak of it.
* Not modelled: `bootstrap.py` and `hub_config.py` (called before there are threads,
  then only under the load lock); `plugins/requirements.py` (a pure collection of
  text lines for the image build); the dashboard (it sends requests that
  `CheckService` has and shows the answers; a late answer can hide a newer one until
  the next reload); the growth of the pool's queue when every worker hangs, which
  `MaxQueue` cuts off; `install_plugin_requires.py --no-sync`, which discovers
  without a sync, and the installation of packages; authentication, response shapes,
  read-only listings, arguments and output of the command line; deployment scripts,
  which appear as the process being stopped or killed.
