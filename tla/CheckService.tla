---------------------------- MODULE CheckService ----------------------------
(***************************************************************************)
(* The check service (service.py) with its thread pool, the load lock of   *)
(* checker/loader.py, and the threads that call it: the scheduler's job    *)
(* (scheduler.py), the start-up thread (main.py) and API requests          *)
(* (api/routes.py).                                                        *)
(*                                                                         *)
(* A sweep takes the catalog, reads from the store which of its sources    *)
(* are due, one after the other, and submits one check for each of them to *)
(* the pool.  It then awaits the futures in key order, giving up on each   *)
(* after check_timeout.  Giving up does not stop the check: the task stays *)
(* in the queue or on its worker, only nobody waits for it any more (owner *)
(* None).                                                                  *)
(*                                                                         *)
(* Abstracted: what a check finds (SourceStore has that; here a check      *)
(* either yields a result or raises), how a sync builds the catalog        *)
(* (CatalogSync; here one step), the interleaving of one caller's own      *)
(* submits (one step), and the steps inside record_check (SourceStore;     *)
(* here one step).                                                         *)
(***************************************************************************)
EXTENDS Naturals, Sequences, FiniteSets, Enumeration

CONSTANTS
  Source,      \* sources, numbered in the order of their keys
  Catalogs,    \* the catalogs a sync may end with
  Worker,      \* the threads of the pool (max_check_workers)
  Scheduler,   \* the scheduler's job (max_instances=1: one thread)
  Startup,     \* the thread that runs _initial_sync
  Api,         \* request threads
  SyncOnStartup, \* settings.sync_on_startup: whether that thread is started
  None,
  HangLoad,    \* sources whose plugin never returns from being imported
  HangRun,     \* sources whose check, once loaded, never returns
  Poison,      \* sources whose check may raise out of check_plugin
  StoreFails,  \* whether the store may raise
  MaxQueue,    \* bound: requests fill the queue up to this length, the
               \* scheduler submits while it is no longer than that
  Stops        \* whether the process is ever shut down or killed

\* The callers of run_due_checks, and all that submit checks.
Sweeper == {Scheduler, Startup}
Caller  == Sweeper \cup Api

ASSUME SourceAssumption == Source \subseteq Nat /\ IsFiniteSet(Source)
ASSUME CatalogAssumption == Catalogs \subseteq SUBSET Source
ASSUME PluginAssumption == HangLoad \cup HangRun \cup Poison \subseteq Source
ASSUME CallerAssumption ==
  /\ Scheduler # Startup /\ {Scheduler, Startup} \cap Api = {}
  /\ None \notin Caller
ASSUME BoundAssumption == MaxQueue \in Nat /\ {SyncOnStartup, StoreFails, Stops} \subseteq BOOLEAN

VARIABLES
  up,       \* the service is open, or close() has been called
  initial,  \* _initial_sync is before or after its sync, or past both
  catalog,  \* the sources of service._catalog
  scan,     \* sweeper -> the due list it is making
  todo,     \* caller -> sources it has yet to record
  got,      \* caller -> result it holds for the first of them
  future,   \* caller -> source -> state of the future it submitted
  queue,    \* the pool's work queue
  worker,   \* worker -> task it is on, None when idle
  due       \* sources for which is_due holds of the stored row

pool    == <<todo, got, future, queue, worker>>
process == <<initial, catalog, scan, pool>>
vars    == <<up, process, due>>

\* A submitted check_plugin call.  phase: in the queue; on a worker, before
\* _load_lock; holding it inside load_dumper; past it in run_dumper_check.
Task(phases) == [source : Source, owner : Caller \cup {None}, phase : phases]

Queued  == Task({"queued"})
Started == Task({"waiting", "loading", "running"})

\* The list comprehension of run_due_checks: the sources whose row it has yet
\* to read, and those it found due.
Scan == [unread : SUBSET Source, due : SUBSET Source]

ASSUME NoneAssumption == None \notin Started /\ None \notin Scan

\* for ref in refs: refs come sorted by key, so the next one is the smallest.
First(S) == CHOOSE s \in S : \A t \in S : s <= t

NoFutures == [s \in Source |-> "none"]

AtStart    == IF SyncOnStartup THEN "syncing" ELSE "done"
NoScan     == [c \in Sweeper |-> None]
NoTodo     == [c \in Caller |-> {}]
NothingGot == [c \in Caller |-> "nothing"]
NoFuture   == [c \in Caller |-> NoFutures]
IdlePool   == [w \in Worker |-> None]

Init ==
  /\ up = "up"
  /\ initial = AtStart
  /\ catalog = {}
  /\ scan = NoScan
  /\ todo = NoTodo
  /\ got = NothingGot
  /\ future = NoFuture
  /\ queue = <<>>
  /\ worker = IdlePool
  /\ due \in SUBSET Source

-----------------------------------------------------------------------------
(***************************************************************************)
(* The catalog: sync_and_discover.                                         *)
(***************************************************************************)
\* self._catalog = catalog
NewCatalog == catalog' \in Catalogs

\* _initial_sync
InitialSync ==
  /\ initial = "syncing"
  /\ NewCatalog
  /\ initial' = "synced"
  /\ UNCHANGED <<up, scan, pool, due>>

\* It raises: there will be no sweep at start-up.
InitialSyncFails ==
  /\ initial = "syncing"
  /\ initial' = "done"
  /\ UNCHANGED <<up, catalog, scan, pool, due>>

\* POST /admin/sync
AdminSync(c) ==
  /\ c \in Api
  /\ up = "up" /\ todo[c] = {}
  /\ NewCatalog
  /\ UNCHANGED <<up, initial, scan, pool, due>>

-----------------------------------------------------------------------------
(***************************************************************************)
(* What is due: run_due_checks, first half.                                *)
(***************************************************************************)
Swept == [unread |-> catalog, due |-> {}]

\* RefreshScheduler._run; one tick at a time (max_instances=1).
Tick ==
  /\ up = "up"
  /\ scan[Scheduler] = None /\ todo[Scheduler] = {}
  /\ scan' = [scan EXCEPT ![Scheduler] = Swept]
  /\ UNCHANGED <<up, initial, catalog, pool, due>>

\* _initial_sync, past its sync.
InitialSweep ==
  /\ initial = "synced"
  /\ initial' = "done"
  /\ scan' = [scan EXCEPT ![Startup] = Swept]
  /\ UNCHANGED <<up, catalog, pool, due>>

\* _is_due reads the stored row.
ReadDue(c) ==
  /\ scan[c] # None /\ scan[c].unread # {}
  /\ LET s == First(scan[c].unread) IN
     scan' = [scan EXCEPT ![c] = [unread |-> scan[c].unread \ {s},
                                  due    |-> scan[c].due \cup ({s} \cap due)]]
  /\ UNCHANGED <<up, initial, catalog, pool, due>>

\* The store raises, which ends the sweep.
ReadFails(c) ==
  /\ StoreFails
  /\ scan[c] # None /\ scan[c].unread # {}
  /\ scan' = [scan EXCEPT ![c] = None]
  /\ UNCHANGED <<up, initial, catalog, pool, due>>

Scanned(c) == scan[c] # None /\ scan[c].unread = {}

NothingDue(c) ==
  /\ Scanned(c) /\ scan[c].due = {}
  /\ scan' = [scan EXCEPT ![c] = None]
  /\ UNCHANGED <<up, initial, catalog, pool, due>>

-----------------------------------------------------------------------------
(***************************************************************************)
(* Submitting: run_due_checks, second half, refresh_all, check_source.     *)
(***************************************************************************)
\* c becomes the owner of one new task for each of refs.
Enqueue(c, refs) ==
  /\ todo[c] = {}
  /\ todo' = [todo EXCEPT ![c] = refs]
  /\ future' = [future EXCEPT ![c] = [s \in Source |-> IF s \in refs THEN "pending" ELSE "none"]]
  /\ \E order \in Increasing(refs) :
       queue' = queue \o [i \in DOMAIN order |->
                            [source |-> order[i], owner |-> c, phase |-> "queued"]]
  /\ UNCHANGED <<up, initial, catalog, got, worker, due>>

\* Slip: checks are still submitted while the service closes.
SubmitLate(c, refs) == Enqueue(c, refs)

\* A pool that is shut down takes no more tasks.
Submit(c, refs) == up = "up" /\ Enqueue(c, refs)

SubmitDue(c) ==
  /\ Scanned(c) /\ scan[c].due # {}
  /\ c = Scheduler => Len(queue) <= MaxQueue
  /\ Submit(c, scan[c].due)
  /\ scan' = [scan EXCEPT ![c] = None]

\* RuntimeError: cannot schedule new futures after shutdown.
SubmitRaises(c) ==
  /\ Scanned(c) /\ scan[c].due # {}
  /\ up = "closing"
  /\ scan' = [scan EXCEPT ![c] = None]
  /\ UNCHANGED <<up, initial, catalog, pool, due>>

\* POST /admin/refresh
RefreshAll(c) ==
  /\ c \in Api
  /\ Len(queue) + Cardinality(catalog) <= MaxQueue
  /\ Submit(c, catalog)
  /\ UNCHANGED scan

\* Slip: sources the catalog no longer has are checked too.
CheckAnySource(c, s) ==
  /\ c \in Api
  /\ Len(queue) < MaxQueue
  /\ Submit(c, {s})
  /\ UNCHANGED scan

\* POST /sources/{repo}/{plugin}/check; 404 for what the catalog does not have.
CheckSource(c, s) ==
  /\ c \in Api
  /\ s \in catalog
  /\ Len(queue) < MaxQueue
  /\ Submit(c, {s})
  /\ UNCHANGED scan

-----------------------------------------------------------------------------
(***************************************************************************)
(* The pool: check_plugin on a worker thread.                              *)
(***************************************************************************)
OnWorker(w, phase) == worker[w] # None /\ worker[w].phase = phase

LoadLockFree == \A w \in Worker : ~OnWorker(w, "loading")

Take(w) ==
  /\ worker[w] = None
  /\ queue # <<>>
  /\ worker' = [worker EXCEPT ![w] = [Head(queue) EXCEPT !.phase = "waiting"]]
  /\ queue' = Tail(queue)
  /\ UNCHANGED <<up, initial, catalog, scan, todo, got, future, due>>

\* Slip: loading without the lock.
LoadUnlocked(w) ==
  /\ OnWorker(w, "waiting")
  /\ worker' = [worker EXCEPT ![w].phase = "loading"]
  /\ UNCHANGED <<up, initial, catalog, scan, todo, got, future, queue, due>>

\* with _load_lock:
AcquireLoad(w) ==
  /\ OnWorker(w, "waiting")
  /\ LoadLockFree
  /\ worker' = [worker EXCEPT ![w].phase = "loading"]
  /\ UNCHANGED <<up, initial, catalog, scan, todo, got, future, queue, due>>

\* load_dumper returns, which releases the lock.
Loaded(w) ==
  /\ OnWorker(w, "loading")
  /\ worker[w].source \notin HangLoad
  /\ worker' = [worker EXCEPT ![w].phase = "running"]
  /\ UNCHANGED <<up, initial, catalog, scan, todo, got, future, queue, due>>

\* check_plugin ends; its future gets a result ("finished") or an exception.
Finish(w, outcome) ==
  LET task == worker[w] IN
  /\ outcome = "raised" => task.source \in Poison
  /\ worker' = [worker EXCEPT ![w] = None]
  /\ future' = IF task.owner = None THEN future
               ELSE [future EXCEPT ![task.owner][task.source] = outcome]
  /\ UNCHANGED <<up, initial, catalog, scan, todo, got, queue, due>>

\* The scratch directory cannot be made: check_plugin raises before it loads.
SetUpRaises(w) == OnWorker(w, "waiting") /\ Finish(w, "raised")

\* UnsupportedPlugin, LoaderError, or anything else raised while loading.
LoadFails(w) ==
  /\ OnWorker(w, "loading")
  /\ worker[w].source \notin HangLoad
  /\ \E outcome \in {"finished", "raised"} : Finish(w, outcome)

RunEnds(w) ==
  /\ OnWorker(w, "running")
  /\ worker[w].source \notin HangRun
  /\ \E outcome \in {"finished", "raised"} : Finish(w, outcome)

-----------------------------------------------------------------------------
(***************************************************************************)
(* Awaiting and recording: the loop of _check_refs, and check_source.      *)
(***************************************************************************)
\* Nobody awaits c's futures for S any more; the tasks themselves go on.
Detach(c, S) ==
  LET detached(t) == IF t.owner = c /\ t.source \in S THEN [t EXCEPT !.owner = None] ELSE t IN
  /\ queue' = [i \in DOMAIN queue |-> detached(queue[i])]
  /\ worker' = [w \in Worker |-> IF worker[w] = None THEN None ELSE detached(worker[w])]

Awaiting(c) == todo[c] # {} /\ got[c] = "nothing"

Awaited(c) == future[c][First(todo[c])]

\* future.result() returns.
Await(c) ==
  /\ Awaiting(c)
  /\ Awaited(c) = "finished"
  /\ got' = [got EXCEPT ![c] = "result"]
  /\ UNCHANGED <<up, initial, catalog, scan, todo, future, queue, worker, due>>

\* except FutureTimeout: the future is not cancelled.
TimeOut(c) ==
  /\ Awaiting(c)
  /\ Awaited(c) = "pending"
  /\ got' = [got EXCEPT ![c] = "timeout"]
  /\ future' = [future EXCEPT ![c][First(todo[c])] = "none"]
  /\ Detach(c, {First(todo[c])})
  /\ UNCHANGED <<up, initial, catalog, scan, todo, due>>

\* Slip: the answer in hand survives the exception.
AbortHolding(c) ==
  /\ todo' = [todo EXCEPT ![c] = {}]
  /\ future' = [future EXCEPT ![c] = NoFutures]
  /\ Detach(c, Source)
  /\ UNCHANGED <<up, initial, catalog, scan, got, due>>

\* An exception leaves the loop: the rest of the sweep is neither awaited nor
\* recorded.
Abort(c) ==
  /\ todo' = [todo EXCEPT ![c] = {}]
  /\ got' = [got EXCEPT ![c] = "nothing"]
  /\ future' = [future EXCEPT ![c] = NoFutures]
  /\ Detach(c, Source)
  /\ UNCHANGED <<up, initial, catalog, scan, due>>

\* Slip: a cancelled future is not noticed.
AwaitRaisesOwn(c) == Awaiting(c) /\ Awaited(c) = "raised" /\ Abort(c)

\* future.result() raises what check_plugin raised, or CancelledError.
AwaitRaises(c) ==
  /\ Awaiting(c)
  /\ Awaited(c) \in {"raised", "cancelled"}
  /\ Abort(c)

\* Slip: only a check that answered counts as an attempt.
RecordAnswers(c) ==
  LET s == First(todo[c]) IN
  /\ got[c] # "nothing"
  /\ due' = IF got[c] = "result" THEN due \ {s} ELSE due
  /\ todo' = [todo EXCEPT ![c] = @ \ {s}]
  /\ got' = [got EXCEPT ![c] = "nothing"]
  /\ future' = [future EXCEPT ![c][s] = "none"]
  /\ UNCHANGED <<up, initial, catalog, scan, queue, worker>>

\* _record: any recorded attempt sets checked_at, so the source is not due.
Record(c) ==
  LET s == First(todo[c]) IN
  /\ got[c] # "nothing"
  /\ due' = due \ {s}
  /\ todo' = [todo EXCEPT ![c] = @ \ {s}]
  /\ got' = [got EXCEPT ![c] = "nothing"]
  /\ future' = [future EXCEPT ![c][s] = "none"]
  /\ UNCHANGED <<up, initial, catalog, scan, queue, worker>>

\* The store raises.
RecordFails(c) == StoreFails /\ got[c] # "nothing" /\ Abort(c)

-----------------------------------------------------------------------------
(***************************************************************************)
(* Time, shutdown and crashes.                                             *)
(***************************************************************************)
\* The schedule of a source comes round.
Elapse(s) ==
  /\ s \notin due
  /\ due' = due \cup {s}
  /\ UNCHANGED <<up, process>>

\* Slip: the queue is dropped without cancelling its futures.
CloseSilently ==
  /\ Stops
  /\ up = "up"
  /\ \A c \in Api : todo[c] = {}
  /\ up' = "closing"
  /\ queue' = <<>>
  /\ UNCHANGED <<initial, catalog, scan, todo, got, future, worker, due>>

\* The end of lifespan: requests are over, the scheduler stops ticking, and
\* shutdown(wait=False, cancel_futures=True) cancels what is still queued.
Close ==
  /\ Stops
  /\ up = "up"
  /\ \A c \in Api : todo[c] = {}
  /\ up' = "closing"
  /\ queue' = <<>>
  /\ future' = [c \in Caller |-> [s \in Source |->
       IF \E i \in DOMAIN queue : queue[i].owner = c /\ queue[i].source = s
       THEN "cancelled" ELSE future[c][s]]]
  /\ UNCHANGED <<initial, catalog, scan, todo, got, worker, due>>

\* A new process on the same store.
Boot ==
  /\ up' = "up"
  /\ initial' = AtStart
  /\ catalog' = {}
  /\ scan' = NoScan
  /\ todo' = NoTodo
  /\ got' = NothingGot
  /\ future' = NoFuture
  /\ queue' = <<>>
  /\ worker' = IdlePool
  /\ UNCHANGED due

\* The interpreter joins the pool's threads and the scheduler's; the start-up
\* thread is a daemon and is not waited for.
Exit ==
  /\ up = "closing"
  /\ \A w \in Worker : worker[w] = None
  /\ scan[Scheduler] = None /\ todo[Scheduler] = {}
  /\ Boot

\* Killed, and started again.
Crash == Stops /\ Boot

-----------------------------------------------------------------------------
Work(w) ==
  \/ Take(w) \/ SetUpRaises(w) \/ AcquireLoad(w)
  \/ Loaded(w) \/ LoadFails(w) \/ RunEnds(w)

Scanning(c) == ReadDue(c) \/ ReadFails(c) \/ NothingDue(c) \/ SubmitDue(c) \/ SubmitRaises(c)

Request(c) == AdminSync(c) \/ RefreshAll(c) \/ \E s \in Source : CheckSource(c, s)

Continue(c) == Await(c) \/ TimeOut(c) \/ AwaitRaises(c) \/ Record(c) \/ RecordFails(c)

Environment == (\E s \in Source : Elapse(s)) \/ Close \/ Exit \/ Crash

Next ==
  \/ InitialSync \/ InitialSyncFails
  \/ Tick \/ InitialSweep
  \/ \E c \in Sweeper : Scanning(c)
  \/ \E c \in Api : Request(c)
  \/ \E w \in Worker : Work(w)
  \/ \E c \in Caller : Continue(c)
  \/ Environment

Spec == Init /\ [][Next]_vars

(***************************************************************************)
(* Fairness.  Threads are scheduled by the operating system, a timed wait  *)
(* returns or expires, the scheduler ticks, and the interpreter exits once *)
(* its threads have ended.  Requests, crashes and the start-up thread's    *)
(* sync owe nothing; a hanging plugin never becomes able to return.        *)
(***************************************************************************)
\* The thread of c goes on with what it has begun; the scheduler's ticks too.
Advance(c) ==
  \/ c = Scheduler /\ Tick
  \/ c \in Sweeper /\ Scanning(c)
  \/ Continue(c)

Fairness ==
  /\ \A w \in Worker : WF_vars(Work(w))
  /\ \A c \in Caller : WF_vars(Advance(c))
  /\ WF_vars(Exit)

FairSpec == Spec /\ Fairness

\* From some time on the process is left running.
SettledSpec == FairSpec /\ <>[][~Close /\ ~Crash]_vars

-----------------------------------------------------------------------------
(***************************************************************************)
(* Properties.                                                             *)
(***************************************************************************)
TypeOK ==
  /\ up \in {"up", "closing"}
  /\ initial \in {"syncing", "synced", "done"}
  /\ catalog \in SUBSET Source
  /\ scan \in [Sweeper -> Scan \cup {None}]
  /\ todo \in [Caller -> SUBSET Source]
  /\ got \in [Caller -> {"nothing", "result", "timeout"}]
  /\ \A c \in Caller : got[c] # "nothing" => todo[c] # {}
  /\ future \in [Caller -> [Source -> {"none", "pending", "finished", "raised", "cancelled"}]]
  /\ queue \in Seq(Queued)
  /\ worker \in [Worker -> Started \cup {None}]
  /\ due \in SUBSET Source

(***************************************************************************)
(* Every future somebody waits for is carried by exactly one task in the   *)
(* queue or on a worker, and a finished or cancelled one by none: through  *)
(* timeouts, aborted sweeps and shutdown, no caller waits for a check that *)
(* nobody will complete, and no late answer reaches the wrong wait.        *)
(***************************************************************************)
Carries(task, c, s) == task.owner = c /\ task.source = s

QueuedFor(c, s) == {i \in DOMAIN queue : Carries(queue[i], c, s)}
StartedFor(c, s) == {w \in Worker : worker[w] # None /\ Carries(worker[w], c, s)}

CarriedOnce(c, s) ==
  \/ StartedFor(c, s) = {} /\ \E i \in DOMAIN queue : QueuedFor(c, s) = {i}
  \/ QueuedFor(c, s) = {} /\ \E w \in Worker : StartedFor(c, s) = {w}

NotCarried(c, s) == QueuedFor(c, s) = {} /\ StartedFor(c, s) = {}

NoLostCheck ==
  \A c \in Caller, s \in Source :
    /\ IF future[c][s] = "pending" THEN CarriedOnce(c, s) ELSE NotCarried(c, s)
    /\ future[c][s] # "none" => s \in todo[c]
    /\ s \in todo[c] /\ future[c][s] = "none" => got[c] = "timeout" /\ s = First(todo[c])

(***************************************************************************)
(* README.md:61-62: a failing plugin never affects other sources.  Not     *)
(* every timeout of a healthy source is another plugin's doing, but one is *)
(* when no patience would help.  A worker is stuck when its plugin hangs   *)
(* or it waits for the load lock behind a plugin that hangs; a check is    *)
(* doomed when it is on a stuck worker, or queued with every worker stuck. *)
(***************************************************************************)
Hanging(w) ==
  \/ OnWorker(w, "loading") /\ worker[w].source \in HangLoad
  \/ OnWorker(w, "running") /\ worker[w].source \in HangRun

Stuck(w) ==
  \/ Hanging(w)
  \/ /\ OnWorker(w, "waiting")
     /\ ~LoadLockFree
     /\ \A u \in Worker : OnWorker(u, "loading") => Hanging(u)

Doomed(c) ==
  LET awaited(t) == t.owner = c /\ t.source = First(todo[c]) IN
  \/ \E w \in Worker : worker[w] # None /\ awaited(worker[w]) /\ Stuck(w)
  \/ /\ \E i \in DOMAIN queue : awaited(queue[i])
     /\ \A w \in Worker : Stuck(w)

\* No check of a plugin that does not hang itself is ever doomed.
Isolation ==
  \A c \in Caller : Awaiting(c) /\ Doomed(c) => First(todo[c]) \in HangLoad \cup HangRun

(***************************************************************************)
(* Every sweep and every request ends, although a plugin hangs while it is *)
(* imported, another raises out of check_plugin, the store raises and a    *)
(* shutdown cancels what is queued: again and again its caller has nothing *)
(* left to await, so the scheduler job (max_instances=1) is free to tick   *)
(* again (service.py:75-88).                                               *)
(***************************************************************************)
SweepsEnd == \A c \in Caller : []<>(todo[c] = {})

(***************************************************************************)
(* main.py:57-61: a shutdown comes to its end, while sweeps await, checks  *)
(* run and more are queued: as long as no plugin hangs, for the            *)
(* interpreter joins the pool's threads.                                   *)
(***************************************************************************)
ShutdownEnds == []<>(up = "up")

(***************************************************************************)
(* The reason for it (service.py:144-145): while it shuts down the service *)
(* only loses work.  Nothing is queued again by a sweep that read the due  *)
(* list before, by the start-up thread or by a late timeout, no worker     *)
(* begins another check, and no caller awaits more than it did.            *)
(***************************************************************************)
ClosingStartsNothing ==
  [][up = "closing" /\ up' = "closing" =>
       /\ queue' = <<>>
       /\ \A w \in Worker : worker'[w] # None =>
            worker[w] # None /\ worker'[w].source = worker[w].source
       /\ \A c \in Caller : todo'[c] \subseteq todo[c]]_vars

(***************************************************************************)
(* A source that is due is eventually recorded, unless a sync drops it:    *)
(* although due-ness is read before the sweep and not again, and other     *)
(* sweeps and requests record meanwhile, no reading of it is lost and no   *)
(* failing or slow plugin starves another (scheduler.py:1-6,               *)
(* README.md:61-62).                                                       *)
(***************************************************************************)
DueGetsRecorded == \A s \in Source : []<>(s \notin due \/ s \notin catalog)

(***************************************************************************)
(* Sweeps and requests work on the catalog they once took; still, a source *)
(* that a sync dropped for good is in the end neither awaited nor queued   *)
(* any more (service.py:54, 57-58, 132).  A check of it that a worker has  *)
(* begun may stay: nothing keeps others from passing it at the load lock.  *)
(***************************************************************************)
Wanted(s) ==
  \/ \E c \in Sweeper : scan[c] # None /\ s \in scan[c].unread \cup scan[c].due
  \/ \E c \in Caller : s \in todo[c]
  \/ \E i \in DOMAIN queue : queue[i].source = s

DroppedIsLeftAlone ==
  \A s \in Source : <>[](s \notin catalog) => <>[]~Wanted(s)

(***************************************************************************)
(* Whatever the pool, the plugins, the store and shutdown do, a sweep or   *)
(* request answers its sources in key order, and only an answer makes a    *)
(* source not due: service.py:75-88 implements SweepContract.              *)
(***************************************************************************)
Contract == INSTANCE SweepContract WITH asked <- todo

ContractSpec == Contract!Spec

(***************************************************************************)
(* The workers go through their checks as LoadPhases says, which the       *)
(* plugin loader implements too (checker/runner.py:96-110,                 *)
(* checker/loader.py:388-399): neither a caller that gives up nor a        *)
(* shutdown takes the lock from a load or starts a second one.             *)
(***************************************************************************)
Phase(w) == IF worker[w] = None THEN "idle" ELSE worker[w].phase

Phases == INSTANCE LoadPhases WITH phase <- [w \in Worker |-> Phase(w)]

PhasesSpec == Phases!Spec
=============================================================================
