------------------------- MODULE CheckServiceProofs -------------------------
(***************************************************************************)
(* Theorems about CheckService, for every set of sources, workers, callers *)
(* and misbehaving plugins: the state stays well typed, no future is lost  *)
(* or answered twice, what the callers see implements SweepContract, and   *)
(* what the workers do implements LoadPhases.                              *)
(***************************************************************************)
EXTENDS CheckService, FiniteSetTheorems, SequenceTheorems, WellFoundedInduction, TLAPS

USE DEF Sweeper, Caller

-----------------------------------------------------------------------------
(***************************************************************************)
(* Tasks and queues.                                                       *)
(***************************************************************************)
\* An enumeration of some sources, made into tasks, is a queue.
LEMMA OrderIsQueue ==
  ASSUME NEW c \in Caller, NEW refs \in SUBSET Source, NEW order \in Increasing(refs)
  PROVE  [i \in DOMAIN order |->
            [source |-> order[i], owner |-> c, phase |-> "queued"]] \in Seq(Queued)
<1> DEFINE n == Cardinality(refs)
           tasks == [i \in DOMAIN order |->
                       [source |-> order[i], owner |-> c, phase |-> "queued"]]
<1>1. n \in Nat
  BY SourceAssumption, FS_Subset, FS_CardinalityType
<1>2. order \in [1..n -> Source]
  BY DEF Increasing
<1>3. tasks \in [1..n -> Queued]
  BY <1>2 DEF Queued, Task
<1> HIDE DEF n, tasks
<1>4. tasks \in Seq(Queued)
  BY <1>1, <1>3, SeqDef
<1> QED BY <1>4 DEF tasks

\* Detaching changes the owner of a task and nothing else.
LEMMA DetachedTask ==
  ASSUME NEW phases, NEW t \in Task(phases)
  PROVE  /\ [t EXCEPT !.owner = None] \in Task(phases)
         /\ [t EXCEPT !.owner = None].phase = t.phase
         /\ [t EXCEPT !.owner = None].source = t.source
BY DEF Task

\* What Detach leaves of the queue and of the workers.
LEMMA DetachType ==
  ASSUME NEW c, NEW S, queue \in Seq(Queued), worker \in [Worker -> Started \cup {None}],
         Detach(c, S)
  PROVE  /\ queue' \in Seq(Queued)
         /\ worker' \in [Worker -> Started \cup {None}]
         /\ \A w \in Worker :
              /\ worker'[w] = None <=> worker[w] = None
              /\ worker[w] # None => /\ worker'[w].phase = worker[w].phase
                                     /\ worker'[w].source = worker[w].source
         /\ queue = <<>> => queue' = <<>>
<1> DEFINE detached(t) == IF t.owner = c /\ t.source \in S THEN [t EXCEPT !.owner = None] ELSE t
<1>1. /\ \A t \in Queued : detached(t) \in Queued
      /\ \A t \in Started : /\ detached(t) \in Started
                            /\ detached(t).phase = t.phase
                            /\ detached(t).source = t.source
  BY DetachedTask DEF Queued, Started
<1>2. /\ queue' = [i \in DOMAIN queue |-> detached(queue[i])]
      /\ worker' = [w \in Worker |-> IF worker[w] = None THEN None ELSE detached(worker[w])]
  BY DEF Detach
<1> HIDE DEF detached
<1>3. Len(queue) \in Nat /\ queue \in [1..Len(queue) -> Queued]
  BY LenProperties
<1>4. queue' \in [1..Len(queue) -> Queued]
  BY <1>1, <1>2, <1>3
<1>5. queue' \in Seq(Queued)
  BY <1>3, <1>4, SeqDef
<1>6. \A w \in Worker :
        /\ worker[w] = None => worker'[w] = None
        /\ worker[w] # None => /\ worker'[w] \in Started
                               /\ worker'[w].phase = worker[w].phase
                               /\ worker'[w].source = worker[w].source
  BY <1>1, <1>2
<1>7. worker' \in [Worker -> Started \cup {None}]
  BY <1>2, <1>6
<1>8. queue = <<>> => queue' = <<>>
  BY <1>2
<1> QED BY <1>5, <1>6, <1>7, <1>8, NoneAssumption

-----------------------------------------------------------------------------
(***************************************************************************)
(* Type correctness.                                                       *)
(***************************************************************************)
LEMMA TypeInit == Init => TypeOK
BY EmptySeq DEF Init, TypeOK, AtStart, NoScan, NoTodo, NothingGot, NoFuture, NoFutures, IdlePool

\* A sweep is scanning, or it is not.
LEMMA ScanType ==
  ASSUME NEW c \in Sweeper, NEW value \in Scan \cup {None}, TypeOK,
         scan' = [scan EXCEPT ![c] = value]
  PROVE  scan' \in [Sweeper -> Scan \cup {None}]
BY DEF TypeOK

\* Nothing but the catalog and the scans changes.
LEMMA CatalogType ==
  ASSUME TypeOK, UNCHANGED <<up, pool, due>>,
         initial' \in {"syncing", "synced", "done"},
         catalog' \in SUBSET Source, scan' \in [Sweeper -> Scan \cup {None}]
  PROVE  TypeOK'
BY DEF TypeOK, pool

LEMMA SubmitType ==
  ASSUME NEW c \in Caller, NEW refs \in SUBSET Source,
         TypeOK, Enqueue(c, refs), scan' \in [Sweeper -> Scan \cup {None}]
  PROVE  TypeOK'
<1>1. queue' \in Seq(Queued)
  <2>1. PICK order \in Increasing(refs) :
          queue' = queue \o [i \in DOMAIN order |->
                               [source |-> order[i], owner |-> c, phase |-> "queued"]]
    BY DEF Enqueue
  <2> DEFINE tasks == [i \in DOMAIN order |->
                         [source |-> order[i], owner |-> c, phase |-> "queued"]]
  <2>2. tasks \in Seq(Queued)
    BY OrderIsQueue
  <2>3. queue \in Seq(Queued)
    BY DEF TypeOK
  <2> HIDE DEF tasks
  <2>4. queue \o tasks \in Seq(Queued)
    BY <2>2, <2>3, ConcatProperties
  <2> QED BY <2>1, <2>4 DEF tasks
<1>2. todo' \in [Caller -> SUBSET Source]
  BY DEF TypeOK, Enqueue
<1>3. future' \in [Caller -> [Source -> {"none", "pending", "finished", "raised", "cancelled"}]]
  BY DEF TypeOK, Enqueue
<1>4. \A d \in Caller : got'[d] # "nothing" => todo'[d] # {}
  BY DEF TypeOK, Enqueue
<1> QED BY <1>1, <1>2, <1>3, <1>4 DEF TypeOK, Enqueue

LEMMA FinishType ==
  ASSUME NEW w \in Worker, NEW outcome \in {"finished", "raised"}, TypeOK,
         Finish(w, outcome), worker[w] # None
  PROVE  TypeOK'
<1>1. worker' \in [Worker -> Started \cup {None}]
  BY DEF TypeOK, Finish
<1>2. future' \in [Caller -> [Source -> {"none", "pending", "finished", "raised", "cancelled"}]]
  BY DEF TypeOK, Finish
<1> QED BY <1>1, <1>2 DEF TypeOK, Finish

LEMMA AbortType ==
  ASSUME NEW c \in Caller, TypeOK, Abort(c)
  PROVE  TypeOK'
<1>1. queue' \in Seq(Queued) /\ worker' \in [Worker -> Started \cup {None}]
  BY DetachType DEF TypeOK, Abort
<1>2. todo' \in [Caller -> SUBSET Source]
  BY DEF TypeOK, Abort
<1>3. future' \in [Caller -> [Source -> {"none", "pending", "finished", "raised", "cancelled"}]]
  BY DEF TypeOK, Abort, NoFutures
<1>4. /\ got' \in [Caller -> {"nothing", "result", "timeout"}]
      /\ \A d \in Caller : got'[d] # "nothing" => todo'[d] # {}
  BY DEF TypeOK, Abort
<1> QED BY <1>1, <1>2, <1>3, <1>4 DEF TypeOK, Abort

LEMMA BootType == TypeOK /\ Boot => TypeOK'
BY EmptySeq DEF TypeOK, Boot, AtStart, NoScan, NoTodo, NothingGot, NoFuture, NoFutures, IdlePool

\* Each step keeps the types: one case per action.
LEMMA TypeStep == TypeOK /\ [Next]_vars => TypeOK'
<1> SUFFICES ASSUME TypeOK, [Next]_vars PROVE TypeOK'
  OBVIOUS
<1>1. CASE InitialSync \/ InitialSyncFails
  BY <1>1, CatalogAssumption, CatalogType DEF InitialSync, InitialSyncFails, NewCatalog, TypeOK
<1>2. CASE Tick \/ InitialSweep
  <2>1. Swept \in Scan
    BY DEF Swept, Scan, TypeOK
  <2>2. scan' \in [Sweeper -> Scan \cup {None}]
    BY <1>2, <2>1, ScanType DEF Tick, InitialSweep
  <2> QED BY <1>2, <2>2, CatalogType DEF Tick, InitialSweep, TypeOK
<1>3. ASSUME NEW c \in Api, Request(c) PROVE TypeOK'
  <2>1. CASE AdminSync(c)
    BY <2>1, CatalogAssumption, CatalogType DEF AdminSync, NewCatalog, TypeOK
  <2>2. CASE RefreshAll(c)
    BY <2>2, SubmitType DEF RefreshAll, Submit, TypeOK
  <2>3. ASSUME NEW s \in Source, CheckSource(c, s) PROVE TypeOK'
    BY <2>3, SubmitType DEF CheckSource, Submit, TypeOK
  <2> QED BY <1>3, <2>1, <2>2, <2>3 DEF Request
<1>4. ASSUME NEW c \in Sweeper, Scanning(c) PROVE TypeOK'
  <2>1. CASE ReadDue(c)
    <3>1. scan[c] \in Scan
      BY <2>1 DEF ReadDue, TypeOK
    <3>2. ASSUME NEW s
          PROVE  [unread |-> scan[c].unread \ {s}, due |-> scan[c].due \cup ({s} \cap due)] \in Scan
      BY <3>1 DEF Scan, TypeOK
    <3>3. scan' \in [Sweeper -> Scan \cup {None}]
      BY <2>1, <3>2, ScanType DEF ReadDue
    <3> QED BY <2>1, <3>3, CatalogType DEF ReadDue, TypeOK
  <2>2. CASE ReadFails(c) \/ NothingDue(c) \/ SubmitRaises(c)
    <3>1. scan' \in [Sweeper -> Scan \cup {None}]
      BY <2>2, ScanType DEF ReadFails, NothingDue, SubmitRaises
    <3> QED BY <2>2, <3>1, CatalogType DEF ReadFails, NothingDue, SubmitRaises, TypeOK
  <2>3. CASE SubmitDue(c)
    <3>1. scan[c].due \in SUBSET Source
      BY <2>3 DEF SubmitDue, Scanned, Scan, TypeOK
    <3>2. scan' \in [Sweeper -> Scan \cup {None}]
      BY <2>3, ScanType DEF SubmitDue
    <3> QED BY <2>3, <3>1, <3>2, SubmitType DEF SubmitDue, Submit
  <2> QED BY <1>4, <2>1, <2>2, <2>3 DEF Scanning
<1>5. ASSUME NEW w \in Worker, Work(w) PROVE TypeOK'
  <2>1. CASE Take(w)
    <3>1. Head(queue) \in Queued /\ Tail(queue) \in Seq(Queued)
      BY <2>1, HeadTailProperties DEF Take, TypeOK
    <3>2. [Head(queue) EXCEPT !.phase = "waiting"] \in Started
      BY <3>1 DEF Queued, Started, Task
    <3>3. worker' \in [Worker -> Started \cup {None}]
      BY <2>1, <3>2 DEF Take, TypeOK
    <3> QED BY <2>1, <3>1, <3>3 DEF Take, TypeOK
  <2>2. CASE AcquireLoad(w)
    <3>1. worker[w] \in Started
      BY <2>2 DEF AcquireLoad, OnWorker, TypeOK
    <3>2. [worker[w] EXCEPT !.phase = "loading"] \in Started
      BY <3>1 DEF Started, Task
    <3>3. worker' \in [Worker -> Started \cup {None}]
      BY <2>2, <3>2 DEF AcquireLoad, TypeOK
    <3> QED BY <2>2, <3>3 DEF AcquireLoad, TypeOK
  <2>3. CASE Loaded(w)
    <3>1. worker[w] \in Started
      BY <2>3 DEF Loaded, OnWorker, TypeOK
    <3>2. [worker[w] EXCEPT !.phase = "running"] \in Started
      BY <3>1 DEF Started, Task
    <3>3. worker' \in [Worker -> Started \cup {None}]
      BY <2>3, <3>2 DEF Loaded, TypeOK
    <3> QED BY <2>3, <3>3 DEF Loaded, TypeOK
  <2>4. CASE LoadFails(w)
    BY <2>4, FinishType DEF LoadFails, OnWorker
  <2>5. CASE RunEnds(w) \/ SetUpRaises(w)
    BY <2>5, FinishType DEF RunEnds, SetUpRaises, OnWorker
  <2> QED BY <1>5, <2>1, <2>2, <2>3, <2>4, <2>5 DEF Work
<1>6. ASSUME NEW c \in Caller, Continue(c) PROVE TypeOK'
  <2>1. CASE Await(c)
    BY <2>1 DEF Await, Awaiting, TypeOK
  <2>2. CASE TimeOut(c)
    <3>1. queue' \in Seq(Queued) /\ worker' \in [Worker -> Started \cup {None}]
      BY <2>2, DetachType DEF TypeOK, TimeOut
    <3>2. future' \in [Caller -> [Source -> {"none", "pending", "finished", "raised", "cancelled"}]]
      BY <2>2 DEF TypeOK, TimeOut
    <3>3. /\ got' \in [Caller -> {"nothing", "result", "timeout"}]
          /\ \A d \in Caller : got'[d] # "nothing" => todo'[d] # {}
      BY <2>2 DEF TypeOK, TimeOut, Awaiting
    <3> QED BY <2>2, <3>1, <3>2, <3>3 DEF TypeOK, TimeOut
  <2>3. CASE AwaitRaises(c)
    BY <2>3, AbortType DEF AwaitRaises
  <2>4. CASE Record(c)
    <3>1. todo' \in [Caller -> SUBSET Source]
      BY <2>4 DEF TypeOK, Record
    <3>2. future' \in [Caller -> [Source -> {"none", "pending", "finished", "raised", "cancelled"}]]
      BY <2>4 DEF TypeOK, Record
    <3>3. /\ got' \in [Caller -> {"nothing", "result", "timeout"}]
          /\ \A d \in Caller : got'[d] # "nothing" => todo'[d] # {}
      BY <2>4 DEF TypeOK, Record
    <3> QED BY <2>4, <3>1, <3>2, <3>3 DEF TypeOK, Record
  <2>5. CASE RecordFails(c)
    BY <2>5, AbortType DEF RecordFails
  <2> QED BY <1>6, <2>1, <2>2, <2>3, <2>4, <2>5 DEF Continue
<1>7. CASE Environment
  <2>1. ASSUME NEW s \in Source, Elapse(s) PROVE TypeOK'
    BY <2>1 DEF Elapse, process, pool, TypeOK
  <2>2. CASE Close
    <3>1. future' \in [Caller -> [Source -> {"none", "pending", "finished", "raised", "cancelled"}]]
      BY <2>2 DEF TypeOK, Close
    <3> QED BY <2>2, <3>1, EmptySeq DEF TypeOK, Close
  <2>3. CASE Exit
    BY <2>3, BootType DEF Exit
  <2>4. CASE Crash
    BY <2>4, BootType DEF Crash
  <2> QED BY <1>7, <2>1, <2>2, <2>3, <2>4 DEF Environment
<1>8. CASE UNCHANGED vars
  BY <1>8 DEF vars, process, pool, TypeOK
<1> QED BY <1>1, <1>2, <1>3, <1>4, <1>5, <1>6, <1>7, <1>8 DEF Next

(***************************************************************************)
(* service.py: tasks, futures and callers keep their types whatever        *)
(* plugins, the store, shutdown and crashes do.                            *)
(***************************************************************************)
THEOREM TypeCorrect == Spec => []TypeOK
BY TypeInit, TypeStep, PTL DEF Spec

-----------------------------------------------------------------------------
(***************************************************************************)
(* Futures.                                                                *)
(***************************************************************************)
\* The source a caller awaits is one it has yet to record.
LEMMA FirstIsFirst ==
  ASSUME NEW S \in SUBSET Source, S # {}
  PROVE  First(S) \in S /\ \A t \in S : First(S) <= t
<1>1. S \subseteq Nat
  BY SourceAssumption
<1>2. PICK x \in S : \A y \in S : ~ (<<y, x>> \in OpToRel(<, Nat))
  BY <1>1, WFMin, NatLessThanWellFounded
<1>3. ASSUME NEW y \in S PROVE x <= y
  <2>1. x \in Nat /\ y \in Nat
    BY <1>1
  <2>2. <<y, x>> \in Nat \X Nat /\ <<y, x>>[1] = y /\ <<y, x>>[2] = x
    BY <2>1
  <2>3. <<y, x>> \notin {ss \in Nat \X Nat : ss[1] < ss[2]}
    BY <1>2 DEF OpToRel
  <2>4. ~ (y < x)
    BY <2>2, <2>3
  <2> QED BY <2>1, <2>4
<1> QED BY <1>3 DEF First

\* The answer a caller holds is that of the first future; it has let go of one
\* that it gave up on.
HeldAnswer ==
  \A c \in Caller :
    /\ got[c] = "result"  => future[c][First(todo[c])] = "finished"
    /\ got[c] = "timeout" => future[c][First(todo[c])] = "none"

LostInv == TypeOK /\ NoLostCheck /\ HeldAnswer

\* What NoLostCheck says of one future.
Sound(c, s) ==
  /\ IF future[c][s] = "pending" THEN CarriedOnce(c, s) ELSE NotCarried(c, s)
  /\ future[c][s] # "none" => s \in todo[c]
  /\ s \in todo[c] /\ future[c][s] = "none" => got[c] = "timeout" /\ s = First(todo[c])

LEMMA LostInit == Init => NoLostCheck /\ HeldAnswer
BY DEF Init, NoLostCheck, HeldAnswer, NoTodo, NothingGot, NoFuture, NoFutures, IdlePool,
       NotCarried, QueuedFor, StartedFor

LEMMA BootLost == Boot => (NoLostCheck /\ HeldAnswer)'
BY DEF Boot, NoLostCheck, HeldAnswer, NoTodo, NothingGot, NoFuture, NoFutures, IdlePool,
       NotCarried, QueuedFor, StartedFor

\* The same carriers carry a future before and after.
LEMMA SameCarriers ==
  ASSUME NEW c, NEW s, QueuedFor(c, s)' = QueuedFor(c, s), StartedFor(c, s)' = StartedFor(c, s)
  PROVE  /\ CarriedOnce(c, s)' <=> CarriedOnce(c, s)
         /\ NotCarried(c, s)' <=> NotCarried(c, s)
<1>1. \A i : QueuedFor(c, s) = {i} => i \in DOMAIN queue
  BY DEF QueuedFor
<1>2. \A i : QueuedFor(c, s)' = {i} => i \in DOMAIN queue'
  BY DEF QueuedFor
<1> QED BY <1>1, <1>2 DEF CarriedOnce, NotCarried

\* Nothing that NoLostCheck or HeldAnswer speaks of changes.
LEMMA LostFrame ==
  ASSUME NoLostCheck, HeldAnswer, UNCHANGED <<todo, got, future, queue, worker>>
  PROVE  (NoLostCheck /\ HeldAnswer)'
<1>1. \A c \in Caller, s \in Source :
        QueuedFor(c, s)' = QueuedFor(c, s) /\ StartedFor(c, s)' = StartedFor(c, s)
  BY DEF QueuedFor, StartedFor
<1> QED BY <1>1, SameCarriers DEF NoLostCheck, HeldAnswer

\* The workers' phases do not matter, only whose check they are on.
LEMMA PhaseLost ==
  ASSUME NEW w \in Worker, NEW phase, LostInv, worker[w] # None,
         worker' = [worker EXCEPT ![w].phase = phase], worker'[w] # None,
         UNCHANGED <<todo, got, future, queue>>
  PROVE  (NoLostCheck /\ HeldAnswer)'
<1>1. worker[w] \in Started
  BY DEF LostInv, TypeOK
<1>2. /\ \A u \in Worker \ {w} : worker'[u] = worker[u]
      /\ worker'[w].owner = worker[w].owner /\ worker'[w].source = worker[w].source
  BY <1>1 DEF LostInv, TypeOK, Started, Task
<1>3. \A c \in Caller, s \in Source :
        QueuedFor(c, s)' = QueuedFor(c, s) /\ StartedFor(c, s)' = StartedFor(c, s)
  BY <1>2 DEF QueuedFor, StartedFor, Carries
<1> QED BY <1>3, SameCarriers DEF LostInv, NoLostCheck, HeldAnswer

\* A future that was carried before a worker takes its task is carried by that
\* worker alone afterwards; the others keep their carriers.
LEMMA TakeLost ==
  ASSUME NEW w \in Worker, LostInv, Take(w)
  PROVE  (NoLostCheck /\ HeldAnswer)'
<1> DEFINE task == Head(queue)
           taken == [task EXCEPT !.phase = "waiting"]
<1>1. /\ queue \in Seq(Queued) /\ queue # <<>>
      /\ worker[w] = None
      /\ queue' = Tail(queue)
      /\ worker' = [worker EXCEPT ![w] = taken]
      /\ UNCHANGED <<todo, got, future>>
  BY DEF LostInv, TypeOK, Take
<1>2. /\ Len(queue) \in Nat \ {0} /\ DOMAIN queue = 1..Len(queue)
      /\ task = queue[1] /\ task \in Queued
      /\ DOMAIN queue' = 1..(Len(queue) - 1)
      /\ \A i \in 1..(Len(queue) - 1) : queue'[i] = queue[i + 1]
  BY <1>1, LenProperties, EmptySeq, HeadTailProperties
<1>3. /\ taken \in Started /\ taken # None
      /\ taken.owner = task.owner /\ taken.source = task.source
  BY <1>2, NoneAssumption DEF Queued, Started, Task
<1>4. /\ worker'[w] = taken
      /\ \A u \in Worker \ {w} : worker'[u] = worker[u]
  BY <1>1 DEF LostInv, TypeOK
<1> HIDE DEF task, taken
<1>5. ASSUME NEW c \in Caller, NEW s \in Source
      PROVE  /\ CarriedOnce(c, s) => CarriedOnce(c, s)'
             /\ NotCarried(c, s) => NotCarried(c, s)'
  <2>1. CASE Carries(task, c, s)
    <3>1. 1 \in QueuedFor(c, s)
      BY <1>2, <2>1 DEF QueuedFor
    <3>2. ~NotCarried(c, s)
      BY <3>1 DEF NotCarried
    <3>3. ASSUME CarriedOnce(c, s) PROVE CarriedOnce(c, s)'
      <4>1. QueuedFor(c, s) = {1} /\ StartedFor(c, s) = {}
        BY <3>1, <3>3 DEF CarriedOnce
      <4>2. \A i \in DOMAIN queue : Carries(queue[i], c, s) => i = 1
        BY <4>1 DEF QueuedFor
      <4>3. \A i \in 1..(Len(queue) - 1) : i + 1 \in DOMAIN queue /\ i + 1 # 1
        BY <1>2
      <4>4. QueuedFor(c, s)' = {}
        BY <1>2, <4>2, <4>3 DEF QueuedFor, Carries
      <4>5. StartedFor(c, s)' = {w}
        BY <1>3, <1>4, <2>1, <4>1 DEF StartedFor, Carries
      <4> QED BY <4>4, <4>5 DEF CarriedOnce
    <3> QED BY <3>2, <3>3
  <2>2. CASE ~Carries(task, c, s)
    <3>1. StartedFor(c, s)' = StartedFor(c, s)
      BY <1>1, <1>3, <1>4, <2>2 DEF StartedFor, Carries
    <3>2. \A i : i \in QueuedFor(c, s)' <=> i \in Nat /\ i + 1 \in QueuedFor(c, s) /\ i # 0
      BY <1>2 DEF QueuedFor, Carries
    <3>3. 1 \notin QueuedFor(c, s) /\ QueuedFor(c, s) \subseteq Nat \ {0}
      BY <1>2, <2>2 DEF QueuedFor
    <3>4. QueuedFor(c, s) = {} => QueuedFor(c, s)' = {}
      BY <3>2
    <3>5. ASSUME NEW i \in DOMAIN queue, QueuedFor(c, s) = {i}
          PROVE  \E j \in DOMAIN queue' : QueuedFor(c, s)' = {j}
      <4>1. i \in Nat \ {0, 1} /\ i - 1 \in Nat \ {0} /\ (i - 1) + 1 = i
        BY <1>2, <3>3, <3>5
      <4>2. QueuedFor(c, s)' = {i - 1}
        BY <3>2, <3>5, <4>1
      <4> QED BY <4>2 DEF QueuedFor
    <3> QED BY <3>1, <3>4, <3>5 DEF CarriedOnce, NotCarried
  <2> QED BY <2>1, <2>2
<1>6. NoLostCheck'
  BY <1>1, <1>5 DEF LostInv, NoLostCheck
<1>7. HeldAnswer'
  BY <1>1 DEF LostInv, HeldAnswer
<1> QED BY <1>6, <1>7

\* A new caller's futures: one task each, at the end of the queue; the futures
\* of the other callers keep their carriers.
LEMMA SubmitLost ==
  ASSUME NEW c \in Caller, NEW refs \in SUBSET Source, LostInv, Enqueue(c, refs)
  PROVE  (NoLostCheck /\ HeldAnswer)'
<1>1. PICK order \in Increasing(refs) :
        queue' = queue \o [i \in DOMAIN order |->
                             [source |-> order[i], owner |-> c, phase |-> "queued"]]
  BY DEF Enqueue
<1> DEFINE n == Cardinality(refs)
           m == Len(queue)
           tasks == [i \in DOMAIN order |->
                       [source |-> order[i], owner |-> c, phase |-> "queued"]]
<1>2. /\ n \in Nat
      /\ order \in [1..n -> refs]
      /\ \A s \in refs : \E i \in 1..n : order[i] = s
      /\ \A i, j \in 1..n : i < j => order[i] < order[j]
  BY SourceAssumption, FS_Subset, FS_CardinalityType DEF Increasing
<1>3. \A i, j \in 1..n : order[i] = order[j] => i = j
  <2> SUFFICES ASSUME NEW i \in 1..n, NEW j \in 1..n, order[i] = order[j], i < j
               PROVE  FALSE
    BY <1>2
  <2>1. order[i] < order[j] /\ order[i] \in Nat
    BY <1>2, SourceAssumption
  <2> QED BY <2>1
<1>4. /\ tasks \in Seq(Queued)
      /\ DOMAIN tasks = 1..n
      /\ \A i \in 1..n : tasks[i].source = order[i] /\ tasks[i].owner = c
  BY <1>2, OrderIsQueue
<1>5. queue \in Seq(Queued) /\ m \in Nat /\ DOMAIN queue = 1..m
  BY LenProperties DEF LostInv, TypeOK
<1> HIDE DEF n, m, tasks
<1>6. Len(tasks) = n
  BY <1>2, <1>4, LenProperties
<1>7. /\ queue' \in Seq(Queued) /\ DOMAIN queue' = 1..(m + n)
      /\ \A i \in 1..m : queue'[i] = queue[i]
      /\ \A i \in 1..n : m + i \in DOMAIN queue' /\ queue'[m + i] = tasks[i]
      /\ \A i \in 1..(m + n) : i \in 1..m \/ (i - m \in 1..n /\ m + (i - m) = i)
  <2>1. queue' = queue \o tasks
    BY <1>1 DEF tasks
  <2>2. /\ queue' \in Seq(Queued) /\ Len(queue') = m + n
        /\ \A i \in 1..(m + n) : queue'[i] = IF i <= m THEN queue[i] ELSE tasks[i - m]
    BY <2>1, <1>4, <1>5, <1>6, ConcatProperties DEF m
  <2>3. DOMAIN queue' = 1..(m + n)
    BY <2>2, LenProperties
  <2>4. ASSUME NEW i \in 1..n PROVE m + i \in 1..(m + n) /\ ~(m + i <= m) /\ (m + i) - m = i
    BY <1>2, <1>5
  <2>5. \A i \in 1..m : i \in 1..(m + n) /\ i <= m
    BY <1>2, <1>5
  <2>6. \A i \in 1..n : queue'[m + i] = tasks[i]
    BY <2>2, <2>4
  <2>7. \A i \in 1..(m + n) : i \in 1..m \/ (i - m \in 1..n /\ m + (i - m) = i)
    BY <1>2, <1>5
  <2> QED BY <2>2, <2>3, <2>4, <2>5, <2>6, <2>7
<1>8. /\ todo[c] = {} /\ got[c] = "nothing"
      /\ todo' = [todo EXCEPT ![c] = refs]
      /\ future' = [future EXCEPT ![c] = [s \in Source |-> IF s \in refs THEN "pending" ELSE "none"]]
      /\ UNCHANGED <<got, worker>>
  BY DEF LostInv, TypeOK, Enqueue
<1>9. /\ todo'[c] = refs
      /\ \A s \in Source : future'[c][s] = IF s \in refs THEN "pending" ELSE "none"
      /\ \A d \in Caller \ {c} : todo'[d] = todo[d] /\ future'[d] = future[d]
  BY <1>8 DEF LostInv, TypeOK
<1>10. ASSUME NEW d \in Caller \ {c}, NEW s \in Source PROVE Sound(d, s)'
  <2>1. QueuedFor(d, s)' = QueuedFor(d, s)
    <3>1. \A i \in 1..n : ~Carries(queue'[m + i], d, s)
      BY <1>4, <1>7 DEF Carries
    <3>2. \A i \in (1..(m + n)) \ (1..m) : ~Carries(queue'[i], d, s)
      BY <3>1, <1>7
    <3>3. 1..m \subseteq 1..(m + n)
      BY <1>2, <1>5
    <3> QED BY <3>2, <3>3, <1>5, <1>7 DEF QueuedFor, Carries
  <2>2. StartedFor(d, s)' = StartedFor(d, s)
    BY <1>8 DEF StartedFor
  <2>3. Sound(d, s)
    BY DEF LostInv, NoLostCheck, Sound
  <2> QED BY <2>1, <2>2, <2>3, <1>8, <1>9, SameCarriers DEF Sound
<1>11. ASSUME NEW s \in Source PROVE Sound(c, s)'
  <2>1. Sound(c, s)
    BY DEF LostInv, NoLostCheck, Sound
  <2>2. QueuedFor(c, s) = {} /\ StartedFor(c, s) = {}
    BY <2>1, <1>8 DEF Sound, NotCarried
  <2>3. StartedFor(c, s)' = {}
    BY <2>2, <1>8 DEF StartedFor
  <2>4. \A i \in 1..m : ~Carries(queue'[i], c, s)
    BY <2>2, <1>5, <1>7 DEF QueuedFor
  <2>5. CASE s \notin refs
    <3>1. \A i \in 1..n : ~Carries(queue'[m + i], c, s)
      BY <2>5, <1>2, <1>4, <1>7 DEF Carries
    <3>2. QueuedFor(c, s)' = {}
      BY <3>1, <2>4, <1>7 DEF QueuedFor, Carries
    <3> QED BY <2>3, <2>5, <3>2, <1>9 DEF Sound, NotCarried
  <2>6. CASE s \in refs
    <3>1. PICK k \in 1..n : order[k] = s
      BY <2>6, <1>2
    <3>2. \A i \in 1..n : Carries(queue'[m + i], c, s) <=> i = k
      BY <3>1, <1>3, <1>4, <1>7 DEF Carries
    <3>3. QueuedFor(c, s)' = {m + k}
      BY <3>2, <2>4, <1>7 DEF QueuedFor, Carries
    <3>4. CarriedOnce(c, s)'
      BY <3>3, <2>3, <1>7 DEF CarriedOnce
    <3> QED BY <2>6, <3>4, <1>9 DEF Sound
  <2> QED BY <2>5, <2>6
<1>12. HeldAnswer'
  BY <1>8, <1>9 DEF LostInv, HeldAnswer
<1> QED BY <1>10, <1>11, <1>12 DEF NoLostCheck, Sound

\* The worker that finishes carried the future it answers, alone.
LEMMA FinishLost ==
  ASSUME NEW w \in Worker, NEW outcome \in {"finished", "raised"}, LostInv,
         worker[w] # None, Finish(w, outcome)
  PROVE  (NoLostCheck /\ HeldAnswer)'
<1>0. worker[w] \in Started
  BY DEF LostInv, TypeOK
<1>1. PICK o \in Caller \cup {None}, z \in Source :
        o = worker[w].owner /\ z = worker[w].source
  BY <1>0 DEF Started, Task
<1>2. future' = IF o = None THEN future ELSE [future EXCEPT ![o][z] = outcome]
  BY <1>1 DEF Finish
<1>3. /\ worker'[w] = None
      /\ \A u \in Worker \ {w} : worker'[u] = worker[u]
      /\ UNCHANGED <<todo, got, queue>>
  BY DEF LostInv, TypeOK, Finish
<1>4. \A c \in Caller, s \in Source :
        (c = o /\ s = z) \/ future'[c][s] = future[c][s]
  BY <1>1, <1>2 DEF LostInv, TypeOK
<1>5. ASSUME NEW c \in Caller, NEW s \in Source, ~(c = o /\ s = z) PROVE Sound(c, s)'
  <2>1. QueuedFor(c, s)' = QueuedFor(c, s)
    BY <1>3 DEF QueuedFor
  <2>2. StartedFor(c, s)' = StartedFor(c, s)
    BY <1>1, <1>3, <1>5 DEF StartedFor, Carries
  <2>3. Sound(c, s)
    BY DEF LostInv, NoLostCheck, Sound
  <2> QED BY <1>3, <1>4, <1>5, <2>1, <2>2, <2>3, SameCarriers DEF Sound
<1>6. ASSUME o \in Caller
      PROVE  /\ future[o][z] = "pending"
             /\ Sound(o, z)'
  <2>1. Sound(o, z)
    BY <1>1, <1>6 DEF LostInv, NoLostCheck, Sound
  <2>2. w \in StartedFor(o, z)
    BY <1>1 DEF StartedFor, Carries
  <2>3. /\ future[o][z] = "pending"
        /\ StartedFor(o, z) = {w} /\ QueuedFor(o, z) = {}
    BY <2>1, <2>2 DEF Sound, NotCarried, CarriedOnce
  <2>4. NotCarried(o, z)'
    BY <2>3, <1>3 DEF NotCarried, QueuedFor, StartedFor, Carries
  <2>5. o # None
    BY <1>6, CallerAssumption
  <2>6. future'[o][z] = outcome
    BY <2>5, <1>1, <1>2, <1>6 DEF LostInv, TypeOK
  <2> QED BY <2>1, <2>3, <2>4, <2>6, <1>3 DEF Sound
<1>7. ASSUME NEW c \in Caller, got[c] # "nothing"
      PROVE  future'[c][First(todo[c])] = future[c][First(todo[c])]
  <2>1. First(todo[c]) \in Source
    BY <1>7, FirstIsFirst DEF LostInv, TypeOK
  <2>2. future[c][First(todo[c])] # "pending"
    BY <1>7 DEF LostInv, TypeOK, HeldAnswer
  <2> QED BY <2>1, <2>2, <1>4, <1>6
<1>8. NoLostCheck'
  BY <1>5, <1>6 DEF NoLostCheck, Sound
<1>9. HeldAnswer'
  BY <1>3, <1>7 DEF LostInv, HeldAnswer
<1> QED BY <1>8, <1>9

\* Detach takes the named futures' carriers away, and leaves those of every
\* other future where they are.
LEMMA DetachCarriers ==
  ASSUME NEW c \in Caller, NEW S, TypeOK, Detach(c, S), NEW d \in Caller, NEW s \in Source
  PROVE  /\ d = c /\ s \in S => NotCarried(d, s)'
         /\ ~(d = c /\ s \in S) => /\ QueuedFor(d, s)' = QueuedFor(d, s)
                                   /\ StartedFor(d, s)' = StartedFor(d, s)
<1> DEFINE detached(t) == IF t.owner = c /\ t.source \in S THEN [t EXCEPT !.owner = None] ELSE t
<1>1. None \notin Caller
  BY CallerAssumption
<1>2. ASSUME NEW t \in Queued \cup Started
      PROVE  Carries(detached(t), d, s) <=> Carries(t, d, s) /\ ~(d = c /\ s \in S)
  BY <1>1 DEF Carries, Queued, Started, Task
<1>3. /\ queue' = [i \in DOMAIN queue |-> detached(queue[i])]
      /\ worker' = [w \in Worker |-> IF worker[w] = None THEN None ELSE detached(worker[w])]
  BY DEF Detach
<1>4. \A t \in Started : detached(t) \in Started
  BY DetachedTask DEF Started
<1> HIDE DEF detached
<1>5. /\ \A i \in DOMAIN queue : queue[i] \in Queued
      /\ \A w \in Worker : worker[w] # None => worker[w] \in Started
  BY ElementOfSeq, LenProperties DEF TypeOK
<1>6. \A w \in Worker : worker'[w] = None <=> worker[w] = None
  BY <1>3, <1>4, <1>5, NoneAssumption
<1>7. \A i \in DOMAIN queue :
        Carries(queue'[i], d, s) <=> Carries(queue[i], d, s) /\ ~(d = c /\ s \in S)
  BY <1>2, <1>3, <1>5
<1>8. \A w \in Worker : worker[w] # None =>
        (Carries(worker'[w], d, s) <=> Carries(worker[w], d, s) /\ ~(d = c /\ s \in S))
  BY <1>2, <1>3, <1>5
<1>9. DOMAIN queue' = DOMAIN queue
  BY <1>3
<1>10. ASSUME d = c, s \in S PROVE NotCarried(d, s)'
  BY <1>6, <1>7, <1>8, <1>9, <1>10 DEF NotCarried, QueuedFor, StartedFor, Carries
<1>11. ASSUME ~(d = c /\ s \in S)
       PROVE  /\ QueuedFor(d, s)' = QueuedFor(d, s)
              /\ StartedFor(d, s)' = StartedFor(d, s)
  BY <1>6, <1>7, <1>8, <1>9, <1>11 DEF QueuedFor, StartedFor, Carries
<1> QED BY <1>10, <1>11

\* A caller that gives up on a check lets go of its future.
LEMMA TimeOutLost ==
  ASSUME NEW c \in Caller, LostInv, TimeOut(c)
  PROVE  (NoLostCheck /\ HeldAnswer)'
<1>1. PICK z \in Source : z = First(todo[c]) /\ z \in todo[c]
  BY FirstIsFirst DEF LostInv, TypeOK, TimeOut, Awaiting
<1>2. /\ UNCHANGED todo
      /\ got'[c] = "timeout" /\ \A d \in Caller \ {c} : got'[d] = got[d]
      /\ future'[c][z] = "none"
      /\ \A d \in Caller, s \in Source :
           ~(d = c /\ s = z) => future'[d][s] = future[d][s]
      /\ got[c] = "nothing"
  BY <1>1 DEF LostInv, TypeOK, TimeOut, Awaiting
<1>3. Detach(c, {z})
  BY <1>1 DEF TimeOut
<1>4. ASSUME NEW d \in Caller, NEW s \in Source PROVE Sound(d, s)'
  <2>1. Sound(d, s) /\ TypeOK
    BY DEF LostInv, NoLostCheck, Sound
  <2>2. CASE d = c /\ s = z
    <3>1. NotCarried(d, s)'
      BY <1>3, <2>1, <2>2, DetachCarriers
    <3> QED BY <1>1, <1>2, <2>2, <3>1 DEF Sound
  <2>3. CASE ~(d = c /\ s = z)
    <3>1. QueuedFor(d, s)' = QueuedFor(d, s) /\ StartedFor(d, s)' = StartedFor(d, s)
      BY <1>3, <2>1, <2>3, DetachCarriers
    <3>2. s \in todo[d] /\ future[d][s] = "none" => d # c
      BY <1>2, <2>1 DEF Sound
    <3> QED BY <1>2, <2>1, <2>3, <3>1, <3>2, SameCarriers DEF Sound
  <2> QED BY <2>2, <2>3
<1>5. ASSUME NEW d \in Caller
      PROVE  /\ got'[d] = "result"  => future'[d][First(todo[d])] = "finished"
             /\ got'[d] = "timeout" => future'[d][First(todo[d])] = "none"
  <2>1. CASE d = c
    BY <1>1, <1>2, <2>1
  <2>2. CASE d # c
    <3>1. future'[d] = future[d]
      BY <2>2 DEF LostInv, TypeOK, TimeOut
    <3> QED BY <1>2, <2>2, <3>1 DEF LostInv, HeldAnswer
  <2> QED BY <2>1, <2>2
<1>6. HeldAnswer'
  BY <1>2, <1>5 DEF HeldAnswer
<1> QED BY <1>4, <1>6 DEF NoLostCheck, Sound

\* A caller whose loop is left by an exception lets go of all its futures.
LEMMA AbortLost ==
  ASSUME NEW c \in Caller, LostInv, Abort(c)
  PROVE  (NoLostCheck /\ HeldAnswer)'
<1>1. /\ todo'[c] = {} /\ got'[c] = "nothing"
      /\ \A s \in Source : future'[c][s] = "none"
      /\ \A d \in Caller \ {c} :
           todo'[d] = todo[d] /\ got'[d] = got[d] /\ future'[d] = future[d]
  BY DEF LostInv, TypeOK, Abort, NoFutures
<1>2. ASSUME NEW d \in Caller, NEW s \in Source PROVE Sound(d, s)'
  <2>1. Sound(d, s) /\ TypeOK
    BY DEF LostInv, NoLostCheck, Sound
  <2>2. CASE d = c
    <3>1. NotCarried(d, s)'
      BY <2>1, <2>2, DetachCarriers DEF Abort
    <3> QED BY <1>1, <2>2, <3>1 DEF Sound
  <2>3. CASE d # c
    <3>1. QueuedFor(d, s)' = QueuedFor(d, s) /\ StartedFor(d, s)' = StartedFor(d, s)
      BY <2>1, <2>3, DetachCarriers DEF Abort
    <3> QED BY <1>1, <2>1, <2>3, <3>1, SameCarriers DEF Sound
  <2> QED BY <2>2, <2>3
<1>3. HeldAnswer'
  BY <1>1 DEF LostInv, HeldAnswer
<1> QED BY <1>2, <1>3 DEF NoLostCheck, Sound

\* The answer a caller comes to hold is that of its first future.
LEMMA AwaitLost ==
  ASSUME NEW c \in Caller, LostInv, Await(c)
  PROVE  (NoLostCheck /\ HeldAnswer)'
<1>1. /\ UNCHANGED <<todo, future, queue, worker>>
      /\ got'[c] = "result" /\ \A d \in Caller \ {c} : got'[d] = got[d]
      /\ got[c] = "nothing" /\ future[c][First(todo[c])] = "finished"
  BY DEF LostInv, TypeOK, Await, Awaiting, Awaited
<1>2. ASSUME NEW d \in Caller, NEW s \in Source PROVE Sound(d, s)'
  <2>1. Sound(d, s)
    BY DEF LostInv, NoLostCheck, Sound
  <2>2. QueuedFor(d, s)' = QueuedFor(d, s) /\ StartedFor(d, s)' = StartedFor(d, s)
    BY <1>1 DEF QueuedFor, StartedFor
  <2> QED BY <1>1, <2>1, <2>2, SameCarriers DEF Sound
<1>3. HeldAnswer'
  BY <1>1 DEF LostInv, HeldAnswer
<1> QED BY <1>2, <1>3 DEF NoLostCheck, Sound

\* A recorded future was no longer carried: that is what HeldAnswer is for.
LEMMA RecordLost ==
  ASSUME NEW c \in Caller, LostInv, Record(c)
  PROVE  (NoLostCheck /\ HeldAnswer)'
<1>1. PICK z \in Source : z = First(todo[c]) /\ z \in todo[c]
  BY FirstIsFirst DEF LostInv, TypeOK, Record
<1>2. /\ UNCHANGED <<queue, worker>>
      /\ todo'[c] = todo[c] \ {z}
      /\ got'[c] = "nothing"
      /\ future'[c][z] = "none"
      /\ \A s \in Source : s # z => future'[c][s] = future[c][s]
      /\ \A d \in Caller \ {c} :
           todo'[d] = todo[d] /\ got'[d] = got[d] /\ future'[d] = future[d]
  BY <1>1 DEF LostInv, TypeOK, Record
<1>3. future[c][z] # "pending"
  BY <1>1 DEF LostInv, TypeOK, HeldAnswer, Record
<1>4. ASSUME NEW d \in Caller, NEW s \in Source PROVE Sound(d, s)'
  <2>1. Sound(d, s)
    BY DEF LostInv, NoLostCheck, Sound
  <2>2. QueuedFor(d, s)' = QueuedFor(d, s) /\ StartedFor(d, s)' = StartedFor(d, s)
    BY <1>2 DEF QueuedFor, StartedFor
  <2>3. CASE d # c
    BY <1>2, <2>1, <2>2, <2>3, SameCarriers DEF Sound
  <2>4. CASE d = c /\ s = z
    BY <1>2, <1>3, <2>1, <2>2, <2>4, SameCarriers DEF Sound
  <2>5. CASE d = c /\ s # z
    BY <1>1, <1>2, <2>1, <2>2, <2>5, SameCarriers DEF Sound
  <2> QED BY <2>3, <2>4, <2>5
<1>5. HeldAnswer'
  BY <1>2 DEF LostInv, HeldAnswer
<1> QED BY <1>4, <1>5 DEF NoLostCheck, Sound

\* Shutdown cancels the futures of the tasks it drops, and those only.
LEMMA CloseLost ==
  ASSUME LostInv, Close
  PROVE  (NoLostCheck /\ HeldAnswer)'
<1>1. /\ UNCHANGED <<todo, got, worker>>
      /\ queue' = <<>>
      /\ \A c \in Caller, s \in Source :
           future'[c][s] = IF QueuedFor(c, s) # {} THEN "cancelled" ELSE future[c][s]
  BY DEF Close, QueuedFor, Carries
<1>2. ASSUME NEW c \in Caller, NEW s \in Source PROVE Sound(c, s)'
  <2>1. Sound(c, s)
    BY DEF LostInv, NoLostCheck, Sound
  <2>2. QueuedFor(c, s)' = {} /\ StartedFor(c, s)' = StartedFor(c, s)
    BY <1>1 DEF QueuedFor, StartedFor
  <2>3. CASE QueuedFor(c, s) # {}
    <3>1. future[c][s] = "pending" /\ StartedFor(c, s) = {}
      BY <2>1, <2>3 DEF Sound, NotCarried, CarriedOnce
    <3> QED BY <1>1, <2>1, <2>2, <2>3, <3>1 DEF Sound, NotCarried
  <2>4. CASE QueuedFor(c, s) = {}
    BY <1>1, <2>1, <2>2, <2>4, SameCarriers DEF Sound
  <2> QED BY <2>3, <2>4
<1>3. ASSUME NEW c \in Caller, got[c] # "nothing"
      PROVE  future'[c][First(todo[c])] = future[c][First(todo[c])]
  <2>1. First(todo[c]) \in Source
    BY <1>3, FirstIsFirst DEF LostInv, TypeOK
  <2>2. future[c][First(todo[c])] # "pending"
    BY <1>3 DEF LostInv, TypeOK, HeldAnswer
  <2>3. QueuedFor(c, First(todo[c])) = {}
    BY <2>1, <2>2 DEF LostInv, NoLostCheck, NotCarried
  <2> QED BY <1>1, <2>1, <2>3
<1>4. HeldAnswer'
  BY <1>1, <1>3 DEF LostInv, HeldAnswer
<1> QED BY <1>2, <1>4 DEF NoLostCheck, Sound

\* Each step keeps the invariant: one case per action.
LEMMA LostStep == LostInv /\ [Next]_vars => LostInv'
<1> SUFFICES ASSUME LostInv, [Next]_vars PROVE (NoLostCheck /\ HeldAnswer)'
  BY TypeStep DEF LostInv
<1>1. CASE InitialSync \/ InitialSyncFails \/ Tick \/ InitialSweep
  BY <1>1, LostFrame DEF pool, InitialSync, InitialSyncFails, Tick, InitialSweep, LostInv
<1>2. ASSUME NEW c \in Sweeper, Scanning(c) PROVE (NoLostCheck /\ HeldAnswer)'
  <2>1. CASE ReadDue(c) \/ ReadFails(c) \/ NothingDue(c) \/ SubmitRaises(c)
    BY <2>1, LostFrame DEF pool, ReadDue, ReadFails, NothingDue, SubmitRaises, LostInv
  <2>2. CASE SubmitDue(c)
    <3>1. scan[c].due \in SUBSET Source
      BY <2>2 DEF SubmitDue, Scanned, Scan, LostInv, TypeOK
    <3> QED BY <2>2, <3>1, SubmitLost DEF SubmitDue, Submit
  <2> QED BY <1>2, <2>1, <2>2 DEF Scanning
<1>3. ASSUME NEW c \in Api, Request(c) PROVE (NoLostCheck /\ HeldAnswer)'
  <2>1. CASE AdminSync(c)
    BY <2>1, LostFrame DEF pool, AdminSync, LostInv
  <2>2. CASE RefreshAll(c)
    BY <2>2, SubmitLost DEF RefreshAll, Submit, LostInv, TypeOK
  <2>3. ASSUME NEW s \in Source, CheckSource(c, s) PROVE (NoLostCheck /\ HeldAnswer)'
    BY <2>3, SubmitLost DEF CheckSource, Submit
  <2> QED BY <1>3, <2>1, <2>2, <2>3 DEF Request
<1>4. ASSUME NEW w \in Worker, Work(w) PROVE (NoLostCheck /\ HeldAnswer)'
  <2>1. CASE Take(w)
    BY <2>1, TakeLost
  <2>2. ASSUME NEW phase \in {"loading", "running"}, worker[w] # None,
               worker' = [worker EXCEPT ![w].phase = phase],
               UNCHANGED <<todo, got, future, queue>>
        PROVE  (NoLostCheck /\ HeldAnswer)'
    <3>1. worker[w] \in Started
      BY <2>2 DEF LostInv, TypeOK
    <3>2. [worker[w] EXCEPT !.phase = phase] \in Started
      BY <3>1 DEF Started, Task
    <3>3. worker'[w] # None
      BY <2>2, <3>2, NoneAssumption DEF LostInv, TypeOK
    <3> QED BY <2>2, <3>3, PhaseLost
  <2>3. CASE AcquireLoad(w)
    BY <2>3, <2>2 DEF AcquireLoad, OnWorker
  <2>4. CASE Loaded(w)
    BY <2>4, <2>2 DEF Loaded, OnWorker
  <2>5. CASE SetUpRaises(w) \/ LoadFails(w) \/ RunEnds(w)
    BY <2>5, FinishLost DEF SetUpRaises, LoadFails, RunEnds, OnWorker
  <2> QED BY <1>4, <2>1, <2>3, <2>4, <2>5 DEF Work
<1>5. ASSUME NEW c \in Caller, Continue(c) PROVE (NoLostCheck /\ HeldAnswer)'
  BY <1>5, AwaitLost, TimeOutLost, RecordLost, AbortLost
     DEF Continue, AwaitRaises, RecordFails
<1>6. CASE Environment
  <2>1. ASSUME NEW s \in Source, Elapse(s) PROVE (NoLostCheck /\ HeldAnswer)'
    BY <2>1, LostFrame DEF Elapse, process, pool, LostInv
  <2>2. CASE Close
    BY <2>2, CloseLost
  <2>3. CASE Exit \/ Crash
    BY <2>3, BootLost DEF Exit, Crash
  <2> QED BY <1>6, <2>1, <2>2, <2>3 DEF Environment
<1>7. CASE UNCHANGED vars
  BY <1>7, LostFrame DEF vars, process, pool, LostInv
<1> QED BY <1>1, <1>2, <1>3, <1>4, <1>5, <1>6, <1>7 DEF Next

(***************************************************************************)
(* service.py:73-104, main.py:57-61: no caller waits for a check that     *)
(* nobody will complete, no check answers twice, and no late answer        *)
(* reaches the wrong wait, for every number of workers, callers and        *)
(* sources and whatever plugins, the store, shutdown and crashes do.       *)
(***************************************************************************)
THEOREM NoLostCheckHolds == Spec => []NoLostCheck
<1>1. Init => LostInv
  BY TypeInit, LostInit DEF LostInv
<1>2. LostInv => NoLostCheck
  BY DEF LostInv
<1> QED BY <1>1, <1>2, LostStep, PTL DEF Spec

-----------------------------------------------------------------------------
(***************************************************************************)
(* Shutdown.  That a worker begins nothing while the service closes, and   *)
(* that a late timeout queues nothing, both need the queue to be empty: it *)
(* is emptied by close(), and nothing is submitted until the next boot.    *)
(***************************************************************************)
ClosedQueue == up = "closing" => queue = <<>>

\* What a closing step may not do, of one pair of states.
OnlyLoses ==
  /\ queue' = <<>>
  /\ \A w \in Worker : worker'[w] # None =>
       worker[w] # None /\ worker'[w].source = worker[w].source
  /\ \A c \in Caller : todo'[c] \subseteq todo[c]

\* A caller that stops waiting changes who owns the tasks, not what they are.
LEMMA DetachOnlyLoses ==
  ASSUME NEW c \in Caller, NEW S, TypeOK, queue = <<>>, Detach(c, S),
         \A d \in Caller : todo'[d] \subseteq todo[d]
  PROVE  OnlyLoses
BY DetachType DEF TypeOK, OnlyLoses

\* Each step that begins and ends closing: one case per action.
LEMMA ClosingStep ==
  ASSUME TypeOK, ClosedQueue, Next, up = "closing", up' = "closing"
  PROVE  OnlyLoses
<1>1. queue = <<>>
  BY DEF ClosedQueue
<1>2. ASSUME UNCHANGED pool PROVE OnlyLoses
  BY <1>1, <1>2 DEF pool, OnlyLoses
<1>3. CASE InitialSync \/ InitialSyncFails \/ Tick \/ InitialSweep
  BY <1>2, <1>3 DEF InitialSync, InitialSyncFails, Tick, InitialSweep
<1>4. ASSUME NEW c \in Sweeper, Scanning(c) PROVE OnlyLoses
  BY <1>2, <1>4 DEF Scanning, ReadDue, ReadFails, NothingDue, SubmitRaises, SubmitDue, Submit
<1>5. ASSUME NEW c \in Api, Request(c) PROVE OnlyLoses
  BY <1>5 DEF Request, AdminSync, RefreshAll, CheckSource, Submit
<1>6. ASSUME NEW w \in Worker, Work(w) PROVE OnlyLoses
  <2>1. UNCHANGED todo /\ queue' = <<>>
    BY <1>1, <1>6 DEF Work, Take, SetUpRaises, AcquireLoad, Loaded, LoadFails, RunEnds, Finish
  <2>2. ~Take(w)
    BY <1>1 DEF Take
  <2>3. \A u \in Worker \ {w} : worker'[u] = worker[u]
    BY <1>6, <2>2 DEF TypeOK, Work, SetUpRaises, AcquireLoad, Loaded, LoadFails, RunEnds, Finish
  <2>4. CASE AcquireLoad(w) \/ Loaded(w)
    <3>1. worker[w] # None /\ worker[w] \in Started
      BY <2>4 DEF AcquireLoad, Loaded, OnWorker, TypeOK
    <3>2. worker'[w].source = worker[w].source
      BY <2>4, <3>1 DEF AcquireLoad, Loaded, TypeOK, Started, Task
    <3> QED BY <2>1, <2>3, <3>1, <3>2 DEF OnlyLoses
  <2>5. CASE SetUpRaises(w) \/ LoadFails(w) \/ RunEnds(w)
    <3>1. worker'[w] = None
      BY <2>5 DEF SetUpRaises, LoadFails, RunEnds, Finish, TypeOK
    <3> QED BY <2>1, <2>3, <3>1 DEF OnlyLoses
  <2> QED BY <1>6, <2>2, <2>4, <2>5 DEF Work
<1>7. ASSUME NEW c \in Caller, Continue(c) PROVE OnlyLoses
  <2>1. \A d \in Caller : todo'[d] \subseteq todo[d]
    BY <1>7 DEF TypeOK, Continue, Await, TimeOut, AwaitRaises, Record, RecordFails, Abort
  <2>2. CASE Await(c) \/ Record(c)
    BY <1>1, <2>1, <2>2 DEF Await, Record, OnlyLoses
  <2>3. CASE TimeOut(c)
    BY <1>1, <2>1, <2>3, DetachOnlyLoses DEF TimeOut
  <2>4. CASE AwaitRaises(c) \/ RecordFails(c)
    BY <1>1, <2>1, <2>4, DetachOnlyLoses DEF AwaitRaises, RecordFails, Abort
  <2> QED BY <1>7, <2>2, <2>3, <2>4 DEF Continue
<1>8. CASE Environment
  <2>1. ASSUME NEW s \in Source, Elapse(s) PROVE OnlyLoses
    BY <1>2, <2>1 DEF Elapse, process
  <2>2. ~Close /\ ~Exit /\ ~Crash
    BY DEF Close, Exit, Crash, Boot
  <2> QED BY <1>8, <2>1, <2>2 DEF Environment
<1> QED BY <1>3, <1>4, <1>5, <1>6, <1>7, <1>8 DEF Next

\* close() empties the queue; while closing, nothing fills it.
LEMMA ClosedQueueStep == TypeOK /\ ClosedQueue /\ [Next]_vars => ClosedQueue'
<1> SUFFICES ASSUME TypeOK, ClosedQueue, [Next]_vars, up' = "closing" PROVE queue' = <<>>
  BY DEF ClosedQueue
<1>1. CASE UNCHANGED vars
  BY <1>1 DEF vars, process, pool, ClosedQueue
<1>2. CASE Next /\ up = "closing"
  BY <1>2, ClosingStep DEF OnlyLoses
<1>3. CASE Next /\ up = "up"
  <2>1. Close
    BY <1>3 DEF Next, InitialSync, InitialSyncFails, Tick, InitialSweep,
                Scanning, ReadDue, ReadFails, NothingDue, SubmitDue, SubmitRaises,
                Request, AdminSync, RefreshAll, CheckSource, Submit, Enqueue,
                Work, Take, SetUpRaises, AcquireLoad, Loaded, LoadFails, RunEnds, Finish,
                Continue, Await, TimeOut, AwaitRaises, Record, RecordFails, Abort,
                Environment, Elapse, Exit, Crash, Boot
  <2> QED BY <2>1 DEF Close
<1> QED BY <1>1, <1>2, <1>3 DEF TypeOK

(***************************************************************************)
(* service.py:144-145, main.py:57-61: from the moment close() has run      *)
(* until the process is gone, work only drains: however many sweeps and    *)
(* threads are in flight, nothing is queued, no worker begins another      *)
(* check and no caller comes to await more.                                *)
(***************************************************************************)
THEOREM ClosingStartsNothingHolds == Spec => ClosingStartsNothing
<1>1. Init => ClosedQueue
  BY DEF Init, ClosedQueue
<1>2. ASSUME TypeOK, ClosedQueue, [Next]_vars
      PROVE  [up = "closing" /\ up' = "closing" =>
                /\ queue' = <<>>
                /\ \A w \in Worker : worker'[w] # None =>
                     worker[w] # None /\ worker'[w].source = worker[w].source
                /\ \A c \in Caller : todo'[c] \subseteq todo[c]]_vars
  BY <1>2, ClosingStep DEF OnlyLoses
<1> QED BY <1>1, <1>2, ClosedQueueStep, TypeInit, TypeStep, PTL DEF Spec, ClosingStartsNothing

-----------------------------------------------------------------------------
(***************************************************************************)
(* The contract.                                                           *)
(***************************************************************************)
\* What each kind of step is to the contract.
LEMMA EnqueueAsks ==
  ASSUME NEW c \in Caller, NEW refs \in SUBSET Source, Enqueue(c, refs)
  PROVE  Contract!Next
BY DEF Enqueue, Contract!Next, Contract!Ask

LEMMA AbortGivesUp ==
  ASSUME NEW c \in Caller, Abort(c)
  PROVE  Contract!Next
BY DEF Abort, Contract!Next, Contract!GiveUp

LEMMA BootRestarts == Boot => Contract!Next
BY DEF Boot, NoTodo, Contract!Next, Contract!Restart, Contract!Nobody

\* The source that is recorded is the least of those asked for.
LEMMA RecordIsAnswer ==
  ASSUME NEW c \in Caller, TypeOK, Record(c)
  PROVE  Contract!Next
<1>1. todo[c] \in SUBSET Source /\ todo[c] # {}
  BY DEF TypeOK, Record
<1>2. PICK s \in todo[c] : s = First(todo[c]) /\ \A t \in todo[c] : s <= t
  BY <1>1, FirstIsFirst
<1>3. Contract!Answer(c, s)
  BY <1>2 DEF Record, Contract!Answer
<1> QED BY <1>1, <1>3 DEF Contract!Next

LEMMA ContractStep ==
  ASSUME TypeOK, [Next]_vars
  PROVE  [Contract!Next]_<<todo, due>>
<1>1. CASE InitialSync \/ InitialSyncFails \/ Tick \/ InitialSweep
  BY <1>1 DEF pool, InitialSync, InitialSyncFails, Tick, InitialSweep
<1>2. ASSUME NEW c \in Sweeper, Scanning(c) PROVE [Contract!Next]_<<todo, due>>
  <2>1. CASE ReadDue(c) \/ ReadFails(c) \/ NothingDue(c) \/ SubmitRaises(c)
    BY <2>1 DEF pool, ReadDue, ReadFails, NothingDue, SubmitRaises
  <2>2. CASE SubmitDue(c)
    <3>1. scan[c].due \in SUBSET Source
      BY <2>2 DEF SubmitDue, Scanned, Scan, TypeOK
    <3> QED BY <2>2, <3>1, EnqueueAsks DEF SubmitDue, Submit
  <2> QED BY <1>2, <2>1, <2>2 DEF Scanning
<1>3. ASSUME NEW c \in Api, Request(c) PROVE [Contract!Next]_<<todo, due>>
  <2>1. CASE AdminSync(c)
    BY <2>1 DEF pool, AdminSync
  <2>2. CASE RefreshAll(c)
    BY <2>2, EnqueueAsks DEF RefreshAll, Submit, TypeOK
  <2>3. ASSUME NEW s \in Source, CheckSource(c, s) PROVE Contract!Next
    BY <2>3, EnqueueAsks DEF CheckSource, Submit
  <2> QED BY <1>3, <2>1, <2>2, <2>3 DEF Request
<1>4. ASSUME NEW w \in Worker, Work(w) PROVE [Contract!Next]_<<todo, due>>
  BY <1>4 DEF Work, Take, SetUpRaises, AcquireLoad, Loaded, LoadFails, RunEnds, Finish
<1>5. ASSUME NEW c \in Caller, Continue(c) PROVE [Contract!Next]_<<todo, due>>
  <2>1. CASE Await(c) \/ TimeOut(c)
    BY <2>1 DEF Await, TimeOut
  <2>2. CASE AwaitRaises(c) \/ RecordFails(c)
    BY <2>2, AbortGivesUp DEF AwaitRaises, RecordFails
  <2>3. CASE Record(c)
    BY <2>3, RecordIsAnswer
  <2> QED BY <1>5, <2>1, <2>2, <2>3 DEF Continue
<1>6. CASE Environment
  <2>1. ASSUME NEW s \in Source, Elapse(s) PROVE Contract!Next
    BY <2>1 DEF Elapse, process, pool, Contract!Next, Contract!Elapse
  <2>2. CASE Close
    BY <2>2 DEF Close
  <2>3. CASE Exit \/ Crash
    BY <2>3, BootRestarts DEF Exit, Crash
  <2> QED BY <1>6, <2>1, <2>2, <2>3 DEF Environment
<1>7. CASE UNCHANGED vars
  BY <1>7 DEF vars, process, pool
<1> QED BY <1>1, <1>2, <1>3, <1>4, <1>5, <1>6, <1>7 DEF Next

(***************************************************************************)
(* service.py:73-104: for every number of workers, callers and sources,    *)
(* and whatever plugins, the store, shutdown and crashes do, callers are   *)
(* answered in key order and only an answer makes a source not due.        *)
(***************************************************************************)
THEOREM ImplementsContract == Spec => ContractSpec
<1>1. Init => Contract!Init
  BY DEF Init, NoTodo, Contract!Init, Contract!Nobody
<1> QED BY <1>1, TypeCorrect, ContractStep, PTL DEF Spec, ContractSpec, Contract!Spec

-----------------------------------------------------------------------------
(***************************************************************************)
(* The phases of a check.                                                  *)
(***************************************************************************)
phases == [w \in Worker |-> Phase(w)]

LEMMA SamePhases ==
  ASSUME \A w \in Worker : Phase(w)' = Phase(w)
  PROVE  phases' = phases
BY DEF phases

\* One worker goes on and the others stay where they are.
LEMMA PhaseGoes ==
  ASSUME NEW w \in Worker, NEW from, NEW to, Phase(w) = from, Phase(w)' = to,
         \A u \in Worker \ {w} : Phase(u)' = Phase(u)
  PROVE  Phases!Goes(w, from, to)
<1>1. [u \in Worker |-> Phase(u)]' = [[u \in Worker |-> Phase(u)] EXCEPT ![w] = to]
  OBVIOUS
<1>2. [u \in Worker |-> Phase(u)][w] = from
  OBVIOUS
<1> QED BY <1>1, <1>2 DEF Phases!Goes

LEMMA BootPhases == Boot => Phases!Restart
BY DEF Boot, IdlePool, Phase, Phases!Restart, Phases!AllIdle

\* A worker's own step is one of its check's.
LEMMA WorkPhases ==
  ASSUME TypeOK, NEW w \in Worker, Work(w)
  PROVE  Phases!Next
<1>1. \A u \in Worker \ {w} : Phase(u)' = Phase(u)
  BY DEF TypeOK, Work, Take, SetUpRaises, AcquireLoad, Loaded, LoadFails, RunEnds, Finish, Phase
<1>2. ASSUME worker'[w] \in Started PROVE Phase(w)' = worker'[w].phase
  BY <1>2, NoneAssumption DEF Phase
<1>3. CASE Take(w)
  <2>1. Head(queue) \in Queued
    BY <1>3, HeadTailProperties DEF Take, TypeOK
  <2>2. /\ [Head(queue) EXCEPT !.phase = "waiting"] \in Started
        /\ [Head(queue) EXCEPT !.phase = "waiting"].phase = "waiting"
    BY <2>1 DEF Queued, Started, Task
  <2>3. Phase(w) = "idle" /\ Phase(w)' = "waiting"
    BY <1>2, <1>3, <2>2 DEF Take, Phase, TypeOK
  <2>4. Phases!Begin(w)
    BY <1>1, <2>3, PhaseGoes DEF Phases!Begin
  <2> QED BY <2>4 DEF Phases!Next
<1>4. CASE AcquireLoad(w)
  <2>1. worker[w] \in Started /\ Phase(w) = "waiting"
    BY <1>4 DEF AcquireLoad, OnWorker, TypeOK, Phase
  <2>2. /\ [worker[w] EXCEPT !.phase = "loading"] \in Started
        /\ [worker[w] EXCEPT !.phase = "loading"].phase = "loading"
    BY <2>1 DEF Started, Task
  <2>3. Phase(w)' = "loading"
    BY <1>2, <1>4, <2>2 DEF AcquireLoad, TypeOK
  <2>4. \A u \in Worker : [v \in Worker |-> Phase(v)][u] # "loading"
    BY <1>4 DEF AcquireLoad, LoadLockFree, OnWorker, Phase
  <2>5. Phases!Acquire(w)
    BY <1>1, <2>1, <2>3, <2>4, PhaseGoes DEF Phases!Acquire
  <2> QED BY <2>5 DEF Phases!Next
<1>5. CASE Loaded(w)
  <2>1. worker[w] \in Started /\ Phase(w) = "loading"
    BY <1>5 DEF Loaded, OnWorker, TypeOK, Phase
  <2>2. /\ [worker[w] EXCEPT !.phase = "running"] \in Started
        /\ [worker[w] EXCEPT !.phase = "running"].phase = "running"
    BY <2>1 DEF Started, Task
  <2>3. Phase(w)' = "running"
    BY <1>2, <1>5, <2>2 DEF Loaded, TypeOK
  <2>4. Phases!Release(w)
    BY <1>1, <2>1, <2>3, PhaseGoes DEF Phases!Release
  <2> QED BY <2>4 DEF Phases!Next
<1>6. ASSUME SetUpRaises(w) \/ LoadFails(w) \/ RunEnds(w) PROVE Phase(w)' = "idle"
  BY <1>6 DEF SetUpRaises, LoadFails, RunEnds, Finish, TypeOK, Phase
<1>7. CASE LoadFails(w)
  <2>1. Phase(w) = "loading"
    BY <1>7 DEF LoadFails, OnWorker, Phase
  <2>2. Phases!Release(w)
    BY <1>1, <1>6, <1>7, <2>1, PhaseGoes DEF Phases!Release
  <2> QED BY <2>2 DEF Phases!Next
<1>8. CASE RunEnds(w)
  <2>1. Phase(w) = "running"
    BY <1>8 DEF RunEnds, OnWorker, Phase
  <2>2. Phases!End(w)
    BY <1>1, <1>6, <1>8, <2>1, PhaseGoes DEF Phases!End
  <2> QED BY <2>2 DEF Phases!Next
<1>9. CASE SetUpRaises(w)
  <2>1. Phase(w) = "waiting"
    BY <1>9 DEF SetUpRaises, OnWorker, Phase
  <2>2. Phases!Drop(w)
    BY <1>1, <1>6, <1>9, <2>1, PhaseGoes DEF Phases!Drop
  <2> QED BY <2>2 DEF Phases!Next
<1> QED BY <1>3, <1>4, <1>5, <1>7, <1>8, <1>9 DEF Work

LEMMA PhasesStep ==
  ASSUME TypeOK, [Next]_vars
  PROVE  Phases!Next \/ phases' = phases
<1>1. ASSUME UNCHANGED worker PROVE phases' = phases
  BY <1>1, SamePhases DEF Phase
<1>2. ASSUME NEW c, NEW S, Detach(c, S) PROVE phases' = phases
  BY <1>2, DetachType, SamePhases DEF TypeOK, Phase
<1>3. CASE \/ InitialSync \/ InitialSyncFails \/ Tick \/ InitialSweep
           \/ \E c \in Sweeper : Scanning(c)
           \/ \E c \in Api : Request(c)
  <2>1. UNCHANGED worker
    BY <1>3 DEF pool, InitialSync, InitialSyncFails, Tick, InitialSweep, Scanning,
                ReadDue, ReadFails, NothingDue, SubmitDue, SubmitRaises,
                Request, AdminSync, RefreshAll, CheckSource, Submit, Enqueue
  <2> QED BY <2>1, <1>1
<1>4. ASSUME NEW w \in Worker, Work(w) PROVE Phases!Next
  BY <1>4, WorkPhases
<1>5. ASSUME NEW c \in Caller, Continue(c) PROVE phases' = phases
  <2>1. CASE Await(c) \/ Record(c)
    BY <2>1, <1>1 DEF Await, Record
  <2>2. CASE TimeOut(c)
    BY <2>2, <1>2 DEF TimeOut
  <2>3. CASE AwaitRaises(c) \/ RecordFails(c)
    BY <2>3, <1>2 DEF AwaitRaises, RecordFails, Abort
  <2> QED BY <1>5, <2>1, <2>2, <2>3 DEF Continue
<1>6. CASE Environment
  <2>1. ASSUME NEW s \in Source, Elapse(s) PROVE phases' = phases
    BY <1>1, <2>1 DEF Elapse, process, pool
  <2>2. CASE Close
    BY <1>1, <2>2 DEF Close
  <2>3. CASE Exit \/ Crash
    BY <2>3, BootPhases DEF Exit, Crash, Phases!Next
  <2> QED BY <1>6, <2>1, <2>2, <2>3 DEF Environment
<1>7. CASE UNCHANGED vars
  BY <1>1, <1>7 DEF vars, process, pool
<1> QED BY <1>3, <1>4, <1>5, <1>6, <1>7 DEF Next

(***************************************************************************)
(* checker/runner.py:96-110, checker/loader.py:388-399: for every number   *)
(* of workers and callers, a check goes through its phases one by one and  *)
(* holds the lock alone, whatever becomes of the caller that asked for it. *)
(***************************************************************************)
THEOREM ImplementsPhases == Spec => PhasesSpec
<1>1. Init => Phases!Init
  BY DEF Init, IdlePool, Phase, Phases!Init, Phases!AllIdle
<1>2. ASSUME TypeOK, [Next]_vars PROVE [Phases!Next]_[w \in Worker |-> Phase(w)]
  BY <1>2, PhasesStep DEF phases
<1> QED BY <1>1, <1>2, TypeCorrect, PTL DEF Spec, PhasesSpec, Phases!Spec
=============================================================================
