-------------------------- MODULE PluginLoaderProofs --------------------------
(***************************************************************************)
(* Theorems about PluginLoader, for any repositories, plugins, workers and *)
(* names: sys.path between and during loads, what a load leaves in         *)
(* sys.modules, and where foreign modules come from.                       *)
(***************************************************************************)
EXTENDS PluginLoader, FiniteSetTheorems, WellFoundedInduction, TLAPS

-----------------------------------------------------------------------------
(***************************************************************************)
(* Sequences.                                                              *)
(***************************************************************************)
LEMMA MembersAtType ==
  ASSUME NEW T, NEW q \in Seq(T), NEW K \in SUBSET DOMAIN q, NEW m \in MembersAt(q, K)
  PROVE  /\ m \in Seq(T)
         /\ \A i \in DOMAIN m : \E k \in K : m[i] = q[k]
<1>1. IsFiniteSet(DOMAIN q)
  BY FS_Interval
<1>2. Cardinality(K) \in Nat
  BY <1>1, FS_Subset, FS_CardinalityType
<1>3. PICK f \in [1..Cardinality(K) -> K] : m = [i \in DOMAIN f |-> q[f[i]]]
  BY DEF MembersAt, Increasing
<1>4. DOMAIN m = 1..Cardinality(K) /\ \A i \in DOMAIN m : m[i] = q[f[i]] /\ f[i] \in K
  BY <1>3
<1>5. m \in [1..Cardinality(K) -> T]
  BY <1>3, <1>4
<1> QED BY <1>2, <1>4, <1>5

LEMMA HeadTail ==
  ASSUME NEW T, NEW q \in Seq(T), q # <<>>
  PROVE  /\ Head(q) \in T /\ Tail(q) \in Seq(T)
         /\ \E i \in DOMAIN q : Head(q) = q[i]
         /\ \A k \in DOMAIN Tail(q) : \E i \in DOMAIN q : Tail(q)[k] = q[i]
<1>1. Head(q) = q[1] /\ 1 \in DOMAIN q
  OBVIOUS
<1>2. \A k \in DOMAIN Tail(q) : k + 1 \in DOMAIN q /\ Tail(q)[k] = q[k + 1]
  OBVIOUS
<1> QED BY <1>1, <1>2

LEMMA ReverseType ==
  ASSUME NEW T, NEW q \in Seq(T)
  PROVE  Reverse(q) \in Seq(T) /\ \A i \in DOMAIN Reverse(q) : Reverse(q)[i] \in ToSet(q)
<1>1. Reverse(q) = [i \in 1..Len(q) |-> q[(Len(q) - i) + 1]]
  BY DEF Reverse
<1>2. \A i \in 1..Len(q) : (Len(q) - i) + 1 \in 1..Len(q)
  OBVIOUS
<1> QED BY <1>1, <1>2 DEF ToSet

\* An import finds its name in a directory that it searches.
LEMMA FoundInSearch ==
  ASSUME NEW n, Search(n) \in Seq(Dir), Importable(n)
  PROVE  \E i \in DOMAIN Search(n) : n \in Provides[Search(n)[i]] /\ FoundDir(n) = Search(n)[i]
<1>1. Providers(n) \subseteq Nat /\ Providers(n) # {}
  BY DEF Providers, Importable
<1>2. PICK x \in Providers(n) : \A y \in Providers(n) : ~ (<<y, x>> \in OpToRel(<, Nat))
  BY <1>1, WFMin, NatLessThanWellFounded
<1>3. ASSUME NEW y \in Providers(n) PROVE x <= y
  <2>1. x \in Nat /\ y \in Nat
    BY <1>1
  <2>2. <<y, x>> \in Nat \X Nat /\ <<y, x>>[1] = y /\ <<y, x>>[2] = x
    BY <2>1
  <2>3. <<y, x>> \notin {ss \in Nat \X Nat : ss[1] < ss[2]}
    BY <1>2 DEF OpToRel
  <2> QED BY <2>1, <2>2, <2>3
<1>4. PICK i : i \in Providers(n) /\ FoundDir(n) = Search(n)[i]
  BY <1>3 DEF FoundDir
<1> QED BY <1>4 DEF Providers

-----------------------------------------------------------------------------
(***************************************************************************)
(* The inductive invariant.                                                *)
(***************************************************************************)
\* The lock is held by the worker that is inside a load.
Inside(w) == pc[w] \in {"trying", "importing", "restoring", "purging", "leaving"}

LockInv == \A w \in Worker : Inside(w) <=> lock = w

\* sys.path has what the holder of the lock added, until it restores it.
PathInv ==
  /\ \A i \in DOMAIN path :
       lock # None /\ pc[lock] \notin {"purging", "leaving"} /\ path[i] \in load[lock].added
  /\ \A w \in Worker : load[w] # None =>
       \A d \in load[w].added : Owner[d] = RepoOf[load[w].plugin]

\* What is late is below a package that some check imports; what is not is of
\* the repository whose load brings it in.
LateInv(n, module) == ImportedLate(Top[n]) /\ n \in Provides[module.dir]

\* An import under way is of a name nobody else imports and nobody has cached.
FindInv ==
  \A w \in Worker : found[w] # None =>
    /\ pc[w] \in {"importing", "checking"}
    /\ pc[w] = "importing" => load[w].todo # <<>> /\ found[w].name = Head(load[w].todo)
    /\ IF found[w].late THEN LateInv(found[w].name, found[w])
       ELSE pc[w] = "importing" /\ Owner[found[w].dir] = RepoOf[load[w].plugin]
    /\ modules[found[w].name] = None
    /\ \A u \in Worker \ {w} : found[u] # None => found[u].name # found[w].name

\* A module that is not late is new, of the repository of the load that is
\* inside the lock, and this load has yet to purge it.
FreshModule(n) ==
  /\ lock # None /\ pc[lock] # "leaving"
  /\ n \notin load[lock].before
  /\ Owner[modules[n].dir] = RepoOf[load[lock].plugin]

ModuleInv ==
  /\ \A n \in Name : modules[n] # None =>
       IF modules[n].late THEN LateInv(n, modules[n]) ELSE FreshModule(n)
  /\ lock # None => \A n \in load[lock].before : modules[n] # None /\ modules[n].late

\* What is being imported belongs to one of the attempts, and what has been was
\* not there before.
AttemptInv ==
  \A w \in Worker : pc[w] = "importing" =>
    /\ load[w].attempt \in DOMAIN Attempts[load[w].plugin]
    /\ load[w].brought \cap load[w].before = {}

SeenInv ==
  \A w \in Worker : load[w] # None => \A u \in Foreign(w) :
    u.module.late /\ ImportedLate(Top[u.name])

LoadInv == LockInv /\ PathInv /\ FindInv /\ ModuleInv /\ AttemptInv /\ SeenInv

IInv == TypeOK /\ LoadInv

LEMMA IInvInit == Init => IInv
<1> SUFFICES ASSUME Init PROVE IInv
  OBVIOUS
<1>1. TypeOK
  BY PluginAssumption DEF Init, TypeOK, Stages
<1>2. LoadInv
  BY PluginAssumption DEF Init, LoadInv, LockInv, Inside, PathInv, FindInv, ModuleInv, AttemptInv,
                SeenInv
<1> QED BY <1>1, <1>2 DEF IInv

\* What the steps of a load make of its locals.
LEMMA LoadRecord ==
  ASSUME NEW j \in Load
  PROVE  /\ \A before \in SUBSET Name, added \in SUBSET Dir :
              [j EXCEPT !.before = before, !.added = added] \in Load
         /\ \A attempt \in Nat, todo \in Seq(Name) : [j EXCEPT !.attempt = attempt, !.todo = todo] \in Load
         /\ \A todo \in Seq(Name), brought \in SUBSET Name :
              [j EXCEPT !.todo = todo, !.brought = brought] \in Load
         /\ \A attempt \in Nat, classes \in BOOLEAN :
              [j EXCEPT !.attempt = attempt, !.classes = classes] \in Load
         /\ \A ok \in BOOLEAN : [j EXCEPT !.loaded = ok] \in Load
         /\ \A todo \in Seq(Name), brought \in SUBSET Name,
               seen \in SUBSET [name : Name, module : Module] :
              [j EXCEPT !.todo = todo, !.brought = brought, !.seen = seen] \in Load
<1> DEFINE Names == Seq(Name)
           Seen  == SUBSET [name : Name, module : Module]
<1>1. Load = [plugin : Plugin, before : SUBSET Name, added : SUBSET Dir, attempt : Nat,
              todo : Names, brought : SUBSET Name, classes : BOOLEAN, loaded : BOOLEAN, seen : Seen]
  BY DEF Load
<1> HIDE DEF Names, Seen
<1>2. \A before \in SUBSET Name, added \in SUBSET Dir :
        [j EXCEPT !.before = before, !.added = added] \in Load
  BY <1>1
<1>3. \A attempt \in Nat, todo \in Names : [j EXCEPT !.attempt = attempt, !.todo = todo] \in Load
  BY <1>1
<1>4. \A todo \in Names, brought \in SUBSET Name : [j EXCEPT !.todo = todo, !.brought = brought] \in Load
  BY <1>1
<1>5. \A attempt \in Nat, classes \in BOOLEAN :
        [j EXCEPT !.attempt = attempt, !.classes = classes] \in Load
  BY <1>1
<1>6. \A ok \in BOOLEAN : [j EXCEPT !.loaded = ok] \in Load
  BY <1>1
<1>7. \A todo \in Names, brought \in SUBSET Name, seen \in Seen :
        [j EXCEPT !.todo = todo, !.brought = brought, !.seen = seen] \in Load
  BY <1>1
<1> QED BY <1>2, <1>3, <1>4, <1>5, <1>6, <1>7 DEF Names, Seen

-----------------------------------------------------------------------------
(***************************************************************************)
(* Every step keeps it.  First the steps that end or begin nothing shared. *)
(***************************************************************************)
LEMMA StartStep ==
  ASSUME IInv, NEW w \in Worker, NEW p \in Plugin, Start(w, p)
  PROVE  IInv'
<1>0. USE DEF IInv, LoadInv
<1>1. PICK j \in Load :
        /\ j = [plugin |-> p, before |-> {}, added |-> {}, attempt |-> 1, todo |-> <<>>,
                brought |-> {}, classes |-> FALSE, loaded |-> FALSE, seen |-> {}]
        /\ j.added = {} /\ j.seen = {}
  <2> DEFINE Names == Seq(Name)
             Seen  == SUBSET [name : Name, module : Module]
  <2>1. Load = [plugin : Plugin, before : SUBSET Name, added : SUBSET Dir, attempt : Nat, todo : Names,
                brought : SUBSET Name, classes : BOOLEAN, loaded : BOOLEAN, seen : Seen]
    BY DEF Load
  <2>2. <<>> \in Names /\ {} \in Seen
    OBVIOUS
  <2> HIDE DEF Names, Seen
  <2>3. PICK todo \in Names, seen \in Seen : todo = <<>> /\ seen = {}
    BY <2>2
  <2>4. [plugin |-> p, before |-> {}, added |-> {}, attempt |-> 1, todo |-> todo,
         brought |-> {}, classes |-> FALSE, loaded |-> FALSE, seen |-> seen] \in Load
    BY <2>1
  <2> QED BY <2>3, <2>4
<1>2. /\ pc[w] = "idle" /\ pc' = [pc EXCEPT ![w] = "waiting"] /\ load' = [load EXCEPT ![w] = j]
      /\ UNCHANGED <<lock, path, modules, found>>
  BY <1>1 DEF Start
<1>3. /\ pc'[w] = "waiting" /\ load'[w] = j
      /\ \A u \in Worker \ {w} : pc'[u] = pc[u] /\ load'[u] = load[u]
  BY <1>2 DEF TypeOK
<1>4. TypeOK'
  BY <1>2, <1>3, NoneAssumption DEF TypeOK, Stages
<1>5. LockInv' /\ lock # w
  BY <1>2, <1>3 DEF LockInv, Inside
<1>6. PathInv'
  BY <1>1, <1>2, <1>3, <1>5 DEF PathInv, TypeOK
<1>7. FindInv'
  BY <1>2, <1>3 DEF FindInv
<1>8. ModuleInv'
  BY <1>2, <1>3, <1>5 DEF ModuleInv, FreshModule, TypeOK
<1>9. SeenInv'
  BY <1>1, <1>3 DEF SeenInv, Foreign
<1>10. AttemptInv'
  BY <1>2, <1>3 DEF AttemptInv
<1> QED BY <1>10, <1>4, <1>5, <1>6, <1>7, <1>8, <1>9

LEMMA SetUpRaisesStep ==
  ASSUME IInv, NEW w \in Worker, SetUpRaises(w)
  PROVE  IInv'
<1>0. USE DEF IInv, LoadInv
<1>1. /\ pc[w] = "waiting" /\ pc' = [pc EXCEPT ![w] = "idle"] /\ load' = [load EXCEPT ![w] = None]
      /\ UNCHANGED <<lock, path, modules, found>>
  BY DEF SetUpRaises
<1>2. /\ pc'[w] = "idle" /\ load'[w] = None
      /\ \A u \in Worker \ {w} : pc'[u] = pc[u] /\ load'[u] = load[u]
  BY <1>1 DEF TypeOK
<1>3. TypeOK'
  BY <1>1, <1>2 DEF TypeOK, Stages
<1>4. LockInv' /\ lock # w
  BY <1>1, <1>2 DEF LockInv, Inside
<1>5. PathInv'
  BY <1>1, <1>2, <1>4 DEF PathInv, TypeOK
<1>6. FindInv'
  BY <1>1, <1>2 DEF FindInv
<1>7. ModuleInv'
  BY <1>1, <1>2, <1>4 DEF ModuleInv, FreshModule, TypeOK
<1>8. SeenInv'
  BY <1>2 DEF SeenInv, Foreign
<1>9. AttemptInv'
  BY <1>1, <1>2 DEF AttemptInv
<1> QED BY <1>9, <1>3, <1>4, <1>5, <1>6, <1>7, <1>8

\* A load goes on inside the lock, with what it has used, found and added.
LEMMA GoesOn ==
  ASSUME IInv, NEW w \in Worker, pc[w] \in {"trying", "importing"}, found[w] = None,
         NEW j \in Load, NEW stage \in {"trying", "restoring"},
         j.plugin = load[w].plugin, j.before = load[w].before, j.added = load[w].added,
         j.seen = load[w].seen,
         load' = [load EXCEPT ![w] = j], pc' = [pc EXCEPT ![w] = stage],
         UNCHANGED <<lock, path, modules, found>>
  PROVE  IInv'
<1>0. USE DEF IInv, LoadInv
<1>1. /\ pc'[w] = stage /\ load'[w] = j /\ load[w] # None
      /\ \A u \in Worker \ {w} : pc'[u] = pc[u] /\ load'[u] = load[u]
  BY DEF TypeOK
<1>2. TypeOK'
  BY <1>1, NoneAssumption DEF TypeOK, Stages
<1>3. LockInv' /\ lock = w
  BY <1>1 DEF LockInv, Inside
<1>4. PathInv'
  BY <1>1, <1>3 DEF PathInv
<1>5. FindInv'
  BY <1>1 DEF FindInv
<1>6. ModuleInv'
  BY <1>1, <1>3 DEF ModuleInv, FreshModule
<1>7. SeenInv'
  BY <1>1 DEF SeenInv, Foreign
<1>8. AttemptInv'
  BY <1>1 DEF AttemptInv
<1> QED BY <1>2, <1>3, <1>4, <1>5, <1>6, <1>7, <1>8

LEMMA SettleStep ==
  ASSUME IInv, NEW w \in Worker, Settle(w)
  PROVE  IInv'
<1>1. /\ pc[w] = "trying" /\ pc' = [pc EXCEPT ![w] = "restoring"]
      /\ UNCHANGED <<lock, path, modules, found>>
      /\ load[w] \in Load /\ found[w] = None
  BY PluginAssumption DEF Settle, IInv, TypeOK, LoadInv, FindInv
<1>2. PICK ok \in BOOLEAN : load' = [load EXCEPT ![w] = [load[w] EXCEPT !.loaded = ok]]
  BY DEF Settle
<1>3. PICK j \in Load : j = [load[w] EXCEPT !.loaded = ok]
  BY <1>1, LoadRecord
<1>4. /\ j.plugin = load[w].plugin /\ j.before = load[w].before /\ j.added = load[w].added
      /\ j.seen = load[w].seen
  BY <1>1, <1>3 DEF Load
<1> QED BY <1>1, <1>2, <1>3, <1>4, GoesOn

LEMMA TryEndsStep ==
  ASSUME IInv, NEW w \in Worker, TryEnds(w)
  PROVE  IInv'
<1>1. /\ pc[w] = "importing" /\ load[w].todo = <<>>
      /\ UNCHANGED <<lock, path, modules, found>>
      /\ load[w] \in Load /\ found[w] = None
  BY PluginAssumption DEF TryEnds, IInv, TypeOK, LoadInv, FindInv
<1>2. \/ \E ok \in BOOLEAN : load' = [load EXCEPT ![w] = [load[w] EXCEPT !.loaded = ok]]
                             /\ pc' = [pc EXCEPT ![w] = "restoring"]
      \/ /\ load' = [load EXCEPT ![w] = [load[w] EXCEPT !.attempt = load[w].attempt + 1,
                       !.classes = load[w].classes \/ Tried(load[w]).yields]]
         /\ pc' = [pc EXCEPT ![w] = "trying"]
  BY DEF TryEnds
<1>3. CASE \E ok \in BOOLEAN : load' = [load EXCEPT ![w] = [load[w] EXCEPT !.loaded = ok]]
                               /\ pc' = [pc EXCEPT ![w] = "restoring"]
  <2>1. PICK ok \in BOOLEAN : load' = [load EXCEPT ![w] = [load[w] EXCEPT !.loaded = ok]]
                              /\ pc' = [pc EXCEPT ![w] = "restoring"]
    BY <1>3
  <2>2. PICK j \in Load : j = [load[w] EXCEPT !.loaded = ok]
    BY <1>1, LoadRecord
  <2>3. /\ j.plugin = load[w].plugin /\ j.before = load[w].before /\ j.added = load[w].added
        /\ j.seen = load[w].seen
    BY <1>1, <2>2 DEF Load
  <2> QED BY <1>1, <2>1, <2>2, <2>3, GoesOn
<1>4. CASE /\ load' = [load EXCEPT ![w] = [load[w] EXCEPT !.attempt = load[w].attempt + 1,
                         !.classes = load[w].classes \/ Tried(load[w]).yields]]
           /\ pc' = [pc EXCEPT ![w] = "trying"]
  <2>1. PICK attempt \in Nat : attempt = load[w].attempt + 1
    BY <1>1 DEF Load
  <2>2. PICK classes \in BOOLEAN : classes = (load[w].classes \/ Tried(load[w]).yields)
    OBVIOUS
  <2>3. PICK j \in Load : j = [load[w] EXCEPT !.attempt = attempt, !.classes = classes]
    BY <1>1, LoadRecord
  <2>4. /\ j.plugin = load[w].plugin /\ j.before = load[w].before /\ j.added = load[w].added
        /\ j.seen = load[w].seen
    BY <1>1, <2>3 DEF Load
  <2> QED BY <1>1, <1>4, <2>1, <2>2, <2>3, <2>4, GoesOn
<1> QED BY <1>2, <1>3, <1>4

-----------------------------------------------------------------------------
(***************************************************************************)
(* Entering and leaving the lock.                                          *)
(***************************************************************************)
LEMMA EnterStep ==
  ASSUME IInv, NEW w \in Worker, Enter(w)
  PROVE  IInv'
<1>0. USE DEF IInv, LoadInv
<1>1. /\ pc[w] = "waiting" /\ lock = None /\ lock' = w /\ pc' = [pc EXCEPT ![w] = "trying"]
      /\ UNCHANGED <<modules, found>>
      /\ load[w] \in Load /\ load[w] # None
  BY PluginAssumption DEF Enter, TypeOK
<1>2. PICK entries \in Seq(Dir) :
        /\ entries = Entries[load[w].plugin]
        /\ \A i \in DOMAIN entries : Owner[entries[i]] = RepoOf[load[w].plugin]
  BY <1>1, PluginAssumption, EntriesAssumption DEF Load
<1>3. PICK fresh \in MembersAt(entries, Missing(entries)) :
        /\ path' = Reverse(fresh) \o path
        /\ load' = [load EXCEPT ![w].before = Cached, ![w].added = ToSet(fresh)]
  BY <1>2 DEF Enter
<1>4. fresh \in Seq(Dir) /\ \A i \in DOMAIN fresh : \E k \in DOMAIN entries : fresh[i] = entries[k]
  <2>1. Missing(entries) \in SUBSET DOMAIN entries
    BY DEF Missing
  <2> QED BY <1>3, <2>1, MembersAtType
<1>5. PICK added \in SUBSET Dir : added = ToSet(fresh) /\ \A d \in added : Owner[d] = RepoOf[load[w].plugin]
  <2>1. \A d \in ToSet(fresh) : d \in Dir /\ Owner[d] = RepoOf[load[w].plugin]
    BY <1>2, <1>4 DEF ToSet
  <2> QED BY <2>1
<1>6. DOMAIN path = {} /\ path \in Seq(Dir)
  BY <1>1 DEF PathInv, TypeOK
<1>7. Reverse(fresh) \in Seq(Dir) /\ \A i \in DOMAIN Reverse(fresh) : Reverse(fresh)[i] \in added
  BY <1>4, <1>5, ReverseType
<1>8. path' \in Seq(Dir) /\ \A i \in DOMAIN path' : path'[i] \in added
  <2>1. Len(path) = 0
    BY <1>6
  <2>2. DOMAIN (Reverse(fresh) \o path) = DOMAIN Reverse(fresh)
        /\ \A i \in DOMAIN Reverse(fresh) : (Reverse(fresh) \o path)[i] = Reverse(fresh)[i]
    BY <1>6, <1>7, <2>1
  <2> QED BY <1>3, <1>6, <1>7, <2>2
<1>9. PICK before \in SUBSET Name : before = Cached
  BY DEF Cached
<1>10. PICK j \in Load : j = [load[w] EXCEPT !.before = before, !.added = added]
  BY <1>1, LoadRecord
<1>11. /\ j.plugin = load[w].plugin /\ j.before = Cached /\ j.added = added
       /\ j.seen = load[w].seen
  BY <1>1, <1>9, <1>10 DEF Load
<1>12. load' = [load EXCEPT ![w] = j]
  BY <1>3, <1>5, <1>9, <1>10
<1>13. /\ pc'[w] = "trying" /\ load'[w] = j
       /\ \A u \in Worker \ {w} : pc'[u] = pc[u] /\ load'[u] = load[u]
  BY <1>1, <1>12 DEF TypeOK
<1>14. TypeOK'
  BY <1>1, <1>8, <1>12, <1>13, NoneAssumption, PluginAssumption DEF TypeOK, Stages
<1>15. w # None
  BY PluginAssumption
<1>16. LockInv'
  BY <1>1, <1>13, <1>15, PluginAssumption DEF LockInv, Inside
<1>17. PathInv'
  BY <1>1, <1>5, <1>8, <1>11, <1>13, <1>15 DEF PathInv
<1>18. FindInv'
  BY <1>1, <1>13 DEF FindInv
<1>19. ModuleInv'
  BY <1>1, <1>11, <1>13, <1>15 DEF ModuleInv, FreshModule, Cached
<1>20. SeenInv'
  BY <1>1, <1>11, <1>13 DEF SeenInv, Foreign
<1>21. AttemptInv'
  BY <1>13 DEF AttemptInv
<1> QED BY <1>21, <1>14, <1>16, <1>17, <1>18, <1>19, <1>20

LEMMA RestoreStep ==
  ASSUME IInv, NEW w \in Worker, Restore(w)
  PROVE  IInv'
<1>0. USE DEF IInv, LoadInv
<1>1. /\ pc[w] = "restoring" /\ pc' = [pc EXCEPT ![w] = "purging"]
      /\ path' \in MembersAt(path, Remaining(w))
      /\ UNCHANGED <<lock, modules, load, found>>
  BY DEF Restore
<1>2. pc'[w] = "purging" /\ \A u \in Worker \ {w} : pc'[u] = pc[u]
  BY <1>1 DEF TypeOK
<1>3. path' \in Seq(Dir) /\ \A i \in DOMAIN path' : \E k \in Remaining(w) : path'[i] = path[k]
  <2>1. path \in Seq(Dir) /\ Remaining(w) \in SUBSET DOMAIN path
    BY DEF Remaining, TypeOK
  <2> QED BY <1>1, <2>1, MembersAtType
<1>4. LockInv' /\ lock = w
  BY <1>1, <1>2 DEF LockInv, Inside
<1>5. Remaining(w) = {}
  BY <1>4 DEF Remaining, PathInv
<1>6. PathInv'
  BY <1>1, <1>3, <1>5 DEF PathInv
<1>7. TypeOK'
  BY <1>1, <1>2, <1>3 DEF TypeOK, Stages
<1>8. FindInv'
  BY <1>1, <1>2 DEF FindInv
<1>9. AttemptInv'
  BY <1>1, <1>2 DEF AttemptInv
<1>10. ModuleInv'
  BY <1>1, <1>2, <1>4 DEF ModuleInv, FreshModule
<1> QED BY <1>1, <1>4, <1>6, <1>7, <1>8, <1>9, <1>10 DEF SeenInv, Foreign

LEMMA PurgeStep ==
  ASSUME IInv, NEW w \in Worker, Purge(w)
  PROVE  IInv'
<1>0. USE DEF IInv, LoadInv
<1>1. /\ pc[w] = "purging" /\ pc' = [pc EXCEPT ![w] = "leaving"]
      /\ modules' = [n \in Name |-> IF n \in Purged(load[w]) THEN None ELSE modules[n]]
      /\ UNCHANGED <<lock, path, load, found>>
      /\ load[w] \in Load /\ load[w] # None
  BY PluginAssumption DEF Purge, TypeOK
<1>2. pc'[w] = "leaving" /\ \A u \in Worker \ {w} : pc'[u] = pc[u]
  BY <1>1 DEF TypeOK
<1>3. TypeOK'
  BY <1>1, <1>2 DEF TypeOK, Stages
<1>4. LockInv' /\ lock = w /\ w # None
  BY <1>1, <1>2, PluginAssumption DEF LockInv, Inside
<1>5. PathInv'
  BY <1>1, <1>2, <1>4 DEF PathInv
<1>6. \A n \in Name : modules'[n] = None \/ modules'[n] = modules[n]
  BY <1>1
<1>7. FindInv'
  BY <1>1, <1>2, <1>6 DEF FindInv, TypeOK
<1>8. ASSUME NEW n \in Name, modules'[n] # None PROVE modules[n].late /\ modules'[n] = modules[n]
  <2>1. n \notin Purged(load[w]) /\ modules[n] # None /\ modules'[n] = modules[n]
    BY <1>1, <1>8
  <2>2. ASSUME ~modules[n].late PROVE FALSE
    <3>1. n \notin load[w].before /\ Owner[modules[n].dir] = RepoOf[load[w].plugin]
      BY <1>4, <2>1, <2>2 DEF ModuleInv, FreshModule
    <3>2. Owner[modules[n].dir] \in Under[RepoOf[load[w].plugin]]
      BY <1>1, <3>1, PluginAssumption DEF Load
    <3> QED BY <2>1, <3>1, <3>2 DEF Purged, Cached
  <2> QED BY <2>1, <2>2
<1>9. ASSUME NEW n \in load[w].before PROVE modules'[n] # None /\ modules'[n].late
  <2>1. n \in Name /\ n \notin Purged(load[w])
    BY <1>1, <1>9 DEF Purged, Load
  <2> QED BY <1>1, <1>4, <1>9, <2>1 DEF ModuleInv
<1>10. ModuleInv'
  BY <1>1, <1>4, <1>8, <1>9 DEF ModuleInv, FreshModule
<1>11. SeenInv'
  BY <1>1 DEF SeenInv, Foreign
<1>12. AttemptInv'
  BY <1>1, <1>2 DEF AttemptInv
<1> QED BY <1>3, <1>4, <1>5, <1>7, <1>10, <1>11, <1>12

LEMMA LeaveStep ==
  ASSUME IInv, NEW w \in Worker, Leave(w)
  PROVE  IInv'
<1>0. USE DEF IInv, LoadInv
<1>1. /\ pc[w] = "leaving" /\ lock' = None
      /\ UNCHANGED <<path, modules, found>>
      /\ load[w] \in Load /\ load[w] # None
  BY PluginAssumption DEF Leave, TypeOK
<1>2. PICK stage \in {"checking", "idle"}, j \in Load \cup {None} :
        /\ pc' = [pc EXCEPT ![w] = stage] /\ load' = [load EXCEPT ![w] = j]
        /\ j = load[w] \/ (j = None /\ stage = "idle")
  BY <1>1 DEF Leave
<1>3. /\ pc'[w] = stage /\ load'[w] = j
      /\ \A u \in Worker \ {w} : pc'[u] = pc[u] /\ load'[u] = load[u]
  BY <1>2 DEF TypeOK
<1>4. TypeOK'
  BY <1>1, <1>2, <1>3 DEF TypeOK, Stages
<1>5. lock = w /\ w # None
  BY <1>1, PluginAssumption DEF LockInv, Inside
<1>6. LockInv'
  BY <1>1, <1>2, <1>3, <1>5, PluginAssumption DEF LockInv, Inside
<1>7. DOMAIN path = {}
  BY <1>1, <1>5 DEF PathInv
<1>8. PathInv'
  BY <1>1, <1>2, <1>3, <1>7 DEF PathInv
<1>9. found[w] = None
  BY <1>1 DEF FindInv
<1>10. FindInv'
  BY <1>1, <1>3, <1>9 DEF FindInv
<1>11. ModuleInv'
  BY <1>1, <1>5 DEF ModuleInv, FreshModule
<1>12. SeenInv'
  BY <1>2, <1>3 DEF SeenInv, Foreign
<1>13. AttemptInv'
  BY <1>3 DEF AttemptInv
<1> QED BY <1>4, <1>6, <1>8, <1>10, <1>11, <1>12, <1>13

-----------------------------------------------------------------------------
(***************************************************************************)
(* Importing.                                                              *)
(***************************************************************************)
LEMMA TryStep ==
  ASSUME IInv, NEW w \in Worker, Try(w)
  PROVE  IInv'
<1>0. USE DEF IInv, LoadInv
<1>1. /\ pc[w] = "trying" /\ pc' = [pc EXCEPT ![w] = "importing"]
      /\ load[w].attempt \in DOMAIN Attempts[load[w].plugin]
      /\ UNCHANGED <<lock, path, found>>
      /\ load[w] \in Load /\ load[w] # None
  BY PluginAssumption DEF Try, TypeOK
<1>2. PICK a \in Attempt : a = Tried(load[w])
  BY <1>1, PluginAssumption DEF Load, Tried
<1>3. PICK module \in Module :
        /\ module = [dir |-> Home[load[w].plugin], late |-> FALSE]
        /\ ~module.late /\ Owner[module.dir] = RepoOf[load[w].plugin]
  <2>1. PICK dir \in Dir : dir = Home[load[w].plugin] /\ Owner[dir] = RepoOf[load[w].plugin]
    BY <1>1, PluginAssumption, EntriesAssumption DEF Load
  <2>2. [dir |-> dir, late |-> FALSE] \in Module
    BY DEF Module
  <2>3. [dir |-> dir, late |-> FALSE].dir = dir /\ ~[dir |-> dir, late |-> FALSE].late
    OBVIOUS
  <2> QED BY <2>1, <2>2, <2>3
<1>4. /\ modules' = IF a.unique = None THEN modules ELSE [modules EXCEPT ![a.unique] = module]
      /\ load' = [load EXCEPT ![w] = [load[w] EXCEPT !.todo = a.imports, !.brought = {}]]
  BY <1>2, <1>3 DEF Try
<1>5. a.unique \in Name \cup {None} /\ a.imports \in Seq(Name)
  BY DEF Attempt
<1>6. \A d \in Dir : a.unique \notin Provides[d]
  BY <1>1, <1>2, UniqueAssumption DEF Load, Tried
<1>7. PICK j \in Load : j = [load[w] EXCEPT !.todo = a.imports, !.brought = {}]
  BY <1>1, <1>5, LoadRecord
<1>8. /\ j.plugin = load[w].plugin /\ j.before = load[w].before /\ j.added = load[w].added
      /\ j.seen = load[w].seen /\ j.attempt = load[w].attempt /\ j.brought = {}
  BY <1>1, <1>7 DEF Load
<1>9. /\ pc'[w] = "importing" /\ load'[w] = j
      /\ \A u \in Worker \ {w} : pc'[u] = pc[u] /\ load'[u] = load[u]
  BY <1>1, <1>4, <1>7 DEF TypeOK
<1>10. \A n \in Name : n # a.unique => modules'[n] = modules[n]
  BY <1>4 DEF TypeOK
<1>11. a.unique # None => modules'[a.unique] = module
  BY <1>4, <1>5 DEF TypeOK
<1>12. TypeOK'
  <2>1. modules' \in [Name -> Module \cup {None}]
    BY <1>4, <1>5 DEF TypeOK
  <2>2. load' \in [Worker -> Load \cup {None}]
    BY <1>4, <1>7 DEF TypeOK
  <2> QED BY <1>1, <1>9, <2>1, <2>2, NoneAssumption DEF TypeOK, Stages
<1>13. LockInv' /\ lock = w /\ w # None
  BY <1>1, <1>9, PluginAssumption DEF LockInv, Inside
<1>14. PathInv'
  BY <1>1, <1>8, <1>9, <1>13 DEF PathInv
<1>15. found[w] = None
  BY <1>1 DEF FindInv
<1>16. ASSUME NEW u \in Worker, found[u] # None PROVE modules'[found[u].name] = None
  <2>1. /\ found[u].late /\ found[u].name \in Provides[found[u].dir] /\ modules[found[u].name] = None
    <3>1. pc[u] # "importing"
      BY <1>1, <1>13, <1>15, <1>16 DEF LockInv, Inside
    <3> QED BY <1>16, <3>1 DEF FindInv, LateInv
  <2>2. found[u].name \in Name /\ found[u].dir \in Dir
    BY <1>16 DEF TypeOK
  <2>3. found[u].name # a.unique
    BY <1>6, <2>1, <2>2
  <2> QED BY <1>10, <2>1, <2>2, <2>3
<1>17. FindInv'
  BY <1>1, <1>9, <1>15, <1>16 DEF FindInv, LateInv
<1>18. a.unique \notin load[w].before
  <2>1. ASSUME a.unique \in load[w].before PROVE FALSE
    <3>1. a.unique \in Name
      BY <1>1, <2>1 DEF Load
    <3>2. modules[a.unique] # None /\ modules[a.unique].late
      BY <1>13, <2>1 DEF ModuleInv
    <3>3. a.unique \in Provides[modules[a.unique].dir] /\ modules[a.unique].dir \in Dir
      BY <3>1, <3>2 DEF ModuleInv, LateInv, TypeOK, Module
    <3> QED BY <1>6, <3>3
  <2> QED BY <2>1
<1>19. ModuleInv'
  <2>1. /\ lock' = w /\ load'[w].before = load[w].before /\ load'[w].plugin = load[w].plugin
        /\ pc'[lock'] # "leaving"
    BY <1>1, <1>8, <1>9, <1>13
  <2>2. ASSUME NEW n \in Name, modules'[n] # None
        PROVE  IF modules'[n].late THEN LateInv(n, modules'[n])
               ELSE n \notin load[w].before /\ Owner[modules'[n].dir] = RepoOf[load[w].plugin]
    <3>1. CASE n = a.unique
      BY <1>3, <1>11, <1>18, <3>1, PluginAssumption
    <3>2. CASE n # a.unique
      BY <1>10, <1>13, <2>2, <3>2 DEF ModuleInv, FreshModule
    <3> QED BY <3>1, <3>2
  <2>3. \A n \in load[w].before : modules'[n] # None /\ modules'[n].late
    BY <1>1, <1>10, <1>13, <1>18 DEF ModuleInv, Load
  <2> QED BY <1>13, <2>1, <2>2, <2>3 DEF ModuleInv, FreshModule, LateInv
<1>20. SeenInv'
  BY <1>1, <1>8, <1>9 DEF SeenInv, Foreign
<1>21. AttemptInv'
  BY <1>1, <1>8, <1>9 DEF AttemptInv
<1> QED BY <1>12, <1>13, <1>14, <1>17, <1>19, <1>20, <1>21

\* A load that uses a module goes on inside the lock with one name less to
\* import; the module is its repository's or is late.
LEMMA UsesStep ==
  ASSUME IInv, NEW w \in Worker, Importing(w), NEW module \in Module, NEW new \in SUBSET Name,
         Uses(w, module, new), new \cap load[w].before = {},
         Owner[module.dir] # RepoOf[load[w].plugin] => module.late /\ ImportedLate(Top[Wanted(w)]),
         UNCHANGED <<lock, path, pc>>
  PROVE  /\ load' \in [Worker -> Load \cup {None}]
         /\ load'[w] # None
         /\ load'[w].plugin = load[w].plugin /\ load'[w].before = load[w].before
         /\ load'[w].added = load[w].added
         /\ \A u \in Worker \ {w} : load'[u] = load[u]
         /\ lock = w /\ w # None
         /\ LockInv' /\ PathInv' /\ AttemptInv' /\ SeenInv'
<1>0. USE DEF IInv, LoadInv
<1>1. /\ pc[w] = "importing" /\ load[w] \in Load /\ load[w] # None /\ load[w].todo # <<>>
  BY PluginAssumption DEF Importing, TypeOK
<1>2. load[w].todo \in Seq(Name)
  BY <1>1 DEF Load
<1>3. PICK todo \in Seq(Name), n \in Name : todo = Tail(load[w].todo) /\ n = Wanted(w)
  BY <1>1, <1>2, HeadTail DEF Wanted
<1>4. PICK seen \in SUBSET [name : Name, module : Module] :
        seen = load[w].seen \cup {[name |-> n, module |-> module]}
  <2>1. [name |-> n, module |-> module] \in [name : Name, module : Module]
    OBVIOUS
  <2> QED BY <1>1, <2>1 DEF Load
<1>5. PICK brought \in SUBSET Name : brought = load[w].brought \cup new
  BY <1>1 DEF Load
<1>6. PICK j \in Load : j = [load[w] EXCEPT !.todo = todo, !.brought = brought, !.seen = seen]
  BY <1>1, LoadRecord
<1>7. load' = [load EXCEPT ![w] = j]
  BY <1>3, <1>4, <1>5, <1>6 DEF Uses
<1>8. /\ j.plugin = load[w].plugin /\ j.before = load[w].before /\ j.added = load[w].added
      /\ j.seen = seen /\ j.attempt = load[w].attempt /\ j.brought = brought
  BY <1>1, <1>6 DEF Load
<1>9. load'[w] = j /\ \A u \in Worker \ {w} : load'[u] = load[u]
  BY <1>7 DEF TypeOK
<1>10. load' \in [Worker -> Load \cup {None}] /\ load'[w] # None
  BY <1>7, <1>9, NoneAssumption DEF TypeOK
<1>11. LockInv' /\ lock = w /\ w # None
  BY <1>1, PluginAssumption DEF LockInv, Inside
<1>12. PathInv'
  BY <1>1, <1>8, <1>9, <1>11 DEF PathInv
<1>13. SeenInv'
  <2>1. \A u \in seen : Owner[u.module.dir] # RepoOf[load[w].plugin] =>
          u.module.late /\ ImportedLate(Top[u.name])
    BY <1>1, <1>3, <1>4 DEF SeenInv, Foreign
  <2> QED BY <1>8, <1>9, <2>1 DEF SeenInv, Foreign
<1>14. AttemptInv'
  <2>1. brought \cap load[w].before = {}
    BY <1>1, <1>5 DEF AttemptInv
  <2> QED BY <1>1, <1>8, <1>9, <2>1 DEF AttemptInv
<1> QED BY <1>8, <1>9, <1>10, <1>11, <1>12, <1>13, <1>14

LEMMA WantedName ==
  ASSUME TypeOK, NEW w \in Worker, Importing(w)
  PROVE  Wanted(w) \in Name
<1>1. load[w].todo \in Seq(Name) /\ load[w].todo # <<>>
  BY PluginAssumption DEF Importing, TypeOK, Load
<1> QED BY <1>1, HeadTail DEF Wanted

LEMMA ImportCachedStep ==
  ASSUME IInv, NEW w \in Worker, ImportCached(w)
  PROVE  IInv'
<1>0. USE DEF IInv, LoadInv
<1>1. /\ Importing(w) /\ found[w] = None /\ modules[Wanted(w)] # None
      /\ Uses(w, modules[Wanted(w)], {})
      /\ UNCHANGED <<lock, path, modules, pc, found>>
  BY DEF ImportCached
<1>2. PICK n \in Name : n = Wanted(w)
  BY <1>1, WantedName
<1>3. PICK module \in Module : module = modules[n]
  BY <1>1, <1>2 DEF TypeOK
<1>4. lock = w
  BY <1>1 DEF Importing, LockInv, Inside
<1>5. Owner[module.dir] # RepoOf[load[w].plugin] => module.late /\ ImportedLate(Top[Wanted(w)])
  BY <1>1, <1>2, <1>3, <1>4 DEF ModuleInv, FreshModule, LateInv
<1>6. /\ load' \in [Worker -> Load \cup {None}]
      /\ load'[w] # None
      /\ load'[w].plugin = load[w].plugin /\ load'[w].before = load[w].before
      /\ \A u \in Worker \ {w} : load'[u] = load[u]
      /\ LockInv' /\ PathInv' /\ AttemptInv' /\ SeenInv'
  <2>1. {} \in SUBSET Name /\ {} \cap load[w].before = {}
    OBVIOUS
  <2> QED BY <1>1, <1>2, <1>3, <1>5, <2>1, UsesStep
<1>7. TypeOK'
  BY <1>1, <1>6 DEF TypeOK
<1>8. FindInv'
  BY <1>1, <1>6 DEF FindInv
<1>9. ModuleInv'
  BY <1>1, <1>4, <1>6 DEF ModuleInv, FreshModule
<1> QED BY <1>6, <1>7, <1>8, <1>9

\* Where a name is searched for, and what follows from its being found there.
LEMMA SearchType ==
  ASSUME TypeOK, NEW n \in Name
  PROVE  /\ Search(n) \in Seq(Dir)
         /\ Parent[n] = None => Search(n) = path
         /\ Parent[n] \in Cached =>
              /\ Parent[n] \in Name /\ modules[Parent[n]] # None /\ Top[Parent[n]] = Top[n]
              /\ \A i \in DOMAIN Search(n) : Search(n)[i] = modules[Parent[n]].dir
         /\ Parent[n] # None /\ Parent[n] \notin Cached => DOMAIN Search(n) = {}
<1>1. Parent[n] \in Cached => Parent[n] # None /\ Parent[n] \in Name /\ modules[Parent[n]] # None
  BY PluginAssumption DEF Cached
<1>2. CASE Parent[n] = None
  <2>1. Search(n) = path
    BY <1>1, <1>2 DEF Search
  <2> QED BY <1>1, <1>2, <2>1 DEF TypeOK
<1>3. CASE Parent[n] \in Cached
  <2>1. PICK dir \in Dir : dir = modules[Parent[n]].dir
    BY <1>1, <1>3 DEF TypeOK, Module
  <2>2. Search(n) = <<dir>>
    BY <1>1, <1>3, <2>1 DEF Search
  <2>3. <<dir>> \in Seq(Dir) /\ \A i \in DOMAIN <<dir>> : <<dir>>[i] = dir
    OBVIOUS
  <2>4. Top[Parent[n]] = Top[n]
    BY <1>1, <1>3, NameAssumption
  <2> QED BY <1>1, <1>3, <2>1, <2>2, <2>3, <2>4
<1>4. CASE Parent[n] # None /\ Parent[n] \notin Cached
  <2>1. Search(n) = <<>>
    BY <1>4 DEF Search
  <2> QED BY <1>4, <2>1
<1> QED BY <1>2, <1>3, <1>4

\* Finding a name.
LEMMA FindStep ==
  ASSUME IInv, NEW w \in Worker, NEW n \in Name, NEW late \in BOOLEAN, Find(w, n, late),
         pc[w] \in {"importing", "checking"},
         pc[w] = "importing" => load[w].todo # <<>> /\ n = Wanted(w),
         IF late THEN ImportedLate(Top[n])
         ELSE pc[w] = "importing" /\ Owner[FoundDir(n)] = RepoOf[load[w].plugin],
         UNCHANGED <<lock, path, modules, pc, load>>
  PROVE  IInv'
<1>0. USE DEF IInv, LoadInv
<1>1. PICK dir \in Dir : dir = FoundDir(n) /\ n \in Provides[dir]
  <2>1. Search(n) \in Seq(Dir)
    BY SearchType
  <2>2. PICK i \in DOMAIN Search(n) : n \in Provides[Search(n)[i]] /\ FoundDir(n) = Search(n)[i]
    BY <2>1, FoundInSearch DEF Find
  <2> QED BY <2>1, <2>2
<1>2. PICK f \in [name : Name, dir : Dir, late : BOOLEAN] :
        /\ f = [name |-> n, dir |-> dir, late |-> late]
        /\ f.name = n /\ f.dir = dir /\ f.late = late
  <2>1. [name |-> n, dir |-> dir, late |-> late] \in [name : Name, dir : Dir, late : BOOLEAN]
    OBVIOUS
  <2>2. LET f == [name |-> n, dir |-> dir, late |-> late]
        IN  f.name = n /\ f.dir = dir /\ f.late = late
    BY Zenon
  <2> QED BY <2>1, <2>2, Zenon
<1>3. found' = [found EXCEPT ![w] = f]
  BY <1>1, <1>2 DEF Find
<1>4. found'[w] = f /\ \A u \in Worker \ {w} : found'[u] = found[u]
  BY <1>3 DEF TypeOK
<1>5. TypeOK'
  BY <1>3 DEF TypeOK
<1>6. modules[n] = None /\ \A u \in Worker \ {w} : found[u] # None => found[u].name # n
  BY DEF Find, Unlocked
<1>7. FindInv'
  <2>1. IF f.late THEN LateInv(f.name, f)
        ELSE pc[w] = "importing" /\ Owner[f.dir] = RepoOf[load[w].plugin]
    BY <1>1, <1>2 DEF LateInv
  <2>2. pc[w] = "importing" => load[w].todo # <<>> /\ f.name = Head(load[w].todo)
    BY <1>2 DEF Wanted
  <2> QED BY <1>2, <1>4, <1>6, <2>1, <2>2 DEF FindInv, LateInv
<1> QED BY <1>5, <1>7 DEF LockInv, Inside, PathInv, ModuleInv, FreshModule, LateInv, AttemptInv,
                            SeenInv, Foreign

LEMMA ImportFindStep ==
  ASSUME IInv, NEW w \in Worker, ImportFind(w)
  PROVE  IInv'
<1>1. /\ pc[w] = "importing" /\ load[w].todo # <<>> /\ Find(w, Wanted(w), ByLatePackage(Wanted(w)))
      /\ UNCHANGED <<lock, path, modules, pc, load>>
  BY DEF ImportFind, Importing
<1>2. PICK n \in Name : n = Wanted(w)
  BY <1>1, WantedName DEF IInv, Importing
<1>3. /\ lock = w /\ lock # None /\ load[w] # None
  BY <1>1, PluginAssumption DEF IInv, LoadInv, LockInv, Inside, TypeOK
<1>4. PICK i \in DOMAIN Search(n) : n \in Provides[Search(n)[i]] /\ FoundDir(n) = Search(n)[i]
  BY <1>1, <1>2, SearchType, FoundInSearch DEF Find, IInv
<1>5. PICK late \in BOOLEAN : late = ByLatePackage(n)
  BY DEF ByLatePackage
<1>6. CASE Parent[n] = None
  <2>1. ~late
    BY <1>5, <1>6, PluginAssumption DEF ByLatePackage, Cached
  <2>2. FoundDir(n) = path[i] /\ i \in DOMAIN path
    BY <1>4, <1>6, SearchType DEF IInv
  <2>3. Owner[FoundDir(n)] = RepoOf[load[w].plugin]
    BY <1>3, <2>2 DEF IInv, LoadInv, PathInv
  <2> QED BY <1>1, <1>2, <1>5, <2>1, <2>3, FindStep
<1>7. CASE Parent[n] \in Cached
  <2>1. /\ Parent[n] \in Name /\ modules[Parent[n]] # None /\ Top[Parent[n]] = Top[n]
        /\ FoundDir(n) = modules[Parent[n]].dir
    BY <1>4, <1>7, SearchType DEF IInv
  <2>2. late = modules[Parent[n]].late
    BY <1>5, <1>7, <2>1 DEF ByLatePackage, IInv, TypeOK, Module
  <2>3. IF late THEN ImportedLate(Top[n]) ELSE Owner[FoundDir(n)] = RepoOf[load[w].plugin]
    BY <1>3, <2>1, <2>2 DEF IInv, LoadInv, ModuleInv, FreshModule, LateInv
  <2> QED BY <1>1, <1>2, <1>5, <2>3, FindStep
<1>8. Parent[n] = None \/ Parent[n] \in Cached
  BY <1>4, SearchType DEF IInv
<1> QED BY <1>6, <1>7, <1>8

LEMMA LazyFindStep ==
  ASSUME IInv, NEW w \in Worker, LazyFind(w)
  PROVE  IInv'
<1>1. PICK n \in Lazy[load[w].plugin] : Find(w, n, TRUE)
  BY DEF LazyFind
<1>2. pc[w] = "checking" /\ UNCHANGED <<lock, path, modules, pc, load>>
  BY DEF LazyFind
<1>3. n \in Name /\ ImportedLate(Top[n])
  BY <1>1, <1>2, PluginAssumption, LazyAssumption DEF IInv, TypeOK, Load, ImportedLate
<1> QED BY <1>1, <1>2, <1>3, FindStep

\* Bringing a found module in.
LEMMA InsertType ==
  ASSUME IInv, NEW w \in Worker, Insert(w)
  PROVE  /\ found[w] # None /\ found[w].name \in Name
         /\ modules' \in [Name -> Module \cup {None}]
         /\ modules'[found[w].name] \in Module
         /\ modules'[found[w].name].dir = found[w].dir
         /\ modules'[found[w].name].late = found[w].late
         /\ \A n \in Name : n # found[w].name => modules'[n] = modules[n]
         /\ found' \in [Worker -> [name : Name, dir : Dir, late : BOOLEAN] \cup {None}]
         /\ found'[w] = None /\ \A u \in Worker \ {w} : found'[u] = found[u]
<1>1. found[w] # None /\ found[w] \in [name : Name, dir : Dir, late : BOOLEAN]
  BY DEF Insert, IInv, TypeOK
<1>2. PICK n \in Name, module \in Module :
        /\ n = found[w].name /\ module = [dir |-> found[w].dir, late |-> found[w].late]
        /\ module.dir = found[w].dir /\ module.late = found[w].late
  <2>1. [dir |-> found[w].dir, late |-> found[w].late] \in Module /\ found[w].name \in Name
    BY <1>1 DEF Module
  <2>2. LET module == [dir |-> found[w].dir, late |-> found[w].late]
        IN  module.dir = found[w].dir /\ module.late = found[w].late
    BY Zenon
  <2> QED BY <2>1, <2>2, Zenon
<1>3. modules' = [modules EXCEPT ![n] = module] /\ found' = [found EXCEPT ![w] = None]
  BY <1>2 DEF Insert
<1> QED BY <1>1, <1>2, <1>3 DEF IInv, TypeOK

\* It keeps what is said of modules and of what is being imported.
LEMMA InsertStep ==
  ASSUME IInv, NEW w \in Worker, Insert(w), UNCHANGED <<lock, path, pc>>,
         \A u \in Worker \ {w} : load'[u] = load[u],
         load[w] # None => load'[w].plugin = load[w].plugin /\ load'[w].before = load[w].before
  PROVE  FindInv' /\ ModuleInv'
<1>0. USE DEF IInv, LoadInv
<1>1. /\ found[w] # None /\ found[w].name \in Name
      /\ modules'[found[w].name] \in Module
      /\ modules'[found[w].name].dir = found[w].dir
      /\ modules'[found[w].name].late = found[w].late
      /\ \A n \in Name : n # found[w].name => modules'[n] = modules[n]
      /\ found'[w] = None /\ \A u \in Worker \ {w} : found'[u] = found[u]
  BY InsertType
<1>2. /\ modules[found[w].name] = None
      /\ \A u \in Worker \ {w} : found[u] # None => found[u].name # found[w].name
      /\ IF found[w].late THEN LateInv(found[w].name, found[w])
         ELSE pc[w] = "importing" /\ Owner[found[w].dir] = RepoOf[load[w].plugin]
  BY <1>1 DEF FindInv
<1>3. FindInv'
  BY <1>1, <1>2 DEF FindInv, LateInv, TypeOK
<1>4. \A u \in Worker : lock = u =>
        /\ load[u] # None /\ load[u].before \subseteq Name
        /\ load'[u].plugin = load[u].plugin /\ load'[u].before = load[u].before
  BY PluginAssumption DEF LockInv, Inside, TypeOK, Load
<1>5. lock # None => lock \in Worker
  BY DEF TypeOK
<1>6. ASSUME NEW n \in Name, modules'[n] # None, n # found[w].name
      PROVE  IF modules'[n].late THEN LateInv(n, modules'[n]) ELSE FreshModule(n)'
  <2>1. modules'[n] = modules[n]
    BY <1>1, <1>6
  <2> QED BY <1>4, <1>5, <1>6, <2>1 DEF ModuleInv, FreshModule
<1>7. CASE found[w].late
  <2>1. LateInv(found[w].name, modules'[found[w].name])
    BY <1>1, <1>2, <1>7 DEF LateInv
  <2>2. lock' # None => \A n \in load'[lock'].before : modules'[n] # None /\ modules'[n].late
    BY <1>1, <1>2, <1>4, <1>5 DEF ModuleInv
  <2> QED BY <1>1, <1>3, <1>6, <1>7, <2>1, <2>2 DEF ModuleInv, LateInv
<1>8. CASE ~found[w].late
  <2>1. lock = w /\ lock # None /\ pc[lock] # "leaving" /\ found[w].name \notin load[w].before
    BY <1>2, <1>8, PluginAssumption DEF LockInv, Inside, ModuleInv
  <2>2. lock' # None => \A n \in load'[lock'].before : modules'[n] # None /\ modules'[n].late
    BY <1>1, <1>2, <1>4, <1>5 DEF ModuleInv
  <2>3. PICK new \in Name : new = found[w].name
    BY <1>1
  <2>4. ~modules'[new].late /\ FreshModule(new)'
    BY <1>1, <1>2, <1>4, <1>8, <2>1, <2>3 DEF FreshModule
  <2> QED BY <1>3, <1>6, <2>2, <2>3, <2>4 DEF ModuleInv
<1> QED BY <1>7, <1>8

LEMMA ImportInsertStep ==
  ASSUME IInv, NEW w \in Worker, ImportInsert(w)
  PROVE  IInv'
<1>0. USE DEF IInv, LoadInv
<1>1. /\ Importing(w) /\ Insert(w) /\ Uses(w, modules'[Wanted(w)], {Wanted(w)})
      /\ UNCHANGED <<lock, path, pc>> /\ pc[w] = "importing"
  BY DEF ImportInsert, Importing
<1>2. /\ found[w] # None /\ found[w].name \in Name
      /\ modules' \in [Name -> Module \cup {None}]
      /\ modules'[found[w].name] \in Module
      /\ modules'[found[w].name].dir = found[w].dir
      /\ modules'[found[w].name].late = found[w].late
      /\ found' \in [Worker -> [name : Name, dir : Dir, late : BOOLEAN] \cup {None}]
  BY <1>1, InsertType
<1>3. /\ found[w].name = Wanted(w) /\ modules[found[w].name] = None
      /\ IF found[w].late THEN LateInv(found[w].name, found[w])
         ELSE Owner[found[w].dir] = RepoOf[load[w].plugin]
  BY <1>1, <1>2 DEF FindInv, Wanted
<1>4. PICK module \in Module :
        /\ module = modules'[Wanted(w)]
        /\ Owner[module.dir] # RepoOf[load[w].plugin] => module.late /\ ImportedLate(Top[Wanted(w)])
  BY <1>2, <1>3 DEF LateInv
<1>5. lock = w /\ w # None
  BY <1>1, PluginAssumption DEF LockInv, Inside
<1>6. {Wanted(w)} \in SUBSET Name /\ {Wanted(w)} \cap load[w].before = {}
  BY <1>2, <1>3, <1>5 DEF ModuleInv
<1>7. /\ load' \in [Worker -> Load \cup {None}]
      /\ load'[w] # None
      /\ load'[w].plugin = load[w].plugin /\ load'[w].before = load[w].before
      /\ \A u \in Worker \ {w} : load'[u] = load[u]
      /\ LockInv' /\ PathInv' /\ AttemptInv' /\ SeenInv'
  BY <1>1, <1>4, <1>6, UsesStep
<1>8. TypeOK'
  BY <1>1, <1>2, <1>7 DEF TypeOK
<1>9. FindInv' /\ ModuleInv'
  BY <1>1, <1>7, InsertStep
<1> QED BY <1>7, <1>8, <1>9

LEMMA LazyInsertStep ==
  ASSUME IInv, NEW w \in Worker, LazyInsert(w)
  PROVE  IInv'
<1>0. USE DEF IInv, LoadInv
<1>1. pc[w] = "checking" /\ Insert(w) /\ UNCHANGED <<lock, path, pc, load>>
  BY DEF LazyInsert
<1>2. TypeOK'
  <2>1. /\ modules' \in [Name -> Module \cup {None}]
        /\ found' \in [Worker -> [name : Name, dir : Dir, late : BOOLEAN] \cup {None}]
    BY <1>1, InsertType
  <2> QED BY <1>1, <2>1 DEF TypeOK
<1>3. FindInv' /\ ModuleInv'
  BY <1>1, InsertStep
<1> QED BY <1>1, <1>2, <1>3 DEF LockInv, Inside, PathInv, AttemptInv, SeenInv, Foreign

LEMMA ImportFailsStep ==
  ASSUME IInv, NEW w \in Worker, ImportFails(w)
  PROVE  IInv'
<1>0. USE DEF IInv, LoadInv
<1>1. /\ pc[w] = "importing" /\ found' = [found EXCEPT ![w] = None]
      /\ UNCHANGED <<lock, path>>
      /\ load[w] \in Load /\ load[w] # None
  BY PluginAssumption DEF ImportFails, TypeOK
<1>2. PICK running \in SUBSET load[w].brought, stage \in {"restoring", "trying"} :
        /\ modules' = [n \in Name |-> IF n \in running \cup {Tried(load[w]).unique}
                                      THEN None ELSE modules[n]]
        /\ pc' = [pc EXCEPT ![w] = stage]
  <2>1. PICK running \in SUBSET load[w].brought :
          modules' = [n \in Name |-> IF n \in running \cup {Tried(load[w]).unique}
                                     THEN None ELSE modules[n]]
    BY DEF ImportFails
  <2>2. PICK stage \in {"restoring", "trying"} : pc' = [pc EXCEPT ![w] = stage]
    BY DEF ImportFails
  <2> QED BY <2>1, <2>2
<1>3. PICK attempt \in Nat, todo \in Seq(Name) : attempt = load[w].attempt + 1 /\ todo = <<>>
  <2>1. load[w].attempt + 1 \in Nat
    BY <1>1 DEF Load
  <2>2. <<>> \in Seq(Name)
    OBVIOUS
  <2> QED BY <2>1, <2>2
<1>4. PICK j \in Load : j = [load[w] EXCEPT !.attempt = attempt, !.todo = todo]
  BY <1>1, LoadRecord
<1>5. load' = [load EXCEPT ![w] = j]
  <2>1. load' = [load EXCEPT ![w].attempt = @ + 1, ![w].todo = <<>>]
    BY DEF ImportFails
  <2> QED BY <1>3, <1>4, <2>1
<1>6. /\ j.plugin = load[w].plugin /\ j.before = load[w].before /\ j.added = load[w].added
      /\ j.seen = load[w].seen
  BY <1>1, <1>4 DEF Load
<1>7. /\ pc'[w] = stage /\ load'[w] = j /\ found'[w] = None
      /\ \A u \in Worker \ {w} : pc'[u] = pc[u] /\ load'[u] = load[u] /\ found'[u] = found[u]
  BY <1>1, <1>2, <1>5 DEF TypeOK
<1>8. modules' \in [Name -> Module \cup {None}]
      /\ \A n \in Name : modules'[n] = modules[n]
           \/ (n \in running \cup {Tried(load[w]).unique} /\ modules'[n] = None)
  BY <1>2 DEF TypeOK
<1>9. TypeOK'
  BY <1>1, <1>2, <1>5, <1>7, <1>8, NoneAssumption DEF TypeOK, Stages
<1>10. LockInv' /\ lock = w /\ w # None
  BY <1>1, <1>7, PluginAssumption DEF LockInv, Inside
<1>11. PathInv'
  BY <1>1, <1>6, <1>7, <1>10 DEF PathInv
<1>12. FindInv'
  BY <1>7, <1>8 DEF FindInv, LateInv, TypeOK
<1>13. ASSUME NEW n \in load[w].before PROVE modules'[n] = modules[n]
  <2>1. n \in Name /\ modules[n] # None /\ modules[n].late
    BY <1>1, <1>10, <1>13 DEF ModuleInv, Load
  <2>2. n \in Provides[modules[n].dir] /\ modules[n].dir \in Dir
    BY <2>1 DEF ModuleInv, LateInv, TypeOK, Module
  <2>3. n # Tried(load[w]).unique
    BY <1>1, <2>2, UniqueAssumption DEF AttemptInv, Tried, Load
  <2>4. n \notin load[w].brought
    BY <1>1, <1>13 DEF AttemptInv
  <2> QED BY <1>2, <1>8, <2>1, <2>3, <2>4
<1>14. ModuleInv'
  <2>1. \A n \in Name : modules'[n] # None => modules'[n] = modules[n]
    BY <1>8
  <2> QED BY <1>1, <1>6, <1>7, <1>10, <1>13, <2>1 DEF ModuleInv, FreshModule, LateInv
<1>15. SeenInv'
  BY <1>1, <1>6, <1>7 DEF SeenInv, Foreign
<1>16. AttemptInv'
  BY <1>7 DEF AttemptInv
<1> QED BY <1>9, <1>10, <1>11, <1>12, <1>14, <1>15, <1>16

LEMMA CheckEndsStep ==
  ASSUME IInv, NEW w \in Worker, CheckEnds(w)
  PROVE  IInv'
<1>0. USE DEF IInv, LoadInv
<1>1. /\ pc[w] = "checking" /\ pc' = [pc EXCEPT ![w] = "idle"]
      /\ load' = [load EXCEPT ![w] = None] /\ found' = [found EXCEPT ![w] = None]
      /\ UNCHANGED <<lock, path, modules>>
  BY DEF CheckEnds
<1>2. /\ pc'[w] = "idle" /\ load'[w] = None /\ found'[w] = None
      /\ \A u \in Worker \ {w} : pc'[u] = pc[u] /\ load'[u] = load[u] /\ found'[u] = found[u]
  BY <1>1 DEF TypeOK
<1>3. TypeOK'
  BY <1>1, <1>2 DEF TypeOK, Stages
<1>4. LockInv' /\ lock # w
  BY <1>1, <1>2 DEF LockInv, Inside
<1>5. PathInv'
  BY <1>1, <1>2, <1>4 DEF PathInv, TypeOK
<1>6. FindInv'
  BY <1>1, <1>2 DEF FindInv
<1>7. ModuleInv'
  BY <1>1, <1>2, <1>4 DEF ModuleInv, FreshModule, TypeOK
<1>8. SeenInv'
  BY <1>2 DEF SeenInv, Foreign
<1>9. AttemptInv'
  BY <1>1, <1>2 DEF AttemptInv
<1> QED BY <1>9, <1>3, <1>4, <1>5, <1>6, <1>7, <1>8

-----------------------------------------------------------------------------
(***************************************************************************)
(* The theorems.                                                           *)
(***************************************************************************)
LEMMA IInvStep == IInv /\ [Next]_vars => IInv'
<1> SUFFICES ASSUME IInv, [Next]_vars PROVE IInv'
  OBVIOUS
<1>1. ASSUME NEW w \in Worker, Work(w) PROVE IInv'
  BY <1>1, StartStep, SetUpRaisesStep, EnterStep, TryStep, SettleStep, ImportCachedStep,
     ImportFindStep, ImportInsertStep, ImportFailsStep, TryEndsStep, RestoreStep, PurgeStep,
     LeaveStep, LazyFindStep, LazyInsertStep, CheckEndsStep DEF Work
<1>2. CASE UNCHANGED vars
  BY <1>2 DEF vars, IInv, TypeOK, LoadInv, LockInv, Inside, PathInv, FindInv, ModuleInv,
              FreshModule, LateInv, AttemptInv, SeenInv, Foreign
<1> QED BY <1>1, <1>2 DEF Next

THEOREM IInvHolds == Spec => []IInv
BY IInvInit, IInvStep, PTL DEF Spec

(***************************************************************************)
(* checker/loader.py: sys.path, sys.modules and the locals of every load   *)
(* keep their types, and a worker past its load has its dumper.            *)
(***************************************************************************)
THEOREM TypeCorrect == Spec => []TypeOK
BY IInvHolds, PTL DEF IInv

(***************************************************************************)
(* loader.py:99-143, 348-386: between loads sys.path has nothing of any    *)
(* repository, during one only what that load added.                       *)
(***************************************************************************)
THEOREM PathIsLoadersHolds == Spec => []PathIsLoaders
<1>1. IInv => PathIsLoaders
  BY DEF IInv, LoadInv, PathInv, LockInv, Inside, PathIsLoaders, TypeOK
<1> QED BY <1>1, IInvHolds, PTL

(***************************************************************************)
(* loader.py:66-89, 385-386: whatever fails, no load leaves a module       *)
(* behind but such as the unlocked imports of checks brought in or, being  *)
(* packages, led to.                                                       *)
(***************************************************************************)
THEOREM NoResidueHolds == Spec => []NoResidue
<1>1. IInv => NoResidue
  BY DEF IInv, LoadInv, ModuleInv, FreshModule, NoResidue, Cached
<1> QED BY <1>1, IInvHolds, PTL

(***************************************************************************)
(* loader.py:27-30, 69-74: whatever loads and checks overlap, a load only  *)
(* ever uses a foreign module that the import of a check brought in, or    *)
(* that a foreign package so brought in led to: a name below a top-level   *)
(* package that some check imports.                                        *)
(***************************************************************************)
THEOREM ForeignOnlyByCheckHolds == Spec => []ForeignOnlyByCheck
<1>1. IInv => ForeignOnlyByCheck
  BY DEF IInv, LoadInv, SeenInv, ForeignOnlyByCheck
<1> QED BY <1>1, IInvHolds, PTL

-----------------------------------------------------------------------------
(***************************************************************************)
(* A pool of one thread (PULSE_MAX_CHECK_WORKERS=1).                       *)
(***************************************************************************)
NothingLate ==
  /\ \A n \in Name : modules[n] # None => ~modules[n].late
  /\ \A w \in Worker : found[w] # None => ~found[w].late
  /\ \A w \in Worker : load[w] # None => \A u \in load[w].seen : ~u.module.late

\* While the only worker checks, no directory of a repository is on sys.path and
\* no package of one is cached.
LEMMA NoLateFind ==
  ASSUME IInv, NothingLate, \A u, v \in Worker : u = v, NEW w \in Worker, LazyFind(w)
  PROVE  FALSE
<1>1. PICK n \in Name : pc[w] = "checking" /\ Importable(n)
  <2>1. PICK n \in Lazy[load[w].plugin] : Find(w, n, TRUE)
    BY DEF LazyFind
  <2>2. load[w].plugin \in Plugin /\ pc[w] = "checking"
    BY PluginAssumption DEF LazyFind, IInv, TypeOK, Load
  <2> QED BY <2>1, <2>2, PluginAssumption DEF Find
<1>2. lock = None
  BY <1>1 DEF IInv, TypeOK, LoadInv, LockInv, Inside
<1>3. DOMAIN path = {}
  BY <1>2 DEF IInv, LoadInv, PathInv
<1>4. \A m \in Name : modules[m] = None
  BY <1>2 DEF IInv, LoadInv, ModuleInv, FreshModule, NothingLate
<1>5. DOMAIN Search(n) = {}
  BY <1>3, <1>4, SearchType DEF IInv, Cached
<1> QED BY <1>1, <1>5 DEF Importable, Providers

LEMMA NothingLateStep ==
  ASSUME IInv, NothingLate, \A u, v \in Worker : u = v, [Next]_vars
  PROVE  NothingLate'
<1> USE DEF IInv
<1>1. CASE UNCHANGED vars
  BY <1>1 DEF vars, NothingLate
<1>2. ASSUME NEW w \in Worker, Work(w) PROVE NothingLate'
  <2>1. ASSUME NEW p \in Plugin, Start(w, p) PROVE NothingLate'
    BY <2>1 DEF Start, NothingLate, TypeOK
  <2>2. CASE SetUpRaises(w) \/ CheckEnds(w)
    BY <2>2 DEF SetUpRaises, CheckEnds, NothingLate, TypeOK
  <2>3. CASE Enter(w)
    <3>1. /\ UNCHANGED <<modules, found>> /\ \A u \in Worker \ {w} : load'[u] = load[u]
          /\ load[w] # None /\ load[w] \in Load
      BY <2>3, PluginAssumption DEF Enter, TypeOK
    <3>2. load'[w].seen = load[w].seen
      BY <2>3, <3>1 DEF Enter, TypeOK, Load
    <3> QED BY <3>1, <3>2 DEF NothingLate
  <2>4. CASE Try(w)
    <3>1. /\ UNCHANGED found /\ \A u \in Worker \ {w} : load'[u] = load[u]
          /\ load[w] # None /\ load[w] \in Load
      BY <2>4, PluginAssumption DEF Try, TypeOK
    <3>2. load'[w].seen = load[w].seen
      BY <2>4, <3>1 DEF Try, TypeOK, Load
    <3>3. \A n \in Name : modules'[n] = modules[n] \/ ~modules'[n].late
      BY <2>4 DEF Try, TypeOK
    <3> QED BY <3>1, <3>2, <3>3 DEF NothingLate
  <2>5. CASE Settle(w) \/ TryEnds(w)
    <3>1. /\ UNCHANGED <<modules, found>> /\ \A u \in Worker \ {w} : load'[u] = load[u]
          /\ load[w] # None /\ load[w] \in Load
      BY <2>5, PluginAssumption DEF Settle, TryEnds, TypeOK
    <3>2. load'[w].seen = load[w].seen
      BY <2>5, <3>1 DEF Settle, TryEnds, TypeOK, Load
    <3> QED BY <3>1, <3>2 DEF NothingLate
  <2>6. CASE ImportCached(w)
    <3>1. PICK n \in Name : n = Wanted(w) /\ modules[n] # None
      BY <2>6, WantedName DEF ImportCached
    <3>2. /\ UNCHANGED <<modules, found>> /\ \A u \in Worker \ {w} : load'[u] = load[u]
          /\ load[w] # None /\ load[w] \in Load
      BY <2>6, PluginAssumption DEF ImportCached, Importing, Uses, TypeOK
    <3>3. load'[w].seen = load[w].seen \cup {[name |-> n, module |-> modules[n]]}
      BY <2>6, <3>1, <3>2 DEF ImportCached, Uses, TypeOK, Load
    <3> QED BY <3>1, <3>2, <3>3 DEF NothingLate
  <2>7. CASE ImportFind(w)
    <3>1. PICK late \in BOOLEAN :
            /\ late = ByLatePackage(Wanted(w)) /\ UNCHANGED <<modules, load>>
            /\ found' = [found EXCEPT ![w] = [name |-> Wanted(w), dir |-> FoundDir(Wanted(w)),
                                              late |-> late]]
      BY <2>7 DEF ImportFind, Find, ByLatePackage
    <3>2. ~late
      BY <3>1 DEF ByLatePackage, Cached, NothingLate
    <3> QED BY <3>1, <3>2 DEF NothingLate, TypeOK
  <2>8. CASE ImportInsert(w)
    <3>1. /\ Insert(w) /\ Uses(w, modules'[Wanted(w)], {Wanted(w)})
          /\ Importing(w) /\ pc[w] = "importing"
      BY <2>8 DEF ImportInsert, Importing
    <3>2. /\ found[w] # None /\ found[w].name \in Name
          /\ modules'[found[w].name].late = found[w].late
          /\ \A n \in Name : n # found[w].name => modules'[n] = modules[n]
          /\ found'[w] = None /\ \A u \in Worker \ {w} : found'[u] = found[u]
      BY <3>1, InsertType
    <3>3. found[w].name = Wanted(w)
      BY <3>1, <3>2 DEF LoadInv, FindInv, Wanted
    <3>4. /\ load[w] # None /\ load[w] \in Load /\ \A u \in Worker \ {w} : load'[u] = load[u]
          /\ load'[w].seen = load[w].seen \cup {[name |-> Wanted(w), module |-> modules'[Wanted(w)]]}
      <4>1. load[w] # None /\ load[w] \in Load
        BY <3>1, PluginAssumption DEF TypeOK
      <4> QED BY <3>1, <4>1 DEF Uses, TypeOK, Load
    <3>5. ~modules'[Wanted(w)].late
      BY <3>2, <3>3 DEF NothingLate
    <3>6. \A u \in load'[w].seen : ~u.module.late
      BY <3>4, <3>5 DEF NothingLate
    <3> QED BY <3>2, <3>3, <3>4, <3>5, <3>6 DEF NothingLate
  <2>9. CASE ImportFails(w)
    <3>1. /\ \A n \in Name : modules'[n] = modules[n] \/ modules'[n] = None
          /\ \A u \in Worker : found'[u] = found[u] \/ found'[u] = None
          /\ \A u \in Worker \ {w} : load'[u] = load[u]
          /\ load[w] # None /\ load[w] \in Load
      BY <2>9, PluginAssumption DEF ImportFails, TypeOK
    <3>2. load'[w].seen = load[w].seen
      BY <2>9, <3>1 DEF ImportFails, TypeOK, Load
    <3> QED BY <3>1, <3>2 DEF NothingLate
  <2>10. CASE Restore(w) \/ Purge(w) \/ Leave(w)
    <3>1. /\ \A n \in Name : modules'[n] = modules[n] \/ modules'[n] = None
          /\ \A u \in Worker : load'[u] = load[u] \/ load'[u] = None
          /\ UNCHANGED found
      BY <2>10 DEF Restore, Purge, Leave, TypeOK
    <3> QED BY <3>1 DEF NothingLate
  <2>11. CASE LazyFind(w)
    BY <2>11, NoLateFind
  <2>12. CASE LazyInsert(w)
    <3>1. Insert(w) /\ UNCHANGED load
      BY <2>12 DEF LazyInsert
    <3>2. /\ found[w] # None /\ found[w].name \in Name
          /\ modules'[found[w].name].late = found[w].late
          /\ \A n \in Name : n # found[w].name => modules'[n] = modules[n]
          /\ found'[w] = None /\ \A u \in Worker \ {w} : found'[u] = found[u]
      BY <3>1, InsertType
    <3> QED BY <3>1, <3>2 DEF NothingLate
  <2> QED BY <1>2, <2>1, <2>2, <2>3, <2>4, <2>5, <2>6, <2>7, <2>8, <2>9, <2>10, <2>11, <2>12
          DEF Work
<1> QED BY <1>1, <1>2 DEF Next

(***************************************************************************)
(* loader.py:72-74: repositories with the same package names are isolated  *)
(* from one another, whatever their checks import, if the pool has a       *)
(* single thread: then no import happens beside a load.                    *)
(***************************************************************************)
THEOREM IsolatedWithOneWorker ==
  ASSUME \A u, v \in Worker : u = v
  PROVE  Spec => []LoadsIsolated
<1>1. Init => NothingLate
  BY DEF Init, NothingLate
<1>2. IInv /\ NothingLate /\ [Next]_vars => NothingLate'
  BY NothingLateStep
<1>3. IInv /\ NothingLate => LoadsIsolated
  BY DEF IInv, LoadInv, SeenInv, NothingLate, LoadsIsolated, Foreign
<1> QED BY <1>1, <1>2, <1>3, IInvHolds, PTL DEF Spec

-----------------------------------------------------------------------------
(***************************************************************************)
(* The phases of a check.                                                  *)
(***************************************************************************)
\* One worker goes on and the others stay where they are.
LEMMA PhaseGoes ==
  ASSUME NEW w \in Worker, NEW from, NEW to, Phase(w) = from, Phase(w)' = to,
         \A u \in Worker \ {w} : Phase(u)' = Phase(u)
  PROVE  Phases!Goes(w, from, to)
<1>1. [u \in Worker |-> Phase(u)]' = [[u \in Worker |-> Phase(u)] EXCEPT ![w] = to]
  OBVIOUS
<1>2. [u \in Worker |-> Phase(u)][w] = from
  OBVIOUS
<1> QED BY <1>1, <1>2 DEF Phases!Goes

\* A worker is inside the lock exactly while it loads.
LEMMA LoadingIsInside ==
  ASSUME TypeOK, NEW w \in Worker
  PROVE  Phase(w) = "loading" <=> Inside(w)
BY DEF TypeOK, Stages, Phase, Inside

LEMMA WorkPhases ==
  ASSUME IInv, NEW w \in Worker, Work(w)
  PROVE  [Phases!Next]_[u \in Worker |-> Phase(u)]
<1> USE DEF IInv
<1>1. \A u \in Worker \ {w} : Phase(u)' = Phase(u)
  BY DEF TypeOK, Phase, Work, Start, SetUpRaises, Enter, Try, Settle, ImportCached, ImportFind,
         ImportInsert, ImportFails, TryEnds, Restore, Purge, Leave, LazyFind, LazyInsert, CheckEnds
<1>2. ASSUME Phase(w)' = Phase(w) PROVE UNCHANGED [u \in Worker |-> Phase(u)]
  BY <1>1, <1>2
<1>3. ASSUME NEW p \in Plugin, Start(w, p) PROVE Phases!Next
  <2>1. Phase(w) = "idle" /\ Phase(w)' = "waiting"
    BY <1>3 DEF Start, TypeOK, Phase
  <2>2. Phases!Begin(w)
    BY <1>1, <2>1, PhaseGoes DEF Phases!Begin
  <2> QED BY <2>2 DEF Phases!Next
<1>4. CASE Enter(w)
  <2>1. Phase(w) = "waiting" /\ Phase(w)' = "loading"
    BY <1>4 DEF Enter, TypeOK, Phase
  <2>2. \A u \in Worker : [v \in Worker |-> Phase(v)][u] # "loading"
    <3> SUFFICES ASSUME NEW u \in Worker PROVE Phase(u) # "loading"
      OBVIOUS
    <3>1. lock = None /\ u # None
      BY <1>4, PluginAssumption DEF Enter
    <3>2. ~Inside(u)
      BY <3>1 DEF LoadInv, LockInv
    <3> QED BY <3>2, LoadingIsInside
  <2>3. Phases!Acquire(w)
    BY <1>1, <2>1, <2>2, PhaseGoes DEF Phases!Acquire
  <2> QED BY <2>3 DEF Phases!Next
<1>5. CASE \/ Try(w) \/ Settle(w) \/ ImportCached(w) \/ ImportFind(w) \/ ImportInsert(w)
           \/ ImportFails(w) \/ TryEnds(w) \/ Restore(w) \/ Purge(w)
  <2>1. /\ pc[w] \in {"trying", "importing", "restoring", "purging"}
        /\ pc'[w] \in {"trying", "importing", "restoring", "purging", "leaving"}
    BY <1>5 DEF TypeOK, Importing, Try, Settle, ImportCached, ImportFind, ImportInsert, ImportFails,
                TryEnds, Restore, Purge
  <2> QED BY <1>2, <2>1 DEF Phase
<1>6. CASE Leave(w)
  <2>1. Phase(w) = "loading" /\ Phase(w)' \in {"running", "idle"}
    BY <1>6 DEF Leave, TypeOK, Phase
  <2>2. Phases!Release(w)
    BY <1>1, <2>1, PhaseGoes DEF Phases!Release
  <2> QED BY <2>2 DEF Phases!Next
<1>9. CASE SetUpRaises(w)
  <2>1. Phase(w) = "waiting" /\ Phase(w)' = "idle"
    BY <1>9 DEF SetUpRaises, TypeOK, Phase
  <2>2. Phases!Drop(w)
    BY <1>1, <2>1, PhaseGoes DEF Phases!Drop
  <2> QED BY <2>2 DEF Phases!Next
<1>7. CASE LazyFind(w) \/ LazyInsert(w)
  BY <1>2, <1>7 DEF LazyFind, LazyInsert, Phase
<1>8. CASE CheckEnds(w)
  <2>1. Phase(w) = "running" /\ Phase(w)' = "idle"
    BY <1>8 DEF CheckEnds, TypeOK, Phase
  <2>2. Phases!End(w)
    BY <1>1, <2>1, PhaseGoes DEF Phases!End
  <2> QED BY <2>2 DEF Phases!Next
<1> QED BY <1>3, <1>4, <1>5, <1>6, <1>7, <1>8, <1>9 DEF Work

(***************************************************************************)
(* loader.py:388-399: for any plugins and any number of workers, every     *)
(* change a load makes to sys.path and sys.modules falls within one phase  *)
(* that no other load shares, as CheckService takes it.                    *)
(***************************************************************************)
THEOREM ImplementsPhases == Spec => PhasesSpec
<1>1. Init => Phases!Init
  BY DEF Init, Phase, Phases!Init, Phases!AllIdle
<1>2. ASSUME IInv, [Next]_vars PROVE [Phases!Next]_[w \in Worker |-> Phase(w)]
  <2>1. CASE UNCHANGED vars
    BY <2>1 DEF vars, Phase
  <2>2. CASE Next
    BY <1>2, <2>2, WorkPhases DEF Next
  <2> QED BY <1>2, <2>1, <2>2
<1> QED BY <1>1, <1>2, IInvHolds, PTL DEF Spec, PhasesSpec, Phases!Spec
=============================================================================
