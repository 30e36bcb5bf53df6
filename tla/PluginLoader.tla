---------------------------- MODULE PluginLoader ----------------------------
(***************************************************************************)
(* Loading plugin code (checker/loader.py).  Every load changes two things *)
(* the whole process shares, sys.path and sys.modules, and undoes that at  *)
(* its end: the directories it added leave sys.path, and the modules it    *)
(* brought in from its own repository leave sys.modules.  Repositories use *)
(* the same package names (hub), so a module left behind is picked up by   *)
(* the next repository that imports that name.                             *)
(*                                                                         *)
(* Loads are serialised by _load_lock.  The check that follows is not, and *)
(* a plugin may import there too (a function-level import in its           *)
(* set_release, say): it then sees whatever another load has set up.       *)
(*                                                                         *)
(* An import has two steps, under the lock CPython keeps per module name:  *)
(* the name is looked for, then the module enters sys.modules.  A top-     *)
(* level name is looked for along sys.path, a submodule where the package  *)
(* that is cached lies (its __path__), be that of another repository.      *)
(*                                                                         *)
(* Abstracted: what plugin code computes; modules of no repository (the    *)
(* SDK, third-party packages, the class a manifest may name); namespace    *)
(* packages, whose __path__ follows sys.path, so that what is in them is   *)
(* like a top-level name; and a module's body, which raises or runs with   *)
(* its own imports listed after it.  A load adds its directories in one    *)
(* step and removes them in one: the part of them that a check may see     *)
(* belongs to the same repository.                                         *)
(***************************************************************************)
EXTENDS Naturals, SequencesExt, Enumeration

CONSTANTS
  Worker,    \* the threads of the pool
  Plugin, Repo,
  Dir,       \* directories that can be on sys.path
  Name,      \* module names that belong to some repository
  None,
  Parent,    \* name -> the package it is a submodule of, if any
  Top,       \* name -> its top-level package
  Manifest,  \* the plugins that are manifests
  RepoOf,    \* plugin -> its repository
  Home,      \* plugin -> the directory that has its own files
  Owner,     \* directory -> its repository
  Provides,  \* directory -> the names whose modules lie below it
  Under,     \* repository -> the repositories whose path begins with its own
  Entries,   \* plugin -> the directories its load wants on sys.path
  Attempts,  \* plugin -> what its load tries in turn
  Lazy       \* plugin -> the names its check imports

(***************************************************************************)
(* One thing a load tries: a dumper file, registered under a unique name   *)
(* before it runs; a package or a manifest's release module, which it      *)
(* needs; or a dumper submodule of that package.  imports are the names    *)
(* that are imported, packages before their submodules; yields, whether    *)
(* there is a dumper class (or a release function) in it.                  *)
(***************************************************************************)
Attempt == [unique : Name \cup {None}, imports : Seq(Name), needed : BOOLEAN, yields : BOOLEAN]

ASSUME PluginAssumption ==
  /\ Manifest \subseteq Plugin
  /\ RepoOf \in [Plugin -> Repo]
  /\ Home \in [Plugin -> Dir]
  /\ Owner \in [Dir -> Repo]
  /\ Provides \in [Dir -> SUBSET Name]
  /\ Under \in [Repo -> SUBSET Repo]
  /\ \A r \in Repo : r \in Under[r]
  /\ Entries \in [Plugin -> Seq(Dir)]
  /\ Attempts \in [Plugin -> Seq(Attempt)]
  /\ Lazy \in [Plugin -> SUBSET Name]
  /\ None \notin Worker \cup Plugin \cup Repo \cup Name

ASSUME NameAssumption ==
  /\ Parent \in [Name -> Name \cup {None}]
  /\ Top \in [Name -> Name]
  /\ \A n \in Name : Top[n] = IF Parent[n] = None THEN n ELSE Top[Parent[n]]

\* A plugin's directories are its repository's own.
ASSUME EntriesAssumption ==
  \A p \in Plugin : /\ Owner[Home[p]] = RepoOf[p]
                    /\ \A i \in DOMAIN Entries[p] : Owner[Entries[p][i]] = RepoOf[p]

\* pulseadv_... is no module of a repository.
ASSUME UniqueAssumption ==
  \A p \in Plugin : \A i \in DOMAIN Attempts[p] : \A d \in Dir :
    Attempts[p][i].unique \notin Provides[d]

\* Who imports a submodule imports its packages.
ASSUME LazyAssumption ==
  \A p \in Plugin : \A n \in Lazy[p] :
    Top[n] \in Lazy[p] /\ (Parent[n] # None => Parent[n] \in Lazy[p])

VARIABLES
  lock,     \* the holder of _load_lock
  path,     \* the repository directories on sys.path, first searched first
  modules,  \* sys.modules: name -> the module cached under it
  pc,       \* worker -> where it is in check_plugin
  load,     \* worker -> the locals of its load
  found     \* worker -> the import it is in the middle of

vars == <<lock, path, modules, pc, load, found>>

\* dir is the directory it was found in.  late is history: an unlocked check
\* brought it in, or a package that is late led to it.
Module == [dir : Dir, late : BOOLEAN]

\* brought is what the current attempt imported itself.  seen is history: the
\* modules this load has used.
Load == [plugin : Plugin, before : SUBSET Name, added : SUBSET Dir, attempt : Nat,
         todo : Seq(Name), brought : SUBSET Name, classes : BOOLEAN, loaded : BOOLEAN,
         seen : SUBSET [name : Name, module : Module]]

ASSUME NoneAssumption == None \notin Load

Stages == {"idle", "waiting", "trying", "importing", "restoring", "purging", "leaving", "checking"}

Init ==
  /\ lock = None
  /\ path = <<>>
  /\ modules = [n \in Name |-> None]
  /\ pc = [w \in Worker |-> "idle"]
  /\ load = [w \in Worker |-> None]
  /\ found = [w \in Worker |-> None]

Cached == {n \in Name : modules[n] # None}

-----------------------------------------------------------------------------
(***************************************************************************)
(* Importing, from a load or from a check.                                 *)
(***************************************************************************)
\* Where n is looked for; without its package it cannot be.
Search(n) ==
  CASE Parent[n] = None -> path
    [] Parent[n] \in Cached -> <<modules[Parent[n]].dir>>
    [] OTHER -> <<>>

\* The first directory that has n decides.
Providers(n) == {i \in DOMAIN Search(n) : n \in Provides[Search(n)[i]]}

Importable(n) == Providers(n) # {}

FoundDir(n) == Search(n)[CHOOSE i \in Providers(n) : \A j \in Providers(n) : i <= j]

ByLatePackage(n) == Parent[n] \in Cached /\ modules[Parent[n]].late

\* The import lock of the name n.
Unlocked(w, n) == \A u \in Worker \ {w} : found[u] # None => found[u].name # n

Find(w, n, late) ==
  /\ found[w] = None /\ modules[n] = None
  /\ Unlocked(w, n)
  /\ Importable(n)
  /\ found' = [found EXCEPT ![w] = [name |-> n, dir |-> FoundDir(n), late |-> late]]

Insert(w) ==
  /\ found[w] # None
  /\ modules' = [modules EXCEPT ![found[w].name] = [dir |-> found[w].dir, late |-> found[w].late]]
  /\ found' = [found EXCEPT ![w] = None]

-----------------------------------------------------------------------------
(***************************************************************************)
(* A load: _import_release_func and load_advanced_dumper.                  *)
(***************************************************************************)
Start(w, p) ==
  /\ pc[w] = "idle"
  /\ pc' = [pc EXCEPT ![w] = "waiting"]
  /\ load' = [load EXCEPT ![w] =
                [plugin |-> p, before |-> {}, added |-> {}, attempt |-> 1, todo |-> <<>>,
                 brought |-> {}, classes |-> FALSE, loaded |-> FALSE, seen |-> {}]]
  /\ UNCHANGED <<lock, path, modules, found>>

\* check_plugin has no scratch directory for it.
SetUpRaises(w) ==
  /\ pc[w] = "waiting"
  /\ pc' = [pc EXCEPT ![w] = "idle"]
  /\ load' = [load EXCEPT ![w] = None]
  /\ UNCHANGED <<lock, path, modules, found>>

\* The positions in entries of what is not on sys.path, once each.
Missing(entries) ==
  {i \in DOMAIN entries : /\ entries[i] \notin ToSet(path)
                          /\ \A j \in 1..(i - 1) : entries[j] # entries[i]}

\* Slip: loading without the lock.
EnterUnlocked(w) ==
  LET entries == Entries[load[w].plugin] IN
  /\ pc[w] = "waiting"
  /\ lock' = w
  /\ \E fresh \in MembersAt(entries, Missing(entries)) :
       /\ path' = Reverse(fresh) \o path
       /\ load' = [load EXCEPT ![w].before = Cached, ![w].added = ToSet(fresh)]
  /\ pc' = [pc EXCEPT ![w] = "trying"]
  /\ UNCHANGED <<modules, found>>

\* with _load_lock.  Directories not on sys.path yet go to its front, one after
\* the other.
Enter(w) ==
  LET entries == Entries[load[w].plugin] IN
  /\ pc[w] = "waiting" /\ lock = None
  /\ lock' = w
  /\ \E fresh \in MembersAt(entries, Missing(entries)) :
       /\ path' = Reverse(fresh) \o path
       /\ load' = [load EXCEPT ![w].before = Cached, ![w].added = ToSet(fresh)]
  /\ pc' = [pc EXCEPT ![w] = "trying"]
  /\ UNCHANGED <<modules, found>>

\* What is tried now.
Tried(j) == Attempts[j.plugin][j.attempt]

\* The next dumper file, package, submodule or release module.
Try(w) ==
  LET j == load[w] IN
  /\ pc[w] = "trying" /\ j.attempt \in DOMAIN Attempts[j.plugin]
  /\ modules' = IF Tried(j).unique = None THEN modules
                ELSE [modules EXCEPT ![Tried(j).unique] = [dir |-> Home[j.plugin], late |-> FALSE]]
  /\ load' = [load EXCEPT ![w].todo = Tried(j).imports, ![w].brought = {}]
  /\ pc' = [pc EXCEPT ![w] = "importing"]
  /\ UNCHANGED <<lock, path, found>>

\* Nothing is left to try: the class found last is instantiated, which may
\* raise; without one it is UnsupportedPlugin.
Settle(w) ==
  LET j == load[w] IN
  /\ pc[w] = "trying" /\ j.attempt \notin DOMAIN Attempts[j.plugin]
  /\ \E ok \in BOOLEAN : (ok => j.classes) /\ load' = [load EXCEPT ![w].loaded = ok]
  /\ pc' = [pc EXCEPT ![w] = "restoring"]
  /\ UNCHANGED <<lock, path, modules, found>>

Importing(w) == pc[w] = "importing" /\ load[w].todo # <<>>

Wanted(w) == Head(load[w].todo)

\* The load goes on with the module that is cached under the name it wants.
Uses(w, module, new) ==
  load' = [load EXCEPT ![w].todo = Tail(@), ![w].brought = @ \cup new,
                       ![w].seen = @ \cup {[name |-> Wanted(w), module |-> module]}]

ImportCached(w) ==
  /\ Importing(w) /\ found[w] = None /\ modules[Wanted(w)] # None
  /\ Unlocked(w, Wanted(w))
  /\ Uses(w, modules[Wanted(w)], {})
  /\ UNCHANGED <<lock, path, modules, pc, found>>

ImportFind(w) ==
  /\ Importing(w)
  /\ Find(w, Wanted(w), ByLatePackage(Wanted(w)))
  /\ UNCHANGED <<lock, path, modules, pc, load>>

ImportInsert(w) ==
  /\ Importing(w)
  /\ Insert(w)
  /\ Uses(w, modules'[Wanted(w)], {Wanted(w)})
  /\ UNCHANGED <<lock, path, pc>>

\* A body raises, or what it wants does not exist, which ends this attempt.
\* Modules whose body was running leave sys.modules, a dumper file too.  Without
\* a module it needs the load raises.
ImportFails(w) ==
  LET j == load[w] IN
  /\ pc[w] = "importing"
  /\ \E running \in SUBSET j.brought :
       modules' = [n \in Name |-> IF n \in running \cup {Tried(j).unique} THEN None ELSE modules[n]]
  /\ found' = [found EXCEPT ![w] = None]
  /\ load' = [load EXCEPT ![w].attempt = @ + 1, ![w].todo = <<>>]
  /\ pc' = [pc EXCEPT ![w] = IF Tried(j).needed THEN "restoring" ELSE "trying"]
  /\ UNCHANGED <<lock, path>>

\* All imported.  The dumper class of a file is instantiated at once, which may
\* raise; otherwise the search goes on.
TryEnds(w) ==
  LET j == load[w] IN
  /\ pc[w] = "importing" /\ j.todo = <<>>
  /\ IF Tried(j).unique # None /\ Tried(j).yields
     THEN /\ \E ok \in BOOLEAN : load' = [load EXCEPT ![w].loaded = ok]
          /\ pc' = [pc EXCEPT ![w] = "restoring"]
     ELSE /\ load' = [load EXCEPT ![w].attempt = @ + 1, ![w].classes = @ \/ Tried(j).yields]
          /\ pc' = [pc EXCEPT ![w] = "trying"]
  /\ UNCHANGED <<lock, path, modules, found>>

Remaining(w) == {i \in DOMAIN path : path[i] \notin load[w].added}

\* Slip: sys.path is put back only after a load that succeeded.
RestoreOnSuccess(w) ==
  /\ pc[w] = "restoring"
  /\ path' \in IF load[w].loaded THEN MembersAt(path, Remaining(w)) ELSE {path}
  /\ pc' = [pc EXCEPT ![w] = "purging"]
  /\ UNCHANGED <<lock, modules, load, found>>

\* finally: for entry in added: sys.path.remove(entry)
Restore(w) ==
  /\ pc[w] = "restoring"
  /\ path' \in MembersAt(path, Remaining(w))
  /\ pc' = [pc EXCEPT ![w] = "purging"]
  /\ UNCHANGED <<lock, modules, load, found>>

\* Slip: a load that failed is not purged.
PurgedOnSuccess(j) ==
  IF j.loaded
  THEN {n \in Cached \ j.before : Owner[modules[n].dir] \in Under[RepoOf[j.plugin]]} ELSE {}

\* Of the names that are new, those whose file lies under the repository's
\* path, compared as strings.
Purged(j) ==
  {n \in Cached \ j.before : Owner[modules[n].dir] \in Under[RepoOf[j.plugin]]}

\* _purge_new_repo_modules.
Purge(w) ==
  /\ pc[w] = "purging"
  /\ modules' = [n \in Name |-> IF n \in Purged(load[w]) THEN None ELSE modules[n]]
  /\ pc' = [pc EXCEPT ![w] = "leaving"]
  /\ UNCHANGED <<lock, path, load, found>>

\* Whether there is a dumper: that of a manifest is instantiated only now.
Dumper(j) == {ok \in BOOLEAN : (ok => j.loaded) /\ (j.plugin \notin Manifest => ok = j.loaded)}

\* Slip: the dumper is dropped together with the lock.
LeaveForgets(w) ==
  /\ pc[w] = "leaving"
  /\ lock' = None
  /\ \E ok \in Dumper(load[w]) : pc' = [pc EXCEPT ![w] = IF ok THEN "checking" ELSE "idle"]
  /\ load' = [load EXCEPT ![w] = None]
  /\ UNCHANGED <<path, modules, found>>

\* Leaving the lock; a plugin with a dumper goes on to its check.
Leave(w) ==
  /\ pc[w] = "leaving"
  /\ lock' = None
  /\ \E ok \in Dumper(load[w]) :
       /\ pc' = [pc EXCEPT ![w] = IF ok THEN "checking" ELSE "idle"]
       /\ load' = [load EXCEPT ![w] = IF ok THEN load[w] ELSE None]
  /\ UNCHANGED <<path, modules, found>>

-----------------------------------------------------------------------------
(***************************************************************************)
(* The check, unlocked.                                                    *)
(***************************************************************************)
LazyFind(w) ==
  /\ pc[w] = "checking"
  /\ \E n \in Lazy[load[w].plugin] : Find(w, n, TRUE)
  /\ UNCHANGED <<lock, path, modules, pc, load>>

LazyInsert(w) ==
  /\ pc[w] = "checking"
  /\ Insert(w)
  /\ UNCHANGED <<lock, path, pc, load>>

\* The check returns or raises, an import it was in the middle of included.
CheckEnds(w) ==
  /\ pc[w] = "checking"
  /\ pc' = [pc EXCEPT ![w] = "idle"]
  /\ load' = [load EXCEPT ![w] = None]
  /\ found' = [found EXCEPT ![w] = None]
  /\ UNCHANGED <<lock, path, modules>>

-----------------------------------------------------------------------------
Work(w) ==
  \/ \E p \in Plugin : Start(w, p)
  \/ SetUpRaises(w) \/ Enter(w) \/ Try(w) \/ Settle(w)
  \/ ImportCached(w) \/ ImportFind(w) \/ ImportInsert(w) \/ ImportFails(w)
  \/ TryEnds(w) \/ Restore(w) \/ Purge(w) \/ Leave(w)
  \/ LazyFind(w) \/ LazyInsert(w) \/ CheckEnds(w)

Next == \E w \in Worker : Work(w)

Spec == Init /\ [][Next]_vars

-----------------------------------------------------------------------------
(***************************************************************************)
(* Properties.                                                             *)
(***************************************************************************)
TypeOK ==
  /\ lock \in Worker \cup {None}
  /\ path \in Seq(Dir)
  /\ modules \in [Name -> Module \cup {None}]
  /\ pc \in [Worker -> Stages]
  /\ load \in [Worker -> Load \cup {None}]
  /\ \A w \in Worker : pc[w] # "idle" => load[w] # None
  /\ found \in [Worker -> [name : Name, dir : Dir, late : BOOLEAN] \cup {None}]

(***************************************************************************)
(* loader.py:99-101: between loads sys.path is as it was, however a load   *)
(* ended, and during one it has directories of that load's repository only *)
(* (comment at loader.py:27-29).                                           *)
(***************************************************************************)
PathIsLoaders ==
  \A i \in DOMAIN path : lock # None /\ Owner[path[i]] = RepoOf[load[lock].plugin]

(***************************************************************************)
(* loader.py:385-386 and test_manifest_loader.py:58: whether a load        *)
(* succeeded, failed or was disturbed by the imports of running checks, it *)
(* leaves no module behind but such as those imports brought in or led to. *)
(***************************************************************************)
NoResidue ==
  lock = None => \A n \in Cached : modules[n].late

(***************************************************************************)
(* loader.py:69-74: repositories are isolated across loads: a load uses no *)
(* module of another repository.                                           *)
(***************************************************************************)
Foreign(w) == {u \in load[w].seen : Owner[u.module.dir] # RepoOf[load[w].plugin]}

LoadsIsolated == \A w \in Worker : load[w] # None => Foreign(w) = {}

(***************************************************************************)
(* The part of it that holds: loads alone do not disturb one another.  A   *)
(* foreign module was brought in by the unlocked import of a check, or is  *)
(* a submodule that such a foreign package led to, so only names below the *)
(* top-level packages that some check imports are at risk.                 *)
(***************************************************************************)
ImportedLate(n) == \E p \in Plugin : n \in Lazy[p]

ForeignOnlyByCheck ==
  \A w \in Worker : load[w] # None =>
    \A u \in Foreign(w) : u.module.late /\ ImportedLate(Top[u.name])

(***************************************************************************)
(* All of a load, from the first entry on sys.path to the purge, happens   *)
(* while no other load does, and a check begins only after its load: what  *)
(* CheckService takes for one step is one (checker/loader.py:388-399).     *)
(***************************************************************************)
Phase(w) ==
  CASE pc[w] \in {"idle", "waiting"} -> pc[w]
    [] pc[w] = "checking" -> "running"
    [] OTHER -> "loading"

Phases == INSTANCE LoadPhases WITH phase <- [w \in Worker |-> Phase(w)]

PhasesSpec == Phases!Spec
=============================================================================
