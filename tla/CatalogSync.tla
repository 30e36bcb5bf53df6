---------------------------- MODULE CatalogSync ----------------------------
(***************************************************************************)
(* sync_and_discover (service.py): every enabled repository is cloned or   *)
(* fetched and reset (plugins/sync.py), its plugins are discovered         *)
(* (plugins/discovery.py), and the catalog built from them replaces the    *)
(* old one.  The start-up thread and POST /admin/sync requests may run it  *)
(* at the same time, and so may processes of their own: the command line   *)
(* (cli.py) and scripts/install_plugin_requires.py; all of them on one     *)
(* cache directory and without a lock.                                     *)
(*                                                                         *)
(* git is a program of its own, so a step of it is what it leaves on disk: *)
(* a clone has a .git directory before it is complete, removes it when it  *)
(* fails and may leave it when it is killed; a reset or a submodule update *)
(* rewrites the work tree file by file; a killed git may leave its lock    *)
(* files behind (shallow.lock of a fetch, index.lock of a reset), which no *)
(* later git removes.  Two git programs that meet at a lock, or at the     *)
(* directory of a clone, are covered by any of them failing at any time.   *)
(*                                                                         *)
(* Abstracted: URLs, branches and depth; the globs, of which only the      *)
(* order they find directories in matters (path); the contents of a        *)
(* directory beyond its being a plugin or not.                             *)
(***************************************************************************)
EXTENDS Naturals

CONSTANTS
  Syncer,    \* threads that may run sync_and_discover
  Tool,      \* those that are processes of their own, not the service's
  Registry,  \* the configured repositories in order: [name, enabled]
  Commit,    \* numbered as they are pushed
  Upstream,  \* repository -> its commits
  File,      \* plugin directories that any commit may have
  Files,     \* commit -> its plugin directories
  Submodule, \* those that lie in a git submodule
  None

\* A manifest.json's directory or a package that looks like a plugin; path is
\* the place in which the globs of its kind find it.
Directory == [kind : {"manifest", "package"}, path : Nat, name : STRING]

ASSUME SyncerAssumption == Tool \subseteq Syncer
ASSUME RegistryAssumption ==
  /\ DOMAIN Registry \subseteq Nat
  /\ \A i, j \in DOMAIN Registry : Registry[i].name = Registry[j].name => i = j
ASSUME FilesAssumption ==
  /\ File \subseteq Directory /\ Submodule \subseteq File
  /\ Files \in [Commit -> SUBSET File]
  /\ \A f, g \in File : f.kind = g.kind /\ f.path = g.path => f = g
  /\ Commit \subseteq Nat /\ None \notin Commit

\* The positions of the enabled repositories, which are gone through in order.
ResolvedRepos == {i \in DOMAIN Registry : Registry[i].enabled}

Repo == {Registry[i].name : i \in ResolvedRepos}

ASSUME UpstreamAssumption == Upstream \in [Repo -> SUBSET Commit]

First(positions) == CHOOSE i \in positions : \A j \in positions : i <= j

VARIABLES
  head,       \* repository -> what upstream has
  checkout,   \* repository -> no .git directory, one of a clone that is not
              \* complete, or one of a complete clone
  locks,      \* repository -> the lock files that killed git programs left
  at,         \* repository -> the commit its index is at
  files,      \* repository -> the plugin directories in its work tree
  origin,     \* repository -> origin/<target>, as last fetched
  catalog,    \* repository -> its refs in service._catalog
  sync        \* syncer -> the locals of its sync_and_discover

disk == <<checkout, locks, at, files, origin>>
vars == <<head, disk, catalog, sync>>

EmptyCatalog == [r \in Repo |-> {}]

\* left is what a loop over the repositories has yet to visit.  failed, alone
\* and heads are history: the repositories whose own git
\* operations failed, whether no other sync has run beside this one, and, as
\* long as none has, what upstream has had since it began.
Sync == [pc : {"repo", "cloning", "fetching", "resetting", "submodules", "discovering"},
         left : SUBSET ResolvedRepos, paths : SUBSET Repo, catalog : [Repo -> SUBSET File],
         failed : SUBSET Repo, alone : BOOLEAN, heads : [Repo -> SUBSET Commit]]

Init ==
  /\ head \in [Repo -> Commit] /\ \A r \in Repo : head[r] \in Upstream[r]
  /\ checkout = [r \in Repo |-> "absent"]
  /\ locks = [r \in Repo |-> {}]
  /\ at = [r \in Repo |-> None]
  /\ files = [r \in Repo |-> {}]
  /\ origin = [r \in Repo |-> None]
  /\ catalog = EmptyCatalog
  /\ sync = [s \in Syncer |-> None]

Syncing(s, pc) == sync[s] # None /\ sync[s].pc = pc

\* The repository s is at.
Current(s) == Registry[First(sync[s].left)].name

-----------------------------------------------------------------------------
(***************************************************************************)
(* discover_plugins, on the directories F of a work tree, and the catalog  *)
(* made of what it returns.                                                *)
(***************************************************************************)
FirstOfName(F) == {f \in F : \A g \in F : g.name = f.name => f.path <= g.path}

OfKind(F, kind) == {f \in F : f.kind = kind}

\* A manifest plugin wins over an advanced one of the same name.
DiscoverPlugins(F) ==
  LET manifests == FirstOfName(OfKind(F, "manifest"))
      advanced  == FirstOfName(OfKind(F, "package"))
  IN  manifests \cup {f \in advanced : \A m \in manifests : m.name # f.name}

\* The order of the list it returns.
Before(f, g) ==
  \/ f.kind = "manifest" /\ g.kind = "package"
  \/ f.kind = g.kind /\ f.path < g.path

\* catalog[ref.key] = ref: of the refs with one key the last one stays.
Keyed(refs) == {f \in refs : \A g \in refs : g.name = f.name => g = f \/ Before(g, f)}

Catalogued(F) == Keyed(DiscoverPlugins(F))

-----------------------------------------------------------------------------
(***************************************************************************)
(* Work trees.                                                             *)
(***************************************************************************)
Content(c) == IF c = None THEN {} ELSE Files[c]

\* A tree whose main part is that of F and whose submodules are those of G.
Joined(F, G) == (F \ Submodule) \cup (G \cap Submodule)

\* A syncer whose git is rewriting the work tree of r.
Rewrites(s, r) ==
  /\ Syncing(s, "cloning") \/ Syncing(s, "resetting") \/ Syncing(s, "submodules")
  /\ Current(s) = r

\* The work tree that will be there when the git of s has ended well.
Aim(s) ==
  LET r == Current(s) IN
  CASE Syncing(s, "cloning")    -> Joined(Content(head[r]), files[r])
    [] Syncing(s, "resetting")  -> Joined(Content(origin[r]), files[r])
    [] Syncing(s, "submodules") -> Joined(files[r], Content(at[r]))

\* Trees between those of the set trees: what all of them have is there.
Mixture(trees) ==
  {F \in SUBSET UNION trees : \A f \in UNION trees : (\A G \in trees : f \in G) => f \in F}

\* What a reader may find, and what stays of the tree when git is stopped.
Readable(r) == Mixture({files[r]} \cup {Aim(s) : s \in {u \in Syncer : Rewrites(u, r)}})

-----------------------------------------------------------------------------
(***************************************************************************)
(* sync_registry.                                                          *)
(***************************************************************************)
\* Upstream moves on.
Push(r) ==
  /\ head[r] + 1 \in Upstream[r]
  /\ head' = [head EXCEPT ![r] = @ + 1]
  /\ sync' = [s \in Syncer |-> IF sync[s] # None /\ sync[s].alone
                               THEN [sync[s] EXCEPT !.heads[r] = @ \cup {head[r] + 1}]
                               ELSE sync[s]]
  /\ UNCHANGED <<disk, catalog>>

Begin(s) ==
  LET others == {u \in Syncer : sync[u] # None}
      NoHeads == [r \in Repo |-> {}]
  IN
  /\ sync[s] = None
  /\ sync' = [u \in Syncer |->
       CASE u = s -> [pc |-> "repo", left |-> ResolvedRepos, paths |-> {}, catalog |-> EmptyCatalog,
                      failed |-> {}, alone |-> others = {},
                      heads |-> IF others = {} THEN [r \in Repo |-> {head[r]}] ELSE NoHeads]
         [] u \in others -> [sync[u] EXCEPT !.alone = FALSE, !.heads = NoHeads]
         [] OTHER -> None]
  /\ UNCHANGED <<head, disk, catalog>>

\* for spec in repos
AtRepo(s) == Syncing(s, "repo") /\ sync[s].left # {}

Goes(s, pc) == sync' = [sync EXCEPT ![s].pc = pc]

NextRepo(s) == [sync[s] EXCEPT !.pc = "repo", !.left = @ \ {First(@)}]

\* Slip: the first failure ends the loop.
FailAborts(s) ==
  sync' = [sync EXCEPT ![s] = [sync[s] EXCEPT !.pc = "repo", !.left = {},
                                              !.failed = @ \cup {Current(s)}]]

\* except Exception: the failure is logged and the repository skipped.
Fail(s) == sync' = [sync EXCEPT ![s] = [NextRepo(s) EXCEPT !.failed = @ \cup {Current(s)}]]

Succeed(s) == sync' = [sync EXCEPT ![s] = [NextRepo(s) EXCEPT !.paths = @ \cup {Current(s)}]]

\* (dest / ".git").exists(): of whatever clone, also one still being made.
Fetch(s) ==
  /\ AtRepo(s) /\ checkout[Current(s)] # "absent"
  /\ Goes(s, "fetching")
  /\ UNCHANGED <<head, disk, catalog>>

\* origin.fetch(depth=depth) returns.
Fetched(s) ==
  LET r == Current(s) IN
  /\ Syncing(s, "fetching")
  /\ checkout[r] # "absent" /\ "shallow" \notin locks[r]
  /\ origin' = [origin EXCEPT ![r] = head[r]]
  /\ Goes(s, "resetting")
  /\ UNCHANGED <<head, checkout, locks, at, files, catalog>>

\* Slip: an update that failed counts.
FetchFailsQuietly(s) ==
  /\ Syncing(s, "fetching")
  /\ Succeed(s)
  /\ UNCHANGED <<head, disk, catalog>>

\* Upstream cannot be reached, the clone has no origin yet, a lock is held, or
\* the clone is gone.
FetchFails(s) ==
  /\ Syncing(s, "fetching")
  /\ Fail(s)
  /\ UNCHANGED <<head, disk, catalog>>

\* repo.git.reset("--hard", origin/target), which can also complete a clone
\* that was killed.
Reset(s) ==
  LET r == Current(s) IN
  /\ Syncing(s, "resetting")
  /\ checkout[r] # "absent" /\ origin[r] # None /\ "index" \notin locks[r]
  /\ checkout' = [checkout EXCEPT ![r] = "whole"]
  /\ at' = [at EXCEPT ![r] = origin[r]]
  /\ files' = [files EXCEPT ![r] = Aim(s)]
  /\ Goes(s, "submodules")
  /\ UNCHANGED <<head, locks, origin, catalog>>

\* Slip: a checkout that cannot be reset is removed.
ResetFailsWipes(s) ==
  /\ Syncing(s, "resetting")
  /\ checkout' = [checkout EXCEPT ![Current(s)] = "absent"]
  /\ Fail(s)
  /\ UNCHANGED <<head, locks, at, files, origin, catalog>>

\* No such branch, a lock is held, or the tree cannot be written.
ResetFails(s) ==
  LET r == Current(s) IN
  /\ Syncing(s, "resetting")
  /\ \E F \in Mixture({files[r], Aim(s)}) : files' = [files EXCEPT ![r] = F]
  /\ Fail(s)
  /\ UNCHANGED <<head, checkout, locks, at, origin, catalog>>

\* Slip: a .git directory is taken for a complete clone.
CloneUnguarded(s) ==
  /\ AtRepo(s) /\ checkout[Current(s)] = "absent"
  /\ checkout' = [checkout EXCEPT ![Current(s)] = "whole"]
  /\ Goes(s, "cloning")
  /\ UNCHANGED <<head, locks, at, files, origin, catalog>>

Clone(s) ==
  /\ AtRepo(s) /\ checkout[Current(s)] = "absent"
  /\ checkout' = [checkout EXCEPT ![Current(s)] = "partial"]
  /\ Goes(s, "cloning")
  /\ UNCHANGED <<head, locks, at, files, origin, catalog>>

Cloned(s) ==
  LET r == Current(s) IN
  /\ Syncing(s, "cloning")
  /\ checkout' = [checkout EXCEPT ![r] = "whole"]
  /\ origin' = [origin EXCEPT ![r] = head[r]]
  /\ at' = [at EXCEPT ![r] = head[r]]
  /\ files' = [files EXCEPT ![r] = Aim(s)]
  /\ Goes(s, "submodules")
  /\ UNCHANGED <<head, locks, catalog>>

\* git removes what it has made, and what others have made of it meanwhile.
CloneFails(s) ==
  LET r == Current(s) IN
  /\ Syncing(s, "cloning")
  /\ checkout' = [checkout EXCEPT ![r] = "absent"]
  /\ locks' = [locks EXCEPT ![r] = {}]
  /\ at' = [at EXCEPT ![r] = None]
  /\ files' = [files EXCEPT ![r] = {}]
  /\ origin' = [origin EXCEPT ![r] = None]
  /\ Fail(s)
  /\ UNCHANGED <<head, catalog>>

\* _update_submodules: it may be skipped, leave some of them out, or fail
\* half-way, which is no error.
UpdateSubmodules(s) ==
  LET r == Current(s) IN
  /\ Syncing(s, "submodules")
  /\ \E F \in Mixture({files[r], Aim(s)}) : files' = [files EXCEPT ![r] = F]
  /\ Succeed(s)
  /\ UNCHANGED <<head, checkout, locks, at, origin, catalog>>

-----------------------------------------------------------------------------
(***************************************************************************)
(* The rest of sync_and_discover.                                          *)
(***************************************************************************)
RegistrySynced(s) ==
  /\ Syncing(s, "repo") /\ sync[s].left = {}
  /\ sync' = [sync EXCEPT ![s].pc = "discovering", ![s].left = ResolvedRepos]
  /\ UNCHANGED <<head, disk, catalog>>

\* A repository without a local path is passed over.
Discover(s) ==
  LET r == Current(s) IN
  /\ Syncing(s, "discovering") /\ sync[s].left # {}
  /\ \E F \in Readable(r) :
       sync' = [sync EXCEPT ![s].left = @ \ {First(@)},
                            ![s].catalog[r] = IF r \in sync[s].paths THEN Catalogued(F) ELSE {}]
  /\ UNCHANGED <<head, disk, catalog>>

\* self._catalog = catalog
Swap(s) ==
  /\ s \notin Tool
  /\ Syncing(s, "discovering") /\ sync[s].left = {}
  /\ catalog' = sync[s].catalog
  /\ sync' = [sync EXCEPT ![s] = None]
  /\ UNCHANGED <<head, disk>>

\* What a tool discovered ends with it.
ToolEnds(s) ==
  /\ s \in Tool
  /\ Syncing(s, "discovering") /\ sync[s].left = {}
  /\ sync' = [sync EXCEPT ![s] = None]
  /\ UNCHANGED <<head, disk, catalog>>

Process == {Syncer \ Tool} \cup {{t} : t \in Tool}

\* The repositories at which the syncs in killed are in one of the stages pcs.
At(killed, pcs) ==
  {Current(s) : s \in {u \in killed : \E pc \in pcs : Syncing(u, pc)}}

\* What is left of the clones: removed are removed, shallow and index have that
\* lock file, tree is what became of the work trees.
Remains(removed, shallow, index, tree) ==
  /\ checkout' = [r \in Repo |-> IF r \in removed THEN "absent" ELSE checkout[r]]
  /\ locks' = [r \in Repo |-> IF r \in removed THEN {}
                              ELSE locks[r] \cup (IF r \in shallow THEN {"shallow"} ELSE {})
                                            \cup (IF r \in index THEN {"index"} ELSE {})]
  /\ at' = [r \in Repo |-> IF r \in removed THEN None ELSE at[r]]
  /\ files' = [r \in Repo |-> IF r \in removed THEN {}
                              ELSE IF r \in DOMAIN tree THEN tree[r] ELSE files[r]]
  /\ origin' = [r \in Repo |-> IF r \in removed THEN None ELSE origin[r]]

\* A process and its git are killed.  A clone is removed or stays as far as it
\* was made, like every tree; locks stay behind or not.  The next service has
\* an empty catalog.
Kill(killed) ==
  /\ \E removed \in SUBSET At(killed, {"cloning"}),
        shallow \in SUBSET At(killed, {"fetching", "cloning"}),
        index \in SUBSET At(killed, {"resetting", "cloning"}),
        tree \in [At(killed, {"cloning", "resetting", "submodules"}) -> SUBSET File] :
       /\ \A r \in DOMAIN tree : tree[r] \in Readable(r)
       /\ \A r \in shallow \cup index : checkout[r] # "absent"
       /\ Remains(removed, shallow, index, tree)
  /\ catalog' = IF killed \subseteq Tool THEN catalog ELSE EmptyCatalog
  /\ sync' = [s \in Syncer |-> IF s \in killed THEN None ELSE sync[s]]
  /\ UNCHANGED head

-----------------------------------------------------------------------------
SyncRepo(s) ==
  \/ Fetch(s) \/ Fetched(s) \/ FetchFails(s) \/ Reset(s) \/ ResetFails(s)
  \/ Clone(s) \/ Cloned(s) \/ CloneFails(s)
  \/ UpdateSubmodules(s)

SyncAndDiscover(s) ==
  Begin(s) \/ SyncRepo(s) \/ RegistrySynced(s) \/ Discover(s) \/ Swap(s)
  \/ ToolEnds(s)

Next ==
  \/ \E r \in Repo : Push(r)
  \/ \E s \in Syncer : SyncAndDiscover(s)
  \/ \E killed \in Process : Kill(killed)

Spec == Init /\ [][Next]_vars

-----------------------------------------------------------------------------
(***************************************************************************)
(* Properties.                                                             *)
(***************************************************************************)
AtGit(s) ==
  \E pc \in {"cloning", "fetching", "resetting", "submodules"} : Syncing(s, pc)

TypeOK ==
  /\ head \in [Repo -> Commit]
  /\ checkout \in [Repo -> {"absent", "partial", "whole"}]
  /\ locks \in [Repo -> SUBSET {"shallow", "index"}]
  /\ at \in [Repo -> Commit \cup {None}]
  /\ files \in [Repo -> SUBSET File]
  /\ origin \in [Repo -> Commit \cup {None}]
  /\ \A r \in Repo : checkout[r] = "whole" => origin[r] # None
  /\ catalog \in [Repo -> SUBSET File]
  /\ sync \in [Syncer -> Sync \cup {None}]
  /\ \A s \in Syncer : AtGit(s) => sync[s].left # {}

(***************************************************************************)
(* sync.py:82-83: a failure is skipped and does not take down the rest:    *)
(* the new catalog has a repository's plugins unless git failed on that    *)
(* very repository during this sync.                                       *)
(***************************************************************************)
FailureStaysLocal ==
  [][\A s \in Syncer : Swap(s) =>
       \A r \in Repo : r \in sync[s].paths \cup sync[s].failed]_vars

(***************************************************************************)
(* A sync that no other one overlaps yields, for each repository it        *)
(* synced, exactly the plugins of one commit that upstream had while it    *)
(* ran, whatever failed, killed and overlapping syncs left in the cache    *)
(* before (submodules apart, whose failed update is swallowed).  One that  *)
(* is overlapped may read a half-reset tree or bring back an older         *)
(* catalog; this says nothing about it.                                    *)
(***************************************************************************)
FreshWhenAlone ==
  [][\A s \in Syncer : Swap(s) /\ sync[s].alone =>
       \A r \in sync[s].paths :
         \E c \in sync[s].heads[r], D \in SUBSET Submodule :
           catalog'[r] = Catalogued(Joined(Files[c], D))]_vars

(***************************************************************************)
(* A complete clone without stale locks stays one whatever syncs overlap   *)
(* or fail (sync.py:24-40).  What can spoil it is a kill in the middle of  *)
(* git, or the end of a clone that was still being made when another sync  *)
(* fetched and reset it.                                                   *)
(***************************************************************************)
Usable(r) == checkout[r] = "whole" /\ locks[r] = {}

WholeStaysWhole ==
  [][\A r \in Repo : Usable(r) /\ ~Usable(r)' =>
       \E s \in Syncer : /\ AtGit(s) /\ Current(s) = r
                         /\ sync'[s] = None \/ CloneFails(s)]_vars
=============================================================================
