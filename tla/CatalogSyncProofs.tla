-------------------------- MODULE CatalogSyncProofs --------------------------
(***************************************************************************)
(* Theorems about CatalogSync, for any registry, any number of syncs in    *)
(* the service and beside it, any history of upstream and any failures and *)
(* kills: types, what discovery yields, failures that stay local, what can *)
(* spoil a complete clone, and the freshness of a sync nothing overlaps.   *)
(***************************************************************************)
EXTENDS CatalogSync, WellFoundedInduction, TLAPS

-----------------------------------------------------------------------------
(***************************************************************************)
(* Positions and trees.                                                    *)
(***************************************************************************)
LEMMA LeastExists ==
  ASSUME NEW S \in SUBSET Nat, S # {}
  PROVE  \E x \in S : \A y \in S : x <= y
<1>1. S \subseteq Nat
  OBVIOUS
<1>2. PICK x \in S : \A y \in S : ~ (<<y, x>> \in OpToRel(<, Nat))
  BY <1>1, WFMin, NatLessThanWellFounded
<1>3. ASSUME NEW y \in S PROVE x <= y
  <2>1. x \in Nat /\ y \in Nat
    BY <1>1
  <2>2. <<y, x>> \in Nat \X Nat /\ <<y, x>>[1] = y /\ <<y, x>>[2] = x
    BY <2>1
  <2>3. <<y, x>> \notin {ss \in Nat \X Nat : ss[1] < ss[2]}
    BY <1>2 DEF OpToRel
  <2>4. ~ (y < x)
    BY <2>2, <2>3
  <2> QED BY <2>1, <2>4
<1> QED BY <1>3

\* A loop that has positions left is at one of them.
LEMMA FirstIsLeft ==
  ASSUME NEW S \in SUBSET ResolvedRepos, S # {}
  PROVE  First(S) \in S
<1>1. S \in SUBSET Nat
  BY RegistryAssumption DEF ResolvedRepos
<1> QED BY <1>1, LeastExists DEF First

\* The repository a loop is at is one of the enabled ones.
LEMMA CurrentIsRepo ==
  ASSUME TypeOK, NEW s \in Syncer, sync[s] # None, sync[s].left # {}
  PROVE  /\ Current(s) \in Repo
         /\ First(sync[s].left) \in ResolvedRepos
         /\ Current(s) = Registry[First(sync[s].left)].name
<1>1. sync[s].left \in SUBSET ResolvedRepos
  BY DEF TypeOK, Sync
<1> QED BY <1>1, FirstIsLeft DEF Current, Repo

\* What a syncer makes of a work tree are directories that commits have.
LEMMA AimType ==
  ASSUME TypeOK, NEW s \in Syncer, NEW r \in Repo, Rewrites(s, r)
  PROVE  Aim(s) \in SUBSET File
<1>1. /\ Content(head[r]) \in SUBSET File /\ Content(origin[r]) \in SUBSET File
      /\ Content(at[r]) \in SUBSET File /\ files[r] \in SUBSET File
  BY FilesAssumption DEF Content, TypeOK
<1>2. Current(s) = r
  BY DEF Rewrites
<1>3. CASE Syncing(s, "cloning")
  BY <1>1, <1>2, <1>3 DEF Aim, Joined, Syncing
<1>4. CASE Syncing(s, "resetting")
  BY <1>1, <1>2, <1>4 DEF Aim, Joined, Syncing
<1>5. CASE Syncing(s, "submodules")
  BY <1>1, <1>2, <1>5 DEF Aim, Joined, Syncing
<1> QED BY <1>3, <1>4, <1>5 DEF Rewrites

LEMMA MixtureType ==
  ASSUME NEW trees \in SUBSET (SUBSET File), NEW F \in Mixture(trees)
  PROVE  F \in SUBSET File
BY DEF Mixture

\* Where two trees agree, what lies between them agrees with them.
LEMMA MixtureAgrees ==
  ASSUME NEW G \in SUBSET File, NEW H \in SUBSET File, G \ Submodule = H \ Submodule,
         NEW F \in Mixture({G, H})
  PROVE  F \ Submodule = G \ Submodule
BY DEF Mixture

\* What a reader finds are such directories; when nobody rewrites the tree,
\* it is the tree.
LEMMA ReadableType ==
  ASSUME TypeOK, NEW r \in Repo, NEW F \in Readable(r)
  PROVE  /\ F \in SUBSET File
         /\ (\A u \in Syncer : ~Rewrites(u, r)) => F = files[r]
<1> DEFINE aims == {Aim(s) : s \in {u \in Syncer : Rewrites(u, r)}}
<1>1. files[r] \in SUBSET File /\ aims \in SUBSET (SUBSET File)
  BY AimType DEF TypeOK
<1>2. F \in Mixture({files[r]} \cup aims)
  BY DEF Readable
<1>3. (\A u \in Syncer : ~Rewrites(u, r)) => aims = {}
  OBVIOUS
<1> HIDE DEF aims
<1>4. F \in SUBSET File
  BY <1>1, <1>2, MixtureType
<1>5. ASSUME aims = {} PROVE F = files[r]
  BY <1>2, <1>5 DEF Mixture
<1> QED BY <1>3, <1>4, <1>5

\* Discovery finds directories that are there, and one per name.
LEMMA DiscoverOnePerName ==
  ASSUME NEW F \in SUBSET File
  PROVE  /\ DiscoverPlugins(F) \in SUBSET File
         /\ \A f, g \in DiscoverPlugins(F) : f.name = g.name => f = g
<1>1. \A f \in F : f.path \in Nat /\ f.kind \in {"manifest", "package"}
  BY FilesAssumption DEF Directory
<1>2. ASSUME NEW kind \in {"manifest", "package"},
             NEW f \in FirstOfName(OfKind(F, kind)), NEW g \in FirstOfName(OfKind(F, kind)),
             f.name = g.name
      PROVE  f = g
  <2>1. f \in F /\ g \in F /\ f.kind = kind /\ g.kind = kind
    BY DEF FirstOfName, OfKind
  <2>2. f.path <= g.path /\ g.path <= f.path
    BY <1>2 DEF FirstOfName
  <2>3. f.path = g.path
    BY <1>1, <2>1, <2>2
  <2> QED BY <2>1, <2>3, FilesAssumption
<1>3. DiscoverPlugins(F) \in SUBSET File
  BY DEF DiscoverPlugins, FirstOfName, OfKind
<1>4. ASSUME NEW f \in DiscoverPlugins(F), NEW g \in DiscoverPlugins(F), f.name = g.name
      PROVE  f = g
  BY <1>2, <1>4 DEF DiscoverPlugins
<1> QED BY <1>3, <1>4

\* Of the directories of one name, the globs find one first.
LEMMA FirstOfNameFinds ==
  ASSUME NEW F \in SUBSET File, NEW f \in F
  PROVE  \E g \in FirstOfName(F) : g.name = f.name /\ g.path <= f.path
<1> DEFINE same  == {g \in F : g.name = f.name}
           paths == {g.path : g \in same}
<1>1. \A g \in F : g.path \in Nat
  BY FilesAssumption DEF Directory
<1>2. /\ paths \in SUBSET Nat
      /\ paths # {}
  BY <1>1
<1>3. PICK x \in paths : \A y \in paths : x <= y
  <2> HIDE DEF paths
  <2> QED BY <1>2, LeastExists
<1>4. PICK g \in same : x = g.path
  BY <1>3
<1>5. \A h \in F : h.name = f.name => g.path <= h.path
  BY <1>3, <1>4
<1>6. g \in F /\ g.name = f.name /\ g \in FirstOfName(F)
  BY <1>4, <1>5 DEF FirstOfName
<1> QED BY <1>5, <1>6

\* A dictionary of plugins with names of their own keeps them all.
LEMMA KeyedKeeps ==
  ASSUME NEW refs, \A f, g \in refs : f.name = g.name => f = g
  PROVE  Keyed(refs) = refs
BY DEF Keyed

LEMMA CataloguedType ==
  ASSUME NEW F \in SUBSET File
  PROVE  Catalogued(F) \in SUBSET File
BY DiscoverOnePerName DEF Catalogued, Keyed

(***************************************************************************)
(* discovery.py:67-135, service.py:46-52: whatever directories a tree has, *)
(* discovery yields exactly one plugin for every name that occurs, a       *)
(* manifest one whenever a manifest has that name, and of a kind the one   *)
(* the globs find first; so none of them is overwritten in the catalog.    *)
(***************************************************************************)
THEOREM DiscoverPerName ==
  ASSUME NEW F \in SUBSET File
  PROVE  /\ DiscoverPlugins(F) \subseteq F
         /\ \A g, h \in DiscoverPlugins(F) : g.name = h.name => g = h
         /\ \A f \in F : \E g \in DiscoverPlugins(F) :
              /\ g.name = f.name
              /\ f.kind = "manifest" => g.kind = "manifest"
              /\ f.kind = g.kind => g.path <= f.path
         /\ Catalogued(F) = DiscoverPlugins(F)
<1> DEFINE manifests == OfKind(F, "manifest")
           packages  == OfKind(F, "package")
<1>1. DiscoverPlugins(F) \subseteq F
  BY DEF DiscoverPlugins, FirstOfName, OfKind
<1>2. \A f \in F : f \in manifests \/ f \in packages
  BY FilesAssumption DEF Directory, OfKind
<1>3. /\ manifests \in SUBSET File /\ packages \in SUBSET File
      /\ \A g \in FirstOfName(manifests) : g.kind = "manifest"
      /\ \A g \in packages : g.kind = "package"
  BY DEF OfKind, FirstOfName
<1>4. ASSUME NEW f \in manifests
      PROVE  \E g \in DiscoverPlugins(F) :
               g.name = f.name /\ g.kind = "manifest" /\ g.path <= f.path
  <2>1. PICK g \in FirstOfName(manifests) : g.name = f.name /\ g.path <= f.path
    BY <1>3, FirstOfNameFinds
  <2> QED BY <1>3, <2>1 DEF DiscoverPlugins
<1>5. ASSUME NEW f \in packages
      PROVE  \E g \in DiscoverPlugins(F) :
               g.name = f.name /\ (f.kind = g.kind => g.path <= f.path)
  <2>1. PICK g \in FirstOfName(packages) : g.name = f.name /\ g.path <= f.path
    BY <1>3, FirstOfNameFinds
  <2>2. CASE \A m \in FirstOfName(manifests) : m.name # g.name
    BY <2>1, <2>2 DEF DiscoverPlugins
  <2>3. CASE \E m \in FirstOfName(manifests) : m.name = g.name
    BY <1>3, <2>1, <2>3 DEF DiscoverPlugins
  <2> QED BY <2>2, <2>3
<1>6. ASSUME NEW f \in F
      PROVE  \E g \in DiscoverPlugins(F) :
               /\ g.name = f.name
               /\ f.kind = "manifest" => g.kind = "manifest"
               /\ f.kind = g.kind => g.path <= f.path
  <2>1. CASE f \in manifests
    BY <1>4, <2>1
  <2>2. CASE f \in packages
    BY <1>3, <1>5, <2>2
  <2> QED BY <1>2, <2>1, <2>2
<1>7. Catalogued(F) = DiscoverPlugins(F)
  BY DiscoverOnePerName, KeyedKeeps DEF Catalogued
<1> QED BY <1>1, <1>6, <1>7, DiscoverOnePerName

-----------------------------------------------------------------------------
(***************************************************************************)
(* Type correctness.                                                       *)
(***************************************************************************)
LEMMA EmptyCatalogType == EmptyCatalog \in [Repo -> SUBSET File]
BY DEF EmptyCatalog

\* What the steps of a sync make of its locals.
LEMMA SyncRecord ==
  ASSUME NEW j \in Sync
  PROVE  /\ \A pc \in {"repo", "cloning", "fetching", "resetting", "submodules", "discovering"} :
              [j EXCEPT !.pc = pc] \in Sync
         /\ \A pc \in {"repo", "discovering"}, left \in SUBSET ResolvedRepos :
              [j EXCEPT !.pc = pc, !.left = left] \in Sync
         /\ \A r \in Repo :
              /\ [j EXCEPT !.paths = j.paths \cup {r}] \in Sync
              /\ [j EXCEPT !.failed = j.failed \cup {r}] \in Sync
         /\ \A r \in Repo, left \in SUBSET ResolvedRepos, F \in SUBSET File :
              [j EXCEPT !.left = left, !.catalog[r] = F] \in Sync
         /\ \A heads \in [Repo -> SUBSET Commit] :
              /\ [j EXCEPT !.heads = heads] \in Sync
              /\ [j EXCEPT !.alone = FALSE, !.heads = heads] \in Sync
BY DEF Sync

\* A step that gives one sync new locals.
LEMMA SyncType ==
  ASSUME NEW s \in Syncer, NEW j \in Sync \cup {None},
         sync \in [Syncer -> Sync \cup {None}], sync' = [sync EXCEPT ![s] = j]
  PROVE  sync' \in [Syncer -> Sync \cup {None}]
OBVIOUS

\* The steps of a sync leave the other syncs alone.
LEMMA GoesType ==
  ASSUME TypeOK, NEW s \in Syncer, sync[s] # None, sync[s].left # {},
         NEW pc \in {"fetching", "resetting", "submodules", "cloning"}, Goes(s, pc)
  PROVE  /\ sync' \in [Syncer -> Sync \cup {None}]
         /\ sync'[s] \in Sync
         /\ sync'[s] = [sync[s] EXCEPT !.pc = pc]
         /\ \A u \in Syncer \ {s} : sync'[u] = sync[u]
         /\ \A u \in Syncer : AtGit(u)' => sync'[u].left # {}
<1>1. sync[s] \in Sync
  BY DEF TypeOK
<1>2. [sync[s] EXCEPT !.pc = pc] \in Sync
  BY <1>1, SyncRecord
<1>3. sync' = [sync EXCEPT ![s] = [sync[s] EXCEPT !.pc = pc]]
  BY DEF Goes
<1>4. sync' \in [Syncer -> Sync \cup {None}]
  BY <1>2, <1>3, SyncType DEF TypeOK
<1>5. sync'[s] = [sync[s] EXCEPT !.pc = pc] /\ \A u \in Syncer \ {s} : sync'[u] = sync[u]
  BY <1>3 DEF TypeOK
<1>6. sync'[s].left = sync[s].left
  BY <1>1, <1>5 DEF Sync
<1> QED BY <1>2, <1>4, <1>5, <1>6 DEF TypeOK, AtGit, Syncing

LEMMA FailSucceedType ==
  ASSUME TypeOK, NEW s \in Syncer, sync[s] # None, sync[s].left # {}, Fail(s) \/ Succeed(s)
  PROVE  /\ sync' \in [Syncer -> Sync \cup {None}]
         /\ sync'[s] \in Sync
         /\ sync'[s].pc = "repo"
         /\ sync'[s].left = sync[s].left \ {First(sync[s].left)}
         /\ Fail(s) => sync'[s].failed = sync[s].failed \cup {Current(s)} /\ sync'[s].paths = sync[s].paths
         /\ Succeed(s) => sync'[s].paths = sync[s].paths \cup {Current(s)} /\ sync'[s].failed = sync[s].failed
         /\ sync'[s].catalog = sync[s].catalog /\ sync'[s].alone = sync[s].alone
         /\ sync'[s].heads = sync[s].heads
         /\ \A u \in Syncer \ {s} : sync'[u] = sync[u]
         /\ \A u \in Syncer : AtGit(u)' => sync'[u].left # {}
<1>1. sync[s] \in Sync
  BY DEF TypeOK
<1>2. PICK r \in Repo : r = Current(s)
  BY CurrentIsRepo
<1>3. PICK left \in SUBSET ResolvedRepos : left = sync[s].left \ {First(sync[s].left)}
  BY <1>1 DEF Sync
<1>4. PICK j \in Sync : j = NextRepo(s)
  BY <1>1, <1>3, SyncRecord DEF NextRepo
<1>5. /\ j.pc = "repo" /\ j.left = left /\ j.paths = sync[s].paths /\ j.failed = sync[s].failed
      /\ j.catalog = sync[s].catalog /\ j.alone = sync[s].alone /\ j.heads = sync[s].heads
  BY <1>1, <1>3, <1>4 DEF NextRepo, Sync
<1>6. [j EXCEPT !.paths = j.paths \cup {r}] \in Sync /\ [j EXCEPT !.failed = j.failed \cup {r}] \in Sync
  BY SyncRecord
<1>7. /\ Fail(s) => sync' = [sync EXCEPT ![s] = [j EXCEPT !.failed = j.failed \cup {r}]]
      /\ Succeed(s) => sync' = [sync EXCEPT ![s] = [j EXCEPT !.paths = j.paths \cup {r}]]
  BY <1>2, <1>4 DEF Fail, Succeed
<1>8. sync' \in [Syncer -> Sync \cup {None}]
  BY <1>6, <1>7, SyncType DEF TypeOK
<1>9. /\ Fail(s) => sync'[s] = [j EXCEPT !.failed = j.failed \cup {r}]
      /\ Succeed(s) => sync'[s] = [j EXCEPT !.paths = j.paths \cup {r}]
      /\ \A u \in Syncer \ {s} : sync'[u] = sync[u]
  BY <1>7 DEF TypeOK
<1>10. /\ sync'[s] \in Sync /\ sync'[s].pc = "repo" /\ sync'[s].left = left
       /\ Fail(s) => sync'[s].failed = sync[s].failed \cup {r} /\ sync'[s].paths = sync[s].paths
       /\ Succeed(s) => sync'[s].paths = sync[s].paths \cup {r} /\ sync'[s].failed = sync[s].failed
       /\ sync'[s].catalog = sync[s].catalog /\ sync'[s].alone = sync[s].alone
       /\ sync'[s].heads = sync[s].heads
  BY <1>5, <1>6, <1>9 DEF Sync
<1>11. ~AtGit(s)' /\ \A u \in Syncer \ {s} : AtGit(u)' <=> AtGit(u)
  BY <1>9, <1>10 DEF AtGit, Syncing
<1>12. \A u \in Syncer : AtGit(u)' => sync'[u].left # {}
  BY <1>9, <1>11 DEF TypeOK
<1> QED BY <1>2, <1>3, <1>8, <1>9, <1>10, <1>12

\* The choices a kill leaves open.
LEMMA KillChoices ==
  ASSUME TypeOK, NEW killed \in Process, Kill(killed)
  PROVE  /\ killed \subseteq Syncer
         /\ \E removed \in SUBSET At(killed, {"cloning"}),
               shallow \in SUBSET At(killed, {"fetching", "cloning"}),
               index \in SUBSET At(killed, {"resetting", "cloning"}),
               tree \in [At(killed, {"cloning", "resetting", "submodules"}) -> SUBSET File] :
              Remains(removed, shallow, index, tree)
<1>1. killed \subseteq Syncer
  BY SyncerAssumption DEF Process
<1>2. \E removed \in SUBSET At(killed, {"cloning"}),
         shallow \in SUBSET At(killed, {"fetching", "cloning"}),
         index \in SUBSET At(killed, {"resetting", "cloning"}),
         tree \in [At(killed, {"cloning", "resetting", "submodules"}) -> SUBSET File] :
        /\ \A r \in DOMAIN tree : tree[r] \in Readable(r)
        /\ \A r \in shallow \cup index : checkout[r] # "absent"
        /\ Remains(removed, shallow, index, tree)
  BY Zenon DEF Kill
<1> QED BY <1>1, <1>2, Zenon

LEMMA KillType ==
  ASSUME TypeOK, NEW killed \in Process, Kill(killed)
  PROVE  /\ checkout' \in [Repo -> {"absent", "partial", "whole"}]
         /\ locks' \in [Repo -> SUBSET {"shallow", "index"}]
         /\ at' \in [Repo -> Commit \cup {None}]
         /\ files' \in [Repo -> SUBSET File]
         /\ origin' \in [Repo -> Commit \cup {None}]
         /\ \A r \in Repo : checkout'[r] = "whole" => origin'[r] # None
<1>1. PICK removed \in SUBSET At(killed, {"cloning"}),
           shallow \in SUBSET At(killed, {"fetching", "cloning"}),
           index \in SUBSET At(killed, {"resetting", "cloning"}),
           tree \in [At(killed, {"cloning", "resetting", "submodules"}) -> SUBSET File] :
        Remains(removed, shallow, index, tree)
  BY KillChoices
<1>2. files' \in [Repo -> SUBSET File]
  BY <1>1 DEF TypeOK, Remains
<1>3. locks' \in [Repo -> SUBSET {"shallow", "index"}]
  BY <1>1 DEF TypeOK, Remains
<1>4. /\ checkout' \in [Repo -> {"absent", "partial", "whole"}]
      /\ at' \in [Repo -> Commit \cup {None}]
      /\ origin' \in [Repo -> Commit \cup {None}]
  BY <1>1 DEF TypeOK, Remains
<1>5. \A r \in Repo : checkout'[r] = "whole" => origin'[r] # None
  BY <1>1 DEF TypeOK, Remains
<1> QED BY <1>2, <1>3, <1>4, <1>5

\* A kill changes the clones that its victims are at, no others.
LEMMA KillEffect ==
  ASSUME TypeOK, NEW killed \in Process, Kill(killed), NEW r \in Repo,
         \A s \in killed : AtGit(s) => Current(s) # r
  PROVE  /\ checkout'[r] = checkout[r] /\ locks'[r] = locks[r] /\ at'[r] = at[r]
         /\ files'[r] = files[r] /\ origin'[r] = origin[r]
<1>1. ASSUME NEW pcs \in SUBSET {"cloning", "fetching", "resetting", "submodules"}
      PROVE  r \notin At(killed, pcs)
  BY <1>1 DEF At, AtGit
<1>2. /\ r \notin At(killed, {"cloning"}) /\ r \notin At(killed, {"fetching", "cloning"})
      /\ r \notin At(killed, {"resetting", "cloning"})
      /\ r \notin At(killed, {"cloning", "resetting", "submodules"})
  BY <1>1
<1>3. PICK removed \in SUBSET At(killed, {"cloning"}),
           shallow \in SUBSET At(killed, {"fetching", "cloning"}),
           index \in SUBSET At(killed, {"resetting", "cloning"}),
           tree \in [At(killed, {"cloning", "resetting", "submodules"}) -> SUBSET File] :
        Remains(removed, shallow, index, tree)
  BY KillChoices
<1>4. r \notin removed /\ r \notin shallow /\ r \notin index /\ r \notin DOMAIN tree
  BY <1>2
<1> QED BY <1>3, <1>4 DEF Remains

LEMMA TypeInit == Init => TypeOK
BY EmptyCatalogType, FilesAssumption DEF Init, TypeOK, AtGit, Syncing

LEMMA TypeStep == TypeOK /\ [Next]_vars => TypeOK'
<1> SUFFICES ASSUME TypeOK, [Next]_vars PROVE TypeOK'
  OBVIOUS
<1> USE DEF disk
<1>1. ASSUME NEW r \in Repo, Push(r) PROVE TypeOK'
  <2>1. head' \in [Repo -> Commit]
    BY <1>1, UpstreamAssumption DEF Push, TypeOK
  <2>2. ASSUME NEW s \in Syncer PROVE sync'[s] \in Sync \cup {None}
    <3>1. CASE sync[s] # None /\ sync[s].alone
      <4>1. sync[s] \in Sync
        BY <3>1 DEF TypeOK
      <4>2. PICK heads \in [Repo -> SUBSET Commit] :
              heads = [sync[s].heads EXCEPT ![r] = sync[s].heads[r] \cup {head[r] + 1}]
        BY <4>1, <1>1, UpstreamAssumption DEF Sync, Push
      <4>3. sync'[s] = [sync[s] EXCEPT !.heads = heads]
        BY <3>1, <4>1, <4>2, <1>1 DEF Push, Sync
      <4>4. [sync[s] EXCEPT !.heads = heads] \in Sync
        BY <4>1, SyncRecord
      <4> QED BY <4>3, <4>4
    <3>2. CASE ~(sync[s] # None /\ sync[s].alone)
      BY <3>2, <1>1 DEF Push, TypeOK
    <3> QED BY <3>1, <3>2
  <2>3. sync' \in [Syncer -> Sync \cup {None}]
    BY <2>2, <1>1 DEF Push
  <2>4. ASSUME NEW s \in Syncer, sync'[s] # None
        PROVE  sync[s] # None /\ sync'[s].pc = sync[s].pc /\ sync'[s].left = sync[s].left
    BY <1>1, <2>4 DEF Push, TypeOK, Sync
  <2>5. \A u \in Syncer : AtGit(u)' => sync'[u].left # {}
    BY <2>4 DEF AtGit, Syncing, TypeOK
  <2> QED BY <1>1, <2>1, <2>3, <2>5 DEF Push, TypeOK
<1>2. ASSUME NEW s \in Syncer, Begin(s) PROVE TypeOK'
  <2> DEFINE others == {u \in Syncer : sync[u] # None}
             NoHeads == [r \in Repo |-> {}]
  <2>1. NoHeads \in [Repo -> SUBSET Commit] /\ [r \in Repo |-> {head[r]}] \in [Repo -> SUBSET Commit]
    BY DEF TypeOK
  <2>2. ASSUME NEW u \in Syncer PROVE sync'[u] \in Sync \cup {None}
    <3>1. CASE u = s
      BY <1>2, <2>1, <3>1, EmptyCatalogType DEF Begin, Sync
    <3>2. CASE u # s /\ u \in others
      <4>1. sync[u] \in Sync
        BY <3>2 DEF TypeOK
      <4>2. sync'[u] = [sync[u] EXCEPT !.alone = FALSE, !.heads = NoHeads]
        BY <1>2, <3>2 DEF Begin
      <4> QED BY <4>1, <4>2, <2>1, SyncRecord
    <3>3. CASE u # s /\ u \notin others
      BY <1>2, <3>3 DEF Begin
    <3> QED BY <3>1, <3>2, <3>3
  <2>3. sync' \in [Syncer -> Sync \cup {None}]
    BY <2>2, <1>2 DEF Begin
  <2>4. ASSUME NEW u \in Syncer, AtGit(u)' PROVE sync'[u].left # {}
    <3>1. CASE u = s
      <4>1. sync'[u].pc = "repo"
        BY <1>2, <3>1 DEF Begin
      <4> QED BY <4>1, <2>4 DEF AtGit, Syncing
    <3>2. CASE u # s /\ u \in others
      <4>1. sync[u] \in Sync /\ sync[u] # None
        BY <3>2 DEF TypeOK
      <4>2. sync'[u] = [sync[u] EXCEPT !.alone = FALSE, !.heads = NoHeads]
        BY <1>2, <3>2 DEF Begin
      <4>3. sync'[u].pc = sync[u].pc /\ sync'[u].left = sync[u].left
        BY <4>1, <4>2 DEF Sync
      <4> QED BY <4>1, <4>3, <2>4 DEF AtGit, Syncing, TypeOK
    <3>3. CASE u # s /\ u \notin others
      BY <1>2, <3>3, <2>4 DEF Begin, AtGit, Syncing
    <3> QED BY <3>1, <3>2, <3>3
  <2> QED BY <1>2, <2>3, <2>4 DEF Begin, TypeOK
<1>3. ASSUME NEW s \in Syncer, SyncRepo(s), sync[s] # None, sync[s].left # {} PROVE TypeOK'
  <2>1. PICK r \in Repo : r = Current(s)
    BY <1>3, CurrentIsRepo
  <2> DEFINE SyncOK == /\ sync' \in [Syncer -> Sync \cup {None}]
                       /\ \A u \in Syncer : AtGit(u)' => sync'[u].left # {}
  <2>2. ASSUME NEW pc \in {"fetching", "resetting", "submodules", "cloning"}, Goes(s, pc)
        PROVE  SyncOK
    BY <1>3, <2>2, GoesType
  <2>3. ASSUME Fail(s) \/ Succeed(s) PROVE SyncOK
    BY <1>3, <2>3, FailSucceedType
  <2>4. ASSUME Rewrites(s, r) PROVE Aim(s) \in SUBSET File /\ \A F \in Mixture({files[r], Aim(s)}) : F \in SUBSET File
    BY <2>4, AimType, MixtureType DEF TypeOK
  <2> HIDE DEF SyncOK
  <2>5. CASE Fetch(s) \/ FetchFails(s)
    BY <2>2, <2>3, <2>5 DEF Fetch, FetchFails, TypeOK, SyncOK
  <2>6. CASE Fetched(s)
    <3>1. origin' \in [Repo -> Commit \cup {None}] /\ origin'[r] # None
      BY <2>1, <2>6, FilesAssumption DEF Fetched, TypeOK
    <3>2. \A q \in Repo \ {r} : origin'[q] = origin[q]
      BY <2>1, <2>6 DEF Fetched, TypeOK
    <3> QED BY <2>2, <2>6, <3>1, <3>2 DEF Fetched, TypeOK, SyncOK
  <2>7. CASE Reset(s)
    <3>1. files' \in [Repo -> SUBSET File]
      BY <2>1, <2>4, <2>7 DEF Reset, Rewrites, TypeOK
    <3>2. /\ checkout' \in [Repo -> {"absent", "partial", "whole"}]
          /\ at' \in [Repo -> Commit \cup {None}]
          /\ \A q \in Repo : checkout'[q] = "whole" => origin'[q] # None
      BY <2>1, <2>7 DEF Reset, TypeOK
    <3> QED BY <2>2, <2>7, <3>1, <3>2 DEF Reset, TypeOK, SyncOK
  <2>8. CASE ResetFails(s)
    <3>1. files' \in [Repo -> SUBSET File]
      BY <2>1, <2>4, <2>8 DEF ResetFails, Rewrites, TypeOK
    <3> QED BY <2>3, <2>8, <3>1 DEF ResetFails, TypeOK, SyncOK
  <2>9. CASE Clone(s)
    BY <2>1, <2>2, <2>9 DEF Clone, TypeOK, SyncOK
  <2>10. CASE Cloned(s)
    <3>1. files' \in [Repo -> SUBSET File]
      BY <2>1, <2>4, <2>10 DEF Cloned, Rewrites, TypeOK
    <3>2. /\ checkout' \in [Repo -> {"absent", "partial", "whole"}]
          /\ at' \in [Repo -> Commit \cup {None}] /\ origin' \in [Repo -> Commit \cup {None}]
          /\ \A q \in Repo : checkout'[q] = "whole" => origin'[q] # None
      BY <2>1, <2>10, FilesAssumption DEF Cloned, TypeOK
    <3> QED BY <2>2, <2>10, <3>1, <3>2 DEF Cloned, TypeOK, SyncOK
  <2>11. CASE CloneFails(s)
    <3>1. /\ checkout' \in [Repo -> {"absent", "partial", "whole"}]
          /\ locks' \in [Repo -> SUBSET {"shallow", "index"}]
          /\ at' \in [Repo -> Commit \cup {None}] /\ origin' \in [Repo -> Commit \cup {None}]
          /\ files' \in [Repo -> SUBSET File]
      BY <2>1, <2>11 DEF CloneFails, TypeOK
    <3>2. \A q \in Repo : checkout'[q] = "whole" => origin'[q] # None
      BY <2>1, <2>11 DEF CloneFails, TypeOK
    <3> QED BY <2>3, <2>11, <3>1, <3>2 DEF CloneFails, TypeOK, SyncOK
  <2>12. CASE UpdateSubmodules(s)
    <3>1. files' \in [Repo -> SUBSET File]
      BY <2>1, <2>4, <2>12 DEF UpdateSubmodules, Rewrites, TypeOK
    <3> QED BY <2>3, <2>12, <3>1 DEF UpdateSubmodules, TypeOK, SyncOK
  <2> QED BY <1>3, <2>5, <2>6, <2>7, <2>8, <2>9, <2>10, <2>11, <2>12 DEF SyncRepo
<1>4. ASSUME NEW s \in Syncer, RegistrySynced(s) PROVE TypeOK'
  <2>1. sync[s] \in Sync
    BY <1>4 DEF RegistrySynced, Syncing, TypeOK
  <2>2. sync' = [sync EXCEPT ![s] = [sync[s] EXCEPT !.pc = "discovering", !.left = ResolvedRepos]]
    BY <1>4 DEF RegistrySynced
  <2>3. sync' \in [Syncer -> Sync \cup {None}]
    BY <2>1, <2>2, SyncRecord, SyncType DEF TypeOK
  <2>4. /\ sync'[s].pc = "discovering"
        /\ \A u \in Syncer \ {s} : sync'[u] = sync[u]
    BY <2>1, <2>2 DEF TypeOK, Sync
  <2>5. \A u \in Syncer : AtGit(u)' => sync'[u].left # {}
    BY <2>4 DEF AtGit, Syncing, TypeOK
  <2> QED BY <1>4, <2>3, <2>5 DEF RegistrySynced, TypeOK
<1>5. ASSUME NEW s \in Syncer, Discover(s) PROVE TypeOK'
  <2>1. sync[s] \in Sync /\ sync[s] # None /\ sync[s].left # {}
    BY <1>5 DEF Discover, Syncing, TypeOK
  <2>2. PICK r \in Repo : r = Current(s)
    BY <2>1, CurrentIsRepo
  <2>3. PICK F \in Readable(r) :
          sync' = [sync EXCEPT ![s].left = @ \ {First(@)},
                               ![s].catalog[r] = IF r \in sync[s].paths THEN Catalogued(F) ELSE {}]
    BY <1>5, <2>2 DEF Discover
  <2>4. PICK G \in SUBSET File : G = IF r \in sync[s].paths THEN Catalogued(F) ELSE {}
    BY ReadableType, CataloguedType
  <2>5. sync' = [sync EXCEPT ![s] = [sync[s] EXCEPT !.left = sync[s].left \ {First(sync[s].left)},
                                                    !.catalog[r] = G]]
    BY <2>3, <2>4
  <2>6. sync[s].left \ {First(sync[s].left)} \in SUBSET ResolvedRepos
    BY <2>1 DEF Sync
  <2>7. sync' \in [Syncer -> Sync \cup {None}]
    BY <2>1, <2>5, <2>6, SyncRecord, SyncType DEF TypeOK
  <2>8. /\ sync'[s].pc = "discovering"
        /\ \A u \in Syncer \ {s} : sync'[u] = sync[u]
    BY <1>5, <2>1, <2>5 DEF TypeOK, Sync, Discover, Syncing
  <2>9. \A u \in Syncer : AtGit(u)' => sync'[u].left # {}
    BY <2>8 DEF AtGit, Syncing, TypeOK
  <2> QED BY <1>5, <2>7, <2>9 DEF Discover, TypeOK
<1>6. ASSUME NEW s \in Syncer, Swap(s) \/ ToolEnds(s) PROVE TypeOK'
  <2>1. sync' \in [Syncer -> Sync \cup {None}]
    BY <1>6, SyncType DEF Swap, ToolEnds, TypeOK
  <2>2. catalog' \in [Repo -> SUBSET File]
    BY <1>6 DEF Swap, ToolEnds, Syncing, TypeOK, Sync
  <2>3. \A u \in Syncer : AtGit(u)' => sync'[u].left # {}
    BY <1>6 DEF Swap, ToolEnds, AtGit, Syncing, TypeOK
  <2> QED BY <1>6, <2>1, <2>2, <2>3 DEF Swap, ToolEnds, TypeOK
<1>7. ASSUME NEW killed \in Process, Kill(killed) PROVE TypeOK'
  <2>1. sync' \in [Syncer -> Sync \cup {None}]
    BY <1>7 DEF Kill, TypeOK
  <2>2. catalog' \in [Repo -> SUBSET File]
    BY <1>7, EmptyCatalogType DEF Kill, TypeOK
  <2>5. \A u \in Syncer : AtGit(u)' => sync'[u].left # {}
    BY <1>7 DEF Kill, AtGit, Syncing, TypeOK
  <2> QED BY <1>7, <2>1, <2>2, <2>5, KillType DEF Kill, TypeOK
<1>8. CASE UNCHANGED vars
  BY <1>8 DEF vars, TypeOK, AtGit, Syncing
<1>9. ASSUME NEW s \in Syncer, SyncRepo(s) PROVE sync[s] # None /\ sync[s].left # {}
  BY <1>9 DEF TypeOK, AtGit, SyncRepo, Fetch, Fetched, FetchFails, Reset, ResetFails, Clone, Cloned, CloneFails,
              UpdateSubmodules, AtRepo, Syncing
<1> QED BY <1>1, <1>2, <1>3, <1>4, <1>5, <1>6, <1>7, <1>8, <1>9 DEF Next, SyncAndDiscover

(***************************************************************************)
(* service.py:40-55, plugins/sync.py: clones, catalogs and the locals of a *)
(* sync keep their types however syncs overlap, fail and are killed, and a *)
(* complete clone always has a remote branch to be reset to.               *)
(***************************************************************************)
THEOREM TypeCorrect == Spec => []TypeOK
BY TypeInit, TypeStep, PTL DEF Spec

-----------------------------------------------------------------------------
(***************************************************************************)
(* What a step does to the locals of a sync.                               *)
(***************************************************************************)
\* s goes on with a git command for the repository it is at.
Went(s) ==
  /\ sync'[s].pc \in {"fetching", "resetting", "submodules", "cloning"}
  /\ sync'[s].left = sync[s].left
  /\ sync'[s].paths = sync[s].paths
  /\ sync'[s].failed = sync[s].failed

\* s leaves the repository it is at, which has failed or is synced.
Left(s) ==
  /\ sync'[s].pc = "repo"
  /\ sync'[s].left = sync[s].left \ {First(sync[s].left)}
  /\ \/ sync'[s].failed = sync[s].failed \cup {Current(s)} /\ sync'[s].paths = sync[s].paths
     \/ sync'[s].paths = sync[s].paths \cup {Current(s)} /\ sync'[s].failed = sync[s].failed

LEMMA SyncRepoLocals ==
  ASSUME TypeOK, NEW s \in Syncer, SyncRepo(s)
  PROVE  /\ sync[s] \in Sync /\ sync[s] # None /\ sync[s].left # {} /\ sync[s].pc # "discovering"
         /\ sync'[s] \in Sync
         /\ \A u \in Syncer \ {s} : sync'[u] = sync[u]
         /\ sync'[s].catalog = sync[s].catalog /\ sync'[s].alone = sync[s].alone
         /\ sync'[s].heads = sync[s].heads
         /\ UNCHANGED <<head, catalog>>
         /\ Went(s) \/ Left(s)
<1>1. /\ sync[s] # None /\ sync[s].left # {} /\ sync[s].pc # "discovering"
      /\ UNCHANGED <<head, catalog>>
  BY DEF SyncRepo, Fetch, Fetched, FetchFails, Reset, ResetFails, Clone, Cloned, CloneFails,
         UpdateSubmodules, AtRepo, Syncing, TypeOK, AtGit, disk
<1>2. sync[s] \in Sync
  BY <1>1 DEF TypeOK
<1>3. CASE Fail(s) \/ Succeed(s)
  BY <1>1, <1>2, <1>3, FailSucceedType DEF Left
<1>4. ASSUME NEW pc \in {"fetching", "resetting", "submodules", "cloning"}, Goes(s, pc)
      PROVE  /\ sync'[s] \in Sync
             /\ \A u \in Syncer \ {s} : sync'[u] = sync[u]
             /\ sync'[s].catalog = sync[s].catalog /\ sync'[s].alone = sync[s].alone
             /\ sync'[s].heads = sync[s].heads
             /\ Went(s)
  <2>1. /\ sync'[s] \in Sync /\ sync'[s] = [sync[s] EXCEPT !.pc = pc]
        /\ \A u \in Syncer \ {s} : sync'[u] = sync[u]
    BY <1>1, <1>4, GoesType
  <2>2. /\ sync'[s].pc = pc /\ sync'[s].left = sync[s].left /\ sync'[s].paths = sync[s].paths
        /\ sync'[s].failed = sync[s].failed /\ sync'[s].catalog = sync[s].catalog
        /\ sync'[s].alone = sync[s].alone /\ sync'[s].heads = sync[s].heads
    BY <1>2, <2>1 DEF Sync
  <2> QED BY <2>1, <2>2 DEF Went
<1>5. \/ Fail(s) \/ Succeed(s)
      \/ \E pc \in {"fetching", "resetting", "submodules", "cloning"} : Goes(s, pc)
  BY DEF SyncRepo, Fetch, Fetched, FetchFails, Reset, ResetFails, Clone, Cloned, CloneFails,
         UpdateSubmodules
<1> QED BY <1>1, <1>2, <1>3, <1>4, <1>5

\* Discover gives one repository its plugins.
LEMMA DiscoverLocals ==
  ASSUME TypeOK, NEW s \in Syncer, Discover(s)
  PROVE  \E r \in Repo, G \in SUBSET File :
           /\ r = Current(s)
           /\ \/ r \notin sync[s].paths /\ G = {}
              \/ r \in sync[s].paths /\ \E F \in Readable(r) : G = Catalogued(F)
           /\ sync[s] \in Sync /\ sync[s] # None /\ sync[s].left # {}
           /\ sync[s].pc = "discovering"
           /\ sync'[s] = [sync[s] EXCEPT !.left = sync[s].left \ {First(sync[s].left)}, !.catalog[r] = G]
           /\ \A u \in Syncer \ {s} : sync'[u] = sync[u]
           /\ UNCHANGED <<head, disk, catalog>>
<1>1. sync[s] \in Sync /\ sync[s] # None /\ sync[s].left # {} /\ sync[s].pc = "discovering"
  BY DEF Discover, Syncing, TypeOK
<1>2. PICK r \in Repo : r = Current(s)
  BY <1>1, CurrentIsRepo
<1>3. PICK F \in Readable(r) :
        sync' = [sync EXCEPT ![s].left = @ \ {First(@)},
                             ![s].catalog[r] = IF r \in sync[s].paths THEN Catalogued(F) ELSE {}]
  BY <1>2 DEF Discover
<1>4. PICK G \in SUBSET File : G = IF r \in sync[s].paths THEN Catalogued(F) ELSE {}
  BY ReadableType, CataloguedType
<1>5. sync' = [sync EXCEPT ![s] = [sync[s] EXCEPT !.left = sync[s].left \ {First(sync[s].left)},
                                                  !.catalog[r] = G]]
  BY <1>3, <1>4
<1>6. /\ sync'[s] = [sync[s] EXCEPT !.left = sync[s].left \ {First(sync[s].left)}, !.catalog[r] = G]
      /\ \A u \in Syncer \ {s} : sync'[u] = sync[u]
  BY <1>5 DEF TypeOK
<1> QED BY <1>1, <1>2, <1>4, <1>6 DEF Discover

-----------------------------------------------------------------------------
(***************************************************************************)
(* Failures.                                                               *)
(***************************************************************************)
\* The repositories a sync has left behind are synced or failed, and once it
\* discovers they all are.
Settled(s) == sync[s].paths \cup sync[s].failed

VisitedSettled(s) == \A i \in ResolvedRepos \ sync[s].left : Registry[i].name \in Settled(s)

LocalInv ==
  \A s \in Syncer : sync[s] # None =>
    IF sync[s].pc = "discovering" THEN Repo \subseteq Settled(s) ELSE VisitedSettled(s)

LEMMA LocalStep == TypeOK /\ LocalInv /\ [Next]_vars => LocalInv'
<1> SUFFICES ASSUME TypeOK, LocalInv, [Next]_vars PROVE LocalInv'
  OBVIOUS
<1> DEFINE Kept(u) == /\ sync[u] # None
                      /\ sync'[u].pc = sync[u].pc /\ sync'[u].left = sync[u].left
                      /\ sync'[u].paths = sync[u].paths /\ sync'[u].failed = sync[u].failed
<1>0. (\A u \in Syncer : sync'[u] # None => Kept(u)) => LocalInv'
  BY DEF LocalInv, Settled, VisitedSettled
<1>1. ASSUME NEW r \in Repo, Push(r) PROVE LocalInv'
  <2>1. \A u \in Syncer : sync'[u] # None => Kept(u)
    BY <1>1 DEF Push, TypeOK, Sync
  <2> QED BY <1>0, <2>1
<1>2. ASSUME NEW s \in Syncer, Begin(s) PROVE LocalInv'
  <2>1. sync'[s].left = ResolvedRepos /\ sync'[s].pc = "repo"
    BY <1>2 DEF Begin
  <2>2. ASSUME NEW u \in Syncer \ {s}, sync'[u] # None PROVE Kept(u)
    <3>1. sync[u] # None
      BY <1>2, <2>2 DEF Begin
    <3>2. sync[u] \in Sync
      BY <3>1 DEF TypeOK
    <3>3. PICK heads \in [Repo -> SUBSET Commit] :
            sync'[u] = [sync[u] EXCEPT !.alone = FALSE, !.heads = heads]
      BY <1>2, <3>1 DEF Begin
    <3> QED BY <3>1, <3>2, <3>3 DEF Sync
  <2> QED BY <2>1, <2>2 DEF LocalInv, Settled, VisitedSettled
<1>3. ASSUME NEW s \in Syncer, SyncRepo(s) PROVE LocalInv'
  <2>1. /\ sync[s] # None /\ sync[s].left # {} /\ sync[s].pc # "discovering"
        /\ \A u \in Syncer \ {s} : sync'[u] = sync[u]
        /\ Went(s) \/ Left(s)
    BY <1>3, SyncRepoLocals
  <2>2. Current(s) = Registry[First(sync[s].left)].name
    BY DEF Current
  <2>3. VisitedSettled(s)
    BY <2>1 DEF LocalInv
  <2>4. VisitedSettled(s)' /\ sync'[s].pc # "discovering"
    BY <2>1, <2>2, <2>3 DEF Went, Left, VisitedSettled, Settled
  <2> QED BY <2>1, <2>4 DEF LocalInv, Settled, VisitedSettled
<1>4. ASSUME NEW s \in Syncer, RegistrySynced(s) PROVE LocalInv'
  <2>1. sync[s] \in Sync /\ sync[s] # None /\ sync[s].pc = "repo" /\ sync[s].left = {}
    BY <1>4 DEF RegistrySynced, Syncing, TypeOK
  <2>2. /\ sync'[s].pc = "discovering" /\ sync'[s].paths = sync[s].paths
        /\ sync'[s].failed = sync[s].failed
        /\ \A u \in Syncer \ {s} : sync'[u] = sync[u]
    BY <1>4, <2>1 DEF RegistrySynced, TypeOK, Sync
  <2>3. Repo \subseteq Settled(s)
    BY <2>1 DEF LocalInv, VisitedSettled, Repo
  <2> QED BY <2>2, <2>3 DEF LocalInv, Settled, VisitedSettled
<1>5. ASSUME NEW s \in Syncer, Discover(s) PROVE LocalInv'
  <2>1. PICK r \in Repo, G \in SUBSET File :
          /\ sync[s] \in Sync /\ sync[s] # None /\ sync[s].pc = "discovering"
          /\ sync'[s] = [sync[s] EXCEPT !.left = sync[s].left \ {First(sync[s].left)}, !.catalog[r] = G]
          /\ \A u \in Syncer \ {s} : sync'[u] = sync[u]
    BY <1>5, DiscoverLocals
  <2>2. /\ sync'[s].pc = "discovering" /\ sync'[s].paths = sync[s].paths
        /\ sync'[s].failed = sync[s].failed
    BY <2>1 DEF Sync
  <2> QED BY <2>1, <2>2 DEF LocalInv, Settled, VisitedSettled
<1>6. ASSUME NEW s \in Syncer, Swap(s) \/ ToolEnds(s) PROVE LocalInv'
  BY <1>0, <1>6 DEF Swap, ToolEnds, TypeOK
<1>7. ASSUME NEW killed \in Process, Kill(killed) PROVE LocalInv'
  BY <1>0, <1>7 DEF Kill, TypeOK
<1>8. CASE UNCHANGED vars
  BY <1>8 DEF vars, LocalInv, Settled, VisitedSettled
<1> QED BY <1>1, <1>2, <1>3, <1>4, <1>5, <1>6, <1>7, <1>8 DEF Next, SyncAndDiscover

(***************************************************************************)
(* sync.py:77-84: a repository that fails takes no other one down: the     *)
(* catalog that is swapped in accounts for every other repository.         *)
(***************************************************************************)
THEOREM FailureStaysLocalHolds == Spec => FailureStaysLocal
<1>1. Init => LocalInv
  BY DEF Init, LocalInv
<1>2. LocalInv /\ [Next]_vars =>
        [\A s \in Syncer : Swap(s) => \A r \in Repo : r \in sync[s].paths \cup sync[s].failed]_vars
  BY DEF LocalInv, Settled, Swap, Syncing
<1> QED BY <1>1, <1>2, LocalStep, TypeCorrect, PTL DEF Spec, FailureStaysLocal

-----------------------------------------------------------------------------
(***************************************************************************)
(* Clones.                                                                 *)
(***************************************************************************)
\* A sync spoils a clone only when its own clone of that repository fails.
LEMMA SyncRepoSpoils ==
  ASSUME TypeOK, NEW s \in Syncer, SyncRepo(s), NEW r \in Repo, Usable(r), ~Usable(r)'
  PROVE  CloneFails(s) /\ AtGit(s) /\ Current(s) = r
<1>1. sync[s] # None /\ sync[s].left # {}
  BY SyncRepoLocals
<1>2. PICK q \in Repo : q = Current(s)
  BY <1>1, CurrentIsRepo
<1>3. CASE Fetch(s) \/ Fetched(s) \/ FetchFails(s) \/ ResetFails(s) \/ UpdateSubmodules(s)
  BY <1>3 DEF Fetch, Fetched, FetchFails, ResetFails, UpdateSubmodules, disk, Usable
<1>4. CASE Reset(s) \/ Cloned(s)
  BY <1>2, <1>4 DEF Reset, Cloned, Usable, TypeOK
<1>5. CASE Clone(s)
  BY <1>2, <1>5 DEF Clone, Usable, TypeOK
<1>6. CASE CloneFails(s)
  <2>1. q = r
    BY <1>2, <1>6 DEF CloneFails, Usable, TypeOK
  <2>2. AtGit(s)
    BY <1>6 DEF CloneFails, AtGit
  <2> QED BY <1>2, <1>6, <2>1, <2>2
<1> QED BY <1>3, <1>4, <1>5, <1>6 DEF SyncRepo

(***************************************************************************)
(* sync.py:24-40: whatever syncs of the service and beside it overlap, and *)
(* however they fail, a complete clone without stale locks is spoilt only  *)
(* by a kill in the middle of git's work on it, or by the failure of a     *)
(* clone of it that another sync has overtaken.                            *)
(***************************************************************************)
THEOREM WholeStaysWholeHolds == Spec => WholeStaysWhole
<1> DEFINE Spoilt(r) == \E s \in Syncer : /\ AtGit(s) /\ Current(s) = r
                                          /\ sync'[s] = None \/ CloneFails(s)
<1>1. ASSUME TypeOK, [Next]_vars, NEW r \in Repo, Usable(r), ~Usable(r)' PROVE Spoilt(r)
  <2>1. ASSUME NEW s \in Syncer, SyncRepo(s) PROVE Spoilt(r)
    BY <1>1, <2>1, SyncRepoSpoils
  <2>2. ASSUME NEW killed \in Process, Kill(killed) PROVE Spoilt(r)
    <3>1. checkout'[r] # checkout[r] \/ locks'[r] # locks[r]
      BY <1>1 DEF Usable
    <3>2. PICK s \in killed : AtGit(s) /\ Current(s) = r
      BY <1>1, <2>2, <3>1, KillEffect
    <3>3. s \in Syncer
      BY <1>1, <2>2, KillChoices
    <3> QED BY <2>2, <3>2, <3>3 DEF Kill
  <2>3. ASSUME UNCHANGED <<checkout, locks>> PROVE FALSE
    BY <1>1, <2>3 DEF Usable
  <2> QED BY <1>1, <2>1, <2>2, <2>3
          DEF Next, SyncAndDiscover, Push, Begin, RegistrySynced, Discover, Swap, ToolEnds, vars, disk
<1>2. TypeOK /\ [Next]_vars => [\A r \in Repo : Usable(r) /\ ~Usable(r)' => Spoilt(r)]_vars
  BY <1>1
<1> QED BY <1>2, TypeCorrect, PTL DEF Spec, WholeStaysWhole

-----------------------------------------------------------------------------
(***************************************************************************)
(* Freshness.                                                              *)
(***************************************************************************)
\* The main part of F is that of a commit upstream of r has had since s began.
OfSomeHead(s, r, F) ==
  \E c \in sync[s].heads[r] : F \ Submodule = Files[c] \ Submodule

\* The catalog entry F was made from such a tree.
MadeOfSomeHead(s, r, F) ==
  \E G \in SUBSET File : F = Catalogued(G) /\ OfSomeHead(s, r, G)

\* What s has left to sync is not among what it has synced, and of what it has
\* synced or fetched it has a commit of its own time.
Fresh(s) ==
  /\ \A r \in Repo : head[r] \in sync[s].heads[r]
  /\ ~Syncing(s, "discovering") => \A i \in sync[s].left : Registry[i].name \notin sync[s].paths
  /\ Syncing(s, "resetting") => origin[Current(s)] \in sync[s].heads[Current(s)]
  /\ Syncing(s, "submodules") => OfSomeHead(s, Current(s), files[Current(s)])
  /\ \A r \in sync[s].paths : OfSomeHead(s, r, files[r])
  /\ Syncing(s, "discovering") =>
       \A i \in ResolvedRepos \ sync[s].left :
         Registry[i].name \in sync[s].paths =>
           MadeOfSomeHead(s, Registry[i].name, sync[s].catalog[Registry[i].name])

FreshInv ==
  \A s \in Syncer : sync[s] # None /\ sync[s].alone =>
    /\ \A u \in Syncer \ {s} : sync[u] = None
    /\ Fresh(s)

\* A step of s, when nothing runs beside it.
LEMMA FreshFrame ==
  ASSUME FreshInv, NEW s \in Syncer, sync[s] # None,
         \A u \in Syncer \ {s} : sync'[u] = sync[u],
         sync'[s] # None => sync'[s].alone = sync[s].alone,
         sync'[s] # None /\ sync[s].alone => Fresh(s)'
  PROVE  FreshInv'
BY DEF FreshInv

LEMMA FreshStep == TypeOK /\ FreshInv /\ [Next]_vars => FreshInv'
<1> SUFFICES ASSUME TypeOK, FreshInv, [Next]_vars PROVE FreshInv'
  OBVIOUS
<1> USE DEF disk
<1>1. ASSUME NEW r \in Repo, Push(r) PROVE FreshInv'
  <2>1. ASSUME NEW s \in Syncer, sync'[s] # None, sync'[s].alone
        PROVE  (\A u \in Syncer \ {s} : sync'[u] = None) /\ Fresh(s)'
    <3>1. sync[s] # None /\ sync[s].alone /\ sync[s] \in Sync
      BY <1>1, <2>1 DEF Push, TypeOK, Sync
    <3>2. (\A u \in Syncer \ {s} : sync[u] = None) /\ Fresh(s)
      BY <3>1 DEF FreshInv
    <3>3. \A u \in Syncer \ {s} : sync'[u] = None
      BY <1>1, <3>2 DEF Push
    <3>4. PICK heads \in [Repo -> SUBSET Commit] :
            heads = [sync[s].heads EXCEPT ![r] = sync[s].heads[r] \cup {head[r] + 1}]
      BY <1>1, <3>1, UpstreamAssumption DEF Push, Sync
    <3>5. sync'[s] = [sync[s] EXCEPT !.heads = heads]
      BY <1>1, <3>1, <3>4 DEF Push, Sync
    <3>6. /\ sync'[s].heads = heads /\ sync'[s].pc = sync[s].pc /\ sync'[s].left = sync[s].left
          /\ sync'[s].paths = sync[s].paths /\ sync'[s].catalog = sync[s].catalog
      BY <3>1, <3>5 DEF Sync
    <3>7. \A q \in Repo : sync[s].heads[q] \subseteq heads[q] /\ head'[q] \in heads[q]
      BY <1>1, <3>1, <3>2, <3>4 DEF Push, TypeOK, Sync, Fresh
    <3>8. Current(s)' = Current(s) /\ \A pc : Syncing(s, pc)' <=> Syncing(s, pc)
      BY <2>1, <3>1, <3>6 DEF Current, Syncing
    <3>9. UNCHANGED <<files, origin>>
      BY <1>1 DEF Push
    <3>10. AtGit(s) => Current(s) \in Repo
      BY <3>1, CurrentIsRepo DEF TypeOK
    <3>11. sync[s].paths \subseteq Repo /\ \A i \in ResolvedRepos : Registry[i].name \in Repo
      BY <3>1 DEF Sync, Repo
    <3>12. \A q \in Repo : \A F : OfSomeHead(s, q, F) => OfSomeHead(s, q, F)'
      BY <3>6, <3>7 DEF OfSomeHead
    <3>13. \A q \in Repo : \A F : MadeOfSomeHead(s, q, F) => MadeOfSomeHead(s, q, F)'
      BY <3>12 DEF MadeOfSomeHead
    <3>14. /\ Syncing(s, "resetting")' => origin'[Current(s)'] \in sync'[s].heads[Current(s)']
           /\ Syncing(s, "submodules")' => OfSomeHead(s, Current(s), files[Current(s)])'
      BY <3>2, <3>6, <3>7, <3>8, <3>9, <3>10, <3>12 DEF Fresh, AtGit
    <3>15. Syncing(s, "discovering")' =>
             \A i \in ResolvedRepos \ sync'[s].left :
               Registry[i].name \in sync'[s].paths =>
                 MadeOfSomeHead(s, Registry[i].name, sync[s].catalog[Registry[i].name])'
      BY <3>2, <3>6, <3>8, <3>11, <3>13 DEF Fresh
    <3>16. \A q \in sync'[s].paths : OfSomeHead(s, q, files[q])'
      BY <3>2, <3>6, <3>9, <3>11, <3>12 DEF Fresh
    <3>17. ~Syncing(s, "discovering")' => \A i \in sync'[s].left : Registry[i].name \notin sync'[s].paths
      BY <3>2, <3>6, <3>8 DEF Fresh
    <3> QED BY <3>3, <3>6, <3>7, <3>14, <3>15, <3>16, <3>17 DEF Fresh
  <2> QED BY <2>1 DEF FreshInv
<1>2. ASSUME NEW s \in Syncer, Begin(s) PROVE FreshInv'
  <2>1. ASSUME NEW u \in Syncer, sync'[u] # None, sync'[u].alone
        PROVE  u = s /\ \A v \in Syncer : sync[v] = None
    <3>1. CASE u # s
      <4>1. sync[u] # None /\ sync[u] \in Sync
        BY <1>2, <2>1, <3>1 DEF Begin, TypeOK
      <4>2. PICK heads \in [Repo -> SUBSET Commit] :
              sync'[u] = [sync[u] EXCEPT !.alone = FALSE, !.heads = heads]
        BY <1>2, <3>1, <4>1 DEF Begin
      <4> QED BY <2>1, <4>1, <4>2 DEF Sync
    <3>2. CASE u = s
      BY <1>2, <2>1, <3>2 DEF Begin
    <3> QED BY <3>1, <3>2
  <2>2. (\A v \in Syncer : sync[v] = None) =>
          /\ \A v \in Syncer \ {s} : sync'[v] = None
          /\ sync'[s].heads = [r \in Repo |-> {head[r]}] /\ sync'[s].pc = "repo" /\ sync'[s].paths = {}
          /\ head' = head
    BY <1>2 DEF Begin
  <2>3. (\A v \in Syncer : sync[v] = None) => Fresh(s)'
    BY <2>2 DEF Fresh, Syncing
  <2> QED BY <2>1, <2>2, <2>3 DEF FreshInv
<1>3. ASSUME NEW s \in Syncer, SyncRepo(s) PROVE FreshInv'
  <2>1. /\ sync[s] \in Sync /\ sync[s] # None /\ sync[s].left # {} /\ sync[s].pc # "discovering"
        /\ sync'[s] \in Sync
        /\ \A u \in Syncer \ {s} : sync'[u] = sync[u]
        /\ sync'[s].alone = sync[s].alone /\ sync'[s].heads = sync[s].heads
        /\ UNCHANGED head
        /\ Went(s) \/ Left(s)
    BY <1>3, SyncRepoLocals
  <2>2. PICK r \in Repo : r = Current(s)
    BY <2>1, CurrentIsRepo
  <2>3. ASSUME sync[s].alone PROVE Fresh(s)'
    <3>1. Fresh(s)
      BY <2>1, <2>3 DEF FreshInv
    <3>2. head[r] \in sync[s].heads[r] /\ \A q \in Repo : head'[q] \in sync'[s].heads[q]
      BY <2>1, <3>1 DEF Fresh
    <3>3. /\ sync[s].paths \subseteq Repo \ {r}
          /\ First(sync[s].left) \in sync[s].left /\ r = Registry[First(sync[s].left)].name
          /\ sync[s].left \subseteq ResolvedRepos
      <4>1. sync[s].left \subseteq ResolvedRepos /\ sync[s].paths \subseteq Repo
        BY <2>1 DEF Sync
      <4>2. First(sync[s].left) \in sync[s].left
        BY <2>1, <4>1, FirstIsLeft
      <4>3. r = Registry[First(sync[s].left)].name
        BY <2>2 DEF Current
      <4>4. ~Syncing(s, "discovering")
        BY <2>1 DEF Syncing
      <4>5. r \notin sync[s].paths
        BY <3>1, <4>2, <4>3, <4>4 DEF Fresh
      <4> QED BY <4>1, <4>2, <4>3, <4>5
    <3>4. ASSUME NEW i \in sync[s].left \ {First(sync[s].left)} PROVE Registry[i].name # r
      BY <3>3, <3>4, RegistryAssumption DEF ResolvedRepos
    <3>5. \A q \in Repo \ {r} : files'[q] = files[q]
      BY <1>3, <2>2 DEF SyncRepo, Fetch, Fetched, FetchFails, Reset, ResetFails, Clone, Cloned, CloneFails,
                        UpdateSubmodules, disk, TypeOK
    <3>6. \A q, F : OfSomeHead(s, q, F) <=> OfSomeHead(s, q, F)'
      BY <2>1 DEF OfSomeHead
    <3>7. \A q \in sync[s].paths : OfSomeHead(s, q, files[q])'
      BY <3>1, <3>3, <3>5, <3>6 DEF Fresh
    <3>8. ~Syncing(s, "discovering")'
      BY <2>1 DEF Went, Left, Syncing
    <3>9. ASSUME Went(s),
                 Syncing(s, "resetting")' => origin'[r] \in sync'[s].heads[r],
                 Syncing(s, "submodules")' => OfSomeHead(s, r, files[r])'
          PROVE  Fresh(s)'
      <4>1. Current(s)' = r
        BY <2>2, <3>9 DEF Went, Current
      <4>2. \A i \in sync'[s].left : Registry[i].name \notin sync'[s].paths
        BY <3>1, <3>9, <2>1 DEF Fresh, Went, Syncing
      <4> QED BY <3>2, <3>7, <3>8, <3>9, <4>1, <4>2 DEF Fresh, Went
    <3>10. ASSUME Fail(s) PROVE Fresh(s)'
      <4>1. /\ sync'[s].pc = "repo" /\ sync'[s].paths = sync[s].paths
            /\ sync'[s].left = sync[s].left \ {First(sync[s].left)}
        BY <2>1, <3>10, FailSucceedType
      <4>2. \A i \in sync'[s].left : Registry[i].name \notin sync'[s].paths
        BY <2>1, <3>1, <4>1 DEF Fresh, Syncing
      <4> QED BY <3>2, <3>7, <3>8, <4>1, <4>2 DEF Fresh, Syncing
    <3>11. CASE UpdateSubmodules(s)
      <4>1. /\ sync'[s].pc = "repo" /\ sync'[s].paths = sync[s].paths \cup {r}
            /\ sync'[s].left = sync[s].left \ {First(sync[s].left)}
        BY <2>1, <2>2, <3>11, FailSucceedType DEF UpdateSubmodules
      <4>2. \A i \in sync'[s].left : Registry[i].name \notin sync'[s].paths
        BY <2>1, <3>1, <3>4, <4>1 DEF Fresh, Syncing
      <4>3. OfSomeHead(s, r, files[r]) /\ Aim(s) = Joined(files[r], Content(at[r]))
        BY <2>2, <3>1, <3>11 DEF UpdateSubmodules, Fresh, Aim, Syncing
      <4>4. PICK F \in Mixture({files[r], Aim(s)}) : files' = [files EXCEPT ![r] = F]
        BY <2>2, <3>11 DEF UpdateSubmodules
      <4>5. Rewrites(s, r)
        BY <2>2, <3>11 DEF UpdateSubmodules, Rewrites
      <4>6. files[r] \in SUBSET File /\ Aim(s) \in SUBSET File
        BY <4>5, AimType DEF TypeOK
      <4>7. files[r] \ Submodule = Aim(s) \ Submodule
        BY <4>3 DEF Joined
      <4>8. F \ Submodule = files[r] \ Submodule
        BY <4>6, <4>7, MixtureAgrees
      <4>9. OfSomeHead(s, r, F) /\ files'[r] = F
        BY <4>3, <4>4, <4>8 DEF OfSomeHead, TypeOK
      <4>10. OfSomeHead(s, r, files[r])'
        BY <3>6, <4>9
      <4> QED BY <3>2, <3>7, <3>8, <4>1, <4>2, <4>10 DEF Fresh, Syncing
    <3>12. ASSUME NEW pc \in {"fetching", "resetting", "submodules", "cloning"}, Goes(s, pc)
           PROVE  sync'[s].pc = pc /\ Went(s)
      <4>1. sync'[s] = [sync[s] EXCEPT !.pc = pc]
        BY <2>1, <3>12, GoesType
      <4> QED BY <2>1, <4>1 DEF Sync, Went
    <3>13. CASE Fetch(s) \/ Clone(s)
      BY <3>9, <3>12, <3>13 DEF Fetch, Clone, Syncing
    <3>14. CASE Fetched(s)
      <4>1. sync'[s].pc = "resetting" /\ Went(s)
        BY <3>12, <3>14 DEF Fetched
      <4>2. origin'[r] = head[r]
        BY <2>2, <3>14 DEF Fetched, TypeOK
      <4> QED BY <2>1, <3>2, <3>9, <4>1, <4>2 DEF Syncing
    <3>15. ASSUME NEW c \in sync[s].heads[r], sync'[s].pc = "submodules", Went(s),
                  files' = [files EXCEPT ![r] = Joined(Content(c), files[r])]
           PROVE  Fresh(s)'
      <4>1. c \in Commit /\ c # None
        BY <2>1, FilesAssumption DEF Sync
      <4>2. files'[r] = Joined(Files[c], files[r])
        BY <3>15, <4>1 DEF TypeOK, Content
      <4>3. OfSomeHead(s, r, files'[r])
        BY <4>2 DEF OfSomeHead, Joined
      <4>4. OfSomeHead(s, r, files[r])'
        BY <3>6, <4>3
      <4> QED BY <3>9, <3>15, <4>4 DEF Syncing
    <3>16. CASE Reset(s)
      <4>1. sync'[s].pc = "submodules" /\ Went(s)
        BY <3>12, <3>16 DEF Reset
      <4>2. origin[r] \in sync[s].heads[r]
        BY <2>2, <3>1, <3>16 DEF Reset, Fresh
      <4>3. Aim(s) = Joined(Content(origin[r]), files[r])
        BY <2>2, <3>16 DEF Reset, Aim, Syncing
      <4> QED BY <2>2, <3>15, <3>16, <4>1, <4>2, <4>3 DEF Reset
    <3>17. CASE Cloned(s)
      <4>1. sync'[s].pc = "submodules" /\ Went(s)
        BY <3>12, <3>17 DEF Cloned
      <4>2. Aim(s) = Joined(Content(head[r]), files[r])
        BY <2>2, <3>17 DEF Cloned, Aim, Syncing
      <4> QED BY <2>2, <3>2, <3>15, <3>17, <4>1, <4>2 DEF Cloned
    <3>18. CASE FetchFails(s) \/ ResetFails(s) \/ CloneFails(s)
      BY <3>10, <3>18 DEF FetchFails, ResetFails, CloneFails
    <3> QED BY <1>3, <3>11, <3>13, <3>14, <3>16, <3>17, <3>18 DEF SyncRepo
  <2> QED BY <2>1, <2>3, FreshFrame
<1>4. ASSUME NEW s \in Syncer, RegistrySynced(s) PROVE FreshInv'
  <2>1. sync[s] \in Sync /\ sync[s] # None
    BY <1>4 DEF RegistrySynced, Syncing, TypeOK
  <2>2. sync' = [sync EXCEPT ![s] = [sync[s] EXCEPT !.pc = "discovering", !.left = ResolvedRepos]]
    BY <1>4 DEF RegistrySynced
  <2>3. /\ sync'[s].pc = "discovering" /\ sync'[s].left = ResolvedRepos
        /\ sync'[s].paths = sync[s].paths /\ sync'[s].alone = sync[s].alone
        /\ sync'[s].heads = sync[s].heads
        /\ \A u \in Syncer \ {s} : sync'[u] = sync[u]
    BY <2>1, <2>2 DEF TypeOK, Sync
  <2>4. sync[s].alone => Fresh(s)
    BY <2>1 DEF FreshInv
  <2>5. UNCHANGED <<head, files>>
    BY <1>4 DEF RegistrySynced
  <2>6. ASSUME sync[s].alone, sync'[s] # None PROVE Fresh(s)'
    <3>1. \A q, F : OfSomeHead(s, q, F) <=> OfSomeHead(s, q, F)'
      BY <2>3 DEF OfSomeHead
    <3>2. \A q \in sync'[s].paths : OfSomeHead(s, q, files[q])'
      BY <2>3, <2>4, <2>5, <2>6, <3>1 DEF Fresh
    <3>3. ResolvedRepos \ sync'[s].left = {}
      BY <2>3
    <3>4. /\ Syncing(s, "discovering")'
          /\ ~Syncing(s, "resetting")' /\ ~Syncing(s, "submodules")'
      BY <2>3, <2>6 DEF Syncing
    <3> QED BY <2>3, <2>4, <2>5, <2>6, <3>2, <3>3, <3>4 DEF Fresh
  <2> QED BY <2>1, <2>3, <2>6, FreshFrame
<1>5. ASSUME NEW s \in Syncer, Discover(s) PROVE FreshInv'
  <2>1. PICK r \in Repo, G \in SUBSET File :
          /\ r = Current(s)
          /\ \/ r \notin sync[s].paths /\ G = {}
             \/ r \in sync[s].paths /\ \E F \in Readable(r) : G = Catalogued(F)
          /\ sync[s] \in Sync /\ sync[s] # None /\ sync[s].left # {}
          /\ sync[s].pc = "discovering"
          /\ sync'[s] = [sync[s] EXCEPT !.left = sync[s].left \ {First(sync[s].left)}, !.catalog[r] = G]
          /\ \A u \in Syncer \ {s} : sync'[u] = sync[u]
          /\ UNCHANGED <<head, disk, catalog>>
    BY <1>5, DiscoverLocals
  <2>2. /\ sync'[s].left = sync[s].left \ {First(sync[s].left)}
        /\ sync'[s].catalog = [sync[s].catalog EXCEPT ![r] = G]
        /\ sync'[s].pc = "discovering" /\ sync'[s].paths = sync[s].paths
        /\ sync'[s].alone = sync[s].alone /\ sync'[s].heads = sync[s].heads
    BY <2>1 DEF Sync
  <2>3. sync[s].catalog \in [Repo -> SUBSET File]
    BY <2>1 DEF Sync
  <2>4. Registry[First(sync[s].left)].name = r
    BY <2>1 DEF Current
  <2>5. ASSUME sync[s].alone, sync'[s] # None PROVE Fresh(s)'
    <3>1. Fresh(s) /\ \A u \in Syncer \ {s} : sync[u] = None
      BY <2>1, <2>5 DEF FreshInv
    <3>2. ASSUME r \in sync[s].paths PROVE MadeOfSomeHead(s, r, G)
      <4>1. PICK F \in Readable(r) : G = Catalogued(F)
        BY <2>1, <3>2
      <4>2. \A u \in Syncer : ~Rewrites(u, r)
        BY <2>1, <3>1 DEF Syncing, Rewrites
      <4>3. F \in SUBSET File /\ F = files[r]
        BY <4>2, ReadableType
      <4>4. OfSomeHead(s, r, F)
        BY <3>1, <3>2, <4>3 DEF Fresh
      <4> QED BY <4>1, <4>3, <4>4 DEF MadeOfSomeHead
    <3>3. \A i \in ResolvedRepos \ sync[s].left :
            Registry[i].name \in sync[s].paths =>
              MadeOfSomeHead(s, Registry[i].name, sync[s].catalog[Registry[i].name])
      BY <2>1, <3>1 DEF Fresh, Syncing
    <3>4. ASSUME NEW i \in ResolvedRepos \ sync'[s].left, Registry[i].name \in sync[s].paths
          PROVE  MadeOfSomeHead(s, Registry[i].name, sync'[s].catalog[Registry[i].name])
      <4>1. CASE Registry[i].name = r
        BY <2>2, <2>3, <3>2, <3>4, <4>1
      <4>2. CASE Registry[i].name # r
        BY <2>2, <2>3, <2>4, <3>3, <3>4, <4>2
      <4> QED BY <4>1, <4>2
    <3>5. \A q, F : OfSomeHead(s, q, F) <=> OfSomeHead(s, q, F)'
      BY <2>2 DEF OfSomeHead
    <3>6. \A q, F : MadeOfSomeHead(s, q, F) => MadeOfSomeHead(s, q, F)'
      BY <3>5 DEF MadeOfSomeHead
    <3>7. UNCHANGED <<head, files>>
      BY <2>1
    <3>8. \A q \in sync'[s].paths : OfSomeHead(s, q, files[q])'
      BY <2>2, <3>1, <3>5, <3>7 DEF Fresh
    <3>9. \A i \in ResolvedRepos \ sync'[s].left :
            Registry[i].name \in sync'[s].paths =>
              MadeOfSomeHead(s, Registry[i].name, sync[s].catalog[Registry[i].name])'
      BY <2>2, <3>4, <3>6
    <3>10. /\ Syncing(s, "discovering")'
           /\ ~Syncing(s, "resetting")' /\ ~Syncing(s, "submodules")'
      BY <2>2, <2>5 DEF Syncing
    <3>11. \A q \in Repo : head'[q] \in sync'[s].heads[q]
      BY <2>2, <3>1, <3>7 DEF Fresh
    <3> QED BY <3>8, <3>9, <3>10, <3>11 DEF Fresh
  <2> QED BY <2>1, <2>2, <2>5, FreshFrame
<1>6. ASSUME NEW s \in Syncer, Swap(s) \/ ToolEnds(s) PROVE FreshInv'
  <2>1. sync[s] # None /\ sync'[s] = None /\ \A u \in Syncer \ {s} : sync'[u] = sync[u]
    BY <1>6 DEF Swap, ToolEnds, TypeOK, Syncing
  <2> QED BY <2>1, FreshFrame
<1>7. ASSUME NEW killed \in Process, Kill(killed) PROVE FreshInv'
  <2>1. ASSUME NEW s \in Syncer, sync'[s] # None, sync'[s].alone
        PROVE  (\A u \in Syncer \ {s} : sync'[u] = None) /\ Fresh(s)'
    <3>1. s \notin killed /\ sync'[s] = sync[s]
      BY <1>7, <2>1 DEF Kill
    <3>2. (\A u \in Syncer \ {s} : sync[u] = None) /\ Fresh(s)
      BY <2>1, <3>1 DEF FreshInv
    <3>3. \A u \in killed : ~AtGit(u)
      BY <1>7, <3>1, <3>2, KillChoices DEF AtGit, Syncing
    <3>4. \A r \in Repo : files'[r] = files[r] /\ origin'[r] = origin[r]
      BY <1>7, <3>3, KillEffect
    <3>5. UNCHANGED head /\ \A u \in Syncer \ {s} : sync'[u] = None
      BY <1>7, <3>2 DEF Kill
    <3>6. sync[s] \in Sync /\ sync[s].paths \subseteq Repo
      BY <2>1, <3>1 DEF TypeOK, Sync
    <3>7. AtGit(s) => Current(s) \in Repo
      BY <3>6, CurrentIsRepo DEF TypeOK, AtGit, Syncing
    <3>8. Current(s)' = Current(s) /\ \A pc : Syncing(s, pc)' <=> Syncing(s, pc)
      BY <3>1 DEF Current, Syncing
    <3>9. \A q, F : OfSomeHead(s, q, F) <=> OfSomeHead(s, q, F)'
      BY <3>1 DEF OfSomeHead
    <3>10. \A q, F : MadeOfSomeHead(s, q, F) => MadeOfSomeHead(s, q, F)'
      BY <3>9 DEF MadeOfSomeHead
    <3>11. /\ Syncing(s, "resetting")' => origin'[Current(s)'] \in sync'[s].heads[Current(s)']
           /\ Syncing(s, "submodules")' => OfSomeHead(s, Current(s), files[Current(s)])'
      BY <3>1, <3>2, <3>4, <3>7, <3>8, <3>9 DEF Fresh, AtGit
    <3>12. \A q \in sync'[s].paths : OfSomeHead(s, q, files[q])'
      BY <3>1, <3>2, <3>4, <3>6, <3>9 DEF Fresh
    <3>13. Syncing(s, "discovering")' =>
             \A i \in ResolvedRepos \ sync'[s].left :
               Registry[i].name \in sync'[s].paths =>
                 MadeOfSomeHead(s, Registry[i].name, sync[s].catalog[Registry[i].name])'
      BY <3>1, <3>2, <3>8, <3>10 DEF Fresh
    <3> QED BY <3>1, <3>2, <3>5, <3>8, <3>11, <3>12, <3>13 DEF Fresh
  <2> QED BY <2>1 DEF FreshInv
<1>8. CASE UNCHANGED vars
  BY <1>8 DEF vars, FreshInv, Fresh, Syncing, Current, OfSomeHead, MadeOfSomeHead
<1> QED BY <1>1, <1>2, <1>3, <1>4, <1>5, <1>6, <1>7, <1>8 DEF Next, SyncAndDiscover

(***************************************************************************)
(* service.py:40-55: a sync that nothing overlaps swaps in, for each       *)
(* repository it synced, the plugins of a commit upstream had meanwhile,   *)
(* whatever earlier overlaps, failures and kills left in the cache.        *)
(***************************************************************************)
THEOREM FreshWhenAloneHolds == Spec => FreshWhenAlone
<1>1. Init => FreshInv
  BY DEF Init, FreshInv
<1> DEFINE Promise(s) ==
      \A r \in sync[s].paths :
        \E c \in sync[s].heads[r], D \in SUBSET Submodule :
          catalog'[r] = Catalogued(Joined(Files[c], D))
<1>2. ASSUME TypeOK, FreshInv, NEW s \in Syncer, Swap(s), sync[s].alone PROVE Promise(s)
  <2>1. /\ sync[s] \in Sync /\ sync[s] # None /\ sync[s].left = {}
        /\ catalog' = sync[s].catalog /\ Syncing(s, "discovering")
    BY <1>2 DEF Swap, Syncing, TypeOK
  <2>2. Fresh(s)
    BY <1>2, <2>1 DEF FreshInv
  <2>3. \A r \in sync[s].paths : \E i \in ResolvedRepos : r = Registry[i].name
    BY <2>1 DEF Sync, Repo
  <2>4. ASSUME NEW r \in sync[s].paths
        PROVE  \E c \in sync[s].heads[r], D \in SUBSET Submodule :
                 catalog'[r] = Catalogued(Joined(Files[c], D))
    <3>1. MadeOfSomeHead(s, r, sync[s].catalog[r])
      BY <2>1, <2>2, <2>3, <2>4 DEF Fresh
    <3>2. PICK G \in SUBSET File : sync[s].catalog[r] = Catalogued(G) /\ OfSomeHead(s, r, G)
      BY <3>1 DEF MadeOfSomeHead
    <3>3. PICK c \in sync[s].heads[r] : G \ Submodule = Files[c] \ Submodule
      BY <3>2 DEF OfSomeHead
    <3>4. G = Joined(Files[c], G \cap Submodule)
      BY <3>3 DEF Joined
    <3> QED BY <2>1, <3>2, <3>4
  <2> QED BY <2>4
<1>3. TypeOK /\ FreshInv => [\A s \in Syncer : Swap(s) /\ sync[s].alone => Promise(s)]_vars
  BY <1>2
<1> QED BY <1>1, <1>3, FreshStep, TypeCorrect, PTL DEF Spec, FreshWhenAlone
=============================================================================
