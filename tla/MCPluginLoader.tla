-------------------------- MODULE MCPluginLoader --------------------------
(***************************************************************************)
(* Two repositories that both have a package hub with a submodule hub.x.   *)
(* ra has an advanced plugin: its dumper file finds no dumper class, so    *)
(* the package hub and then its submodule are tried.  rb has a manifest    *)
(* whose release module is its own hub.x, and an advanced plugin with a    *)
(* class in its dumper file, which registers the unique name of ra's.  The *)
(* path of ra is a prefix of the path of rb; the configuration lists src   *)
(* of ra (sa) twice.                                                       *)
(***************************************************************************)
EXTENDS PluginLoader

CONSTANTS ra, rb, da, sa, db, pa, pb, pm, hub, hubx, unique

MCParent == (hub :> None) @@ (hubx :> hub) @@ (unique :> None)

MCTop == (hub :> hub) @@ (hubx :> hub) @@ (unique :> unique)

MCManifest == {pm}

MCRepoOf == (pa :> ra) @@ (pb :> rb) @@ (pm :> rb)

MCHome == (pa :> da) @@ (pb :> db) @@ (pm :> db)

MCOwner == (da :> ra) @@ (sa :> ra) @@ (db :> rb)

MCProvides == (da :> {hub, hubx}) @@ (sa :> {}) @@ (db :> {hub, hubx})

MCUnder == (ra :> {ra, rb}) @@ (rb :> {rb})

MCEntries == (pa :> <<sa, da, sa>>) @@ (pb :> <<db>>) @@ (pm :> <<db>>)

File(imports, yields) ==
  [unique |-> unique, imports |-> imports, needed |-> FALSE, yields |-> yields]

Package(imports, yields) ==
  [unique |-> None, imports |-> imports, needed |-> TRUE, yields |-> yields]

DumperSubmodule(imports) ==
  [unique |-> None, imports |-> imports, needed |-> FALSE, yields |-> TRUE]

MCAttempts ==
  (pa :> <<File(<<hub>>, FALSE), Package(<<hub>>, FALSE), DumperSubmodule(<<hubx>>)>>)
  @@ (pb :> <<File(<<hub>>, TRUE), Package(<<hub>>, TRUE)>>)
  @@ (pm :> <<Package(<<hub, hubx>>, TRUE)>>)

\* The check of pa imports hub inside a function.
MCLazy == (pa :> {hub}) @@ (pb :> {}) @@ (pm :> {})

WorkerSymmetry == Permutations(Worker)
=============================================================================
