--------------------------- MODULE MCCatalogSync ---------------------------
(***************************************************************************)
(* TLC instances of CatalogSync: two repositories and one disabled one.    *)
(* The first has two commits, the second of which gives the advanced       *)
(* plugin x a manifest and adds y in a submodule; the other has one        *)
(* without plugins.                                                        *)
(***************************************************************************)
EXTENDS CatalogSync, TLC

CONSTANTS ra, rb, rc

MCRegistry == <<[name |-> ra, enabled |-> TRUE],
                [name |-> rc, enabled |-> FALSE],
                [name |-> rb, enabled |-> TRUE]>>

ManifestX == [kind |-> "manifest", path |-> 1, name |-> "x"]
PackageX  == [kind |-> "package", path |-> 1, name |-> "x"]
PackageY  == [kind |-> "package", path |-> 3, name |-> "y"]

MCFile == {ManifestX, PackageX, PackageY}

MCUpstream == (ra :> {1, 2}) @@ (rb :> {3})

MCFiles == (1 :> {PackageX}) @@ (2 :> {ManifestX, PackageX, PackageY}) @@ (3 :> {})

MCSubmodule == {PackageY}
=============================================================================
