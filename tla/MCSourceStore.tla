--------------------------- MODULE MCSourceStore ---------------------------
(***************************************************************************)
(* TLC instances of SourceStore.  Recorders, sources and versions are      *)
(* interchangeable.                                                        *)
(***************************************************************************)
EXTENDS SourceStore, TLC

Symmetry == Permutations(Recorder) \cup Permutations(Source) \cup Permutations(Version)
=============================================================================
