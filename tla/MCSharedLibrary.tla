-------------------------- MODULE MCSharedLibrary --------------------------
(***************************************************************************)
(* Instances of SharedLibrary for TLC.                                     *)
(***************************************************************************)
EXTENDS SharedLibrary, TLC

Symmetric == Permutations(Procs) \cup Permutations(Nodes) \cup Permutations(Contents)
=============================================================================
