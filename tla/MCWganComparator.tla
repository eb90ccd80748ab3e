---------------------------- MODULE MCWganComparator ----------------------------
(* WganComparator for TLC: commands and members are interchangeable. *)
EXTENDS WganComparator, TLC

Symmetry == Permutations(Procs) \cup Permutations(Members)
=============================================================================
