---------------------------- MODULE MCFutexPool ----------------------------
EXTENDS FutexPool, TLC

(* The threads of a kind are interchangeable, for safety properties. *)
Symmetry == Permutations(Workers) \cup Permutations(Callers)
=============================================================================
