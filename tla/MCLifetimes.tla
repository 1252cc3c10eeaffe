----------------------------- MODULE MCLifetimes -----------------------------
(* Small instances of Lifetimes for TLC. *)
EXTENDS Lifetimes, TLC

\* Objects differ in nothing but their names.
Symmetry == Permutations(Objs)
=============================================================================
