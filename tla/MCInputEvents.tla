---------------------------- MODULE MCInputEvents ----------------------------
(* Small instances of InputEvents for TLC. *)
EXTENDS InputEvents, TLC

CONSTANTS c1, c2, k1

CanvasSymmetry == Permutations(Canvases)
=============================================================================
