----------------------------- MODULE MCLogRing -----------------------------
(* A small instance of LogRing for TLC. *)
EXTENDS LogRing
=============================================================================
