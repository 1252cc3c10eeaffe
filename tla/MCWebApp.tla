------------------------------ MODULE MCWebApp ------------------------------
(* Small instances of WebApp for TLC. *)
EXTENDS WebApp

CONSTANTS c1, c2, c3
=============================================================================
