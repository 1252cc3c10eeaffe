-------------------------- MODULE MCBufferMapping --------------------------
(* A buffer of two cells, mapped whole or either cell alone. *)
EXTENDS BufferMapping

MCRanges == {s \in SUBSET Cells : s # {}}
=============================================================================
