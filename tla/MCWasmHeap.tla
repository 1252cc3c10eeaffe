----------------------------- MODULE MCWasmHeap -----------------------------
(* Three classes of two, four and eight units, classes 5 to 7 of the code. *)
EXTENDS WasmHeap

MCUnits == [c \in Classes |-> 2 ^ (c - 4)]
=============================================================================
