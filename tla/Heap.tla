-------------------------------- MODULE Heap --------------------------------
(***************************************************************************)
(* What the allocator of the web build promises the program, whatever it    *)
(* does inside (ffi/wasm/wasm_rt.c; KGEN_CompilerRT_AlignedAlloc and        *)
(* mw_alloc are its callers): a region is aligned, inside the memory and    *)
(* disjoint from every other one, and only the program changes what is in   *)
(* it.  A call that fails changes nothing here.                             *)
(***************************************************************************)
EXTENDS Integers

CONSTANTS
  Sizes,      \* sizes the program asks for, in units of 16 bytes
  Aligns,     \* alignments it asks for, in the same unit
  Addresses   \* where a region may start

VARIABLES
  live,       \* [pointers the program holds -> [size, align] it asked for]
  data,       \* [units of live regions -> their content]
  memory      \* size of the linear memory

vars == <<live, data, memory>>

Extent(p, size) == p .. p + size - 1
Region(p) == Extent(p, live[p].size)

Init ==
  /\ live = [p \in {} |-> [size |-> 0, align |-> 1]]
  /\ data = [u \in {} |-> 0]
  /\ memory \in Nat

SameOn(S) == \A u \in S : data'[u] = data[u]

Alloc(p, size, align) ==
  /\ p % align = 0
  /\ p \notin DOMAIN live
  /\ \A q \in DOMAIN live : Extent(p, size) \cap Region(q) = {}
  /\ memory' >= memory
  /\ p + size <= memory'
  /\ live' = [q \in DOMAIN live \cup {p} |->
                IF q = p THEN [size |-> size, align |-> align] ELSE live[q]]
  /\ DOMAIN data' = DOMAIN data \cup Extent(p, size)
  /\ SameOn(DOMAIN data)

Fill(p) ==
  /\ DOMAIN data' = DOMAIN data
  /\ SameOn(DOMAIN data \ Region(p))
  /\ UNCHANGED <<live, memory>>

Free(p) ==
  /\ live' = [q \in DOMAIN live \ {p} |-> live[q]]
  /\ DOMAIN data' = DOMAIN data \ Region(p)
  /\ SameOn(DOMAIN data')
  /\ UNCHANGED memory

Next ==
  \/ \E p \in Addresses, size \in Sizes, align \in Aligns : Alloc(p, size, align)
  \/ \E p \in DOMAIN live : Fill(p) \/ Free(p)

Spec == Init /\ [][Next]_vars
=============================================================================
