------------------------------ MODULE WasmHeap ------------------------------
(***************************************************************************)
(* The allocator of the web build, ffi/wasm/wasm_rt.c: power-of-two size    *)
(* classes, one free list per class threaded through the free blocks, and   *)
(* fresh blocks cut from the end of the linear memory, which may refuse to  *)
(* grow.  Everything is counted in units of 16 bytes, the size of a header  *)
(* and the least alignment; a unit holds two words.  The link of a free     *)
(* block is the first word of its first unit; the header, {cls, pad}, is    *)
(* the unit before the pointer given out.  For the least alignment these    *)
(* are the same unit, and that is what makes the order of reads and writes  *)
(* in rt_free matter.                                                       *)
(***************************************************************************)
EXTENDS Integers, FiniteSets, Sequences

CONSTANTS
  Classes,     \* the classes `cls` in use
  Units,       \* [Classes -> units of a block], 2^cls bytes in the code: 32 or more
  Sizes,       \* sizes asked for
  Aligns,      \* alignments asked for: 1 (16 bytes or less), 2, 4, ...
  HeapBase,    \* __heap_base, rounded up as grab does
  PageUnits,   \* units in a page of 64 KiB
  FirstMemory, \* size of the memory at the start
  MaxMemory,   \* bound: the memory never grows beyond
  MaxLive,     \* bound: regions the program holds at a time
  Junk         \* what the program writes into its regions

Need(size, align) == size + 1 + (IF align > 1 THEN align ELSE 0)

ASSUME HeapAssumption ==
  /\ Classes \subseteq Nat \ {0} /\ Sizes \subseteq Nat
  /\ Aligns \subseteq Nat \ {0}
  /\ Units \in [Classes -> Nat \ {0, 1}]
  /\ \A c, d \in Classes : c < d => Units[c] < Units[d]
  /\ \A s \in Sizes, a \in Aligns : \E c \in Classes : Units[c] >= Need(s, a)
  /\ HeapBase \in Nat \ {0} /\ PageUnits \in Nat \ {0}
  /\ FirstMemory \in Nat /\ MaxMemory \in Nat /\ MaxLive \in Nat
  /\ HeapBase <= FirstMemory /\ FirstMemory <= MaxMemory
  /\ Junk \in Int

VARIABLES
  mem,        \* the linear memory: [unit -> [lo, hi]]
  freeList,   \* free_list: [Lists -> first free block, or 0]
  brk,        \* end of the blocks cut so far; 0 before the first call of grab
  have,       \* size of the memory
  live,       \* the program: [pointers it holds -> [size, align] it asked for]
  blocks,     \* every block cut so far -> its class                (history)
  parked,     \* [Lists -> free blocks, last freed first]           (history)
  peak        \* [Classes -> most blocks live at a time]            (history)

heap == <<mem, freeList, brk, have>>
vars == <<mem, freeList, brk, have, live, blocks, parked, peak>>

Addresses == 0 .. MaxMemory - 1

\* The entries of free_list; 0 stands for all those that no class uses.
Lists == {0} \cup Classes

Init ==
  /\ mem = [u \in Addresses |-> [lo |-> 0, hi |-> 0]]
  /\ freeList = [c \in Lists |-> 0]
  /\ brk = 0
  /\ have = FirstMemory
  /\ live = [p \in {} |-> [size |-> 0, align |-> 1]]
  /\ blocks = [b \in {} |-> 0]
  /\ parked = [c \in Lists |-> <<>>]
  /\ peak = [c \in Classes |-> 0]

-----------------------------------------------------------------------------
(* Where things are *)

Extent(p, size) == p .. p + size - 1
Region(p) == Extent(p, live[p].size)
BlockUnits(b) == Extent(b, Units[blocks[b]])

\* The block a live pointer was cut from, as the history knows it.
BlockOf(p) == CHOOSE b \in DOMAIN blocks : p - 1 \in BlockUnits(b)

LiveBlocks == {BlockOf(p) : p \in DOMAIN live}
OfClass(c, S) == {b \in S : blocks[b] = c}

-----------------------------------------------------------------------------
(* rt_alloc *)

ClassTight(size, align) ==   \* mutant: no slack for the alignment
  CHOOSE c \in Classes : /\ Units[c] >= size + 1
                         /\ \A d \in Classes : Units[d] >= size + 1 => c <= d

\* The loop over `cls`: the smallest class that is large enough.
ClassFor(size, align) ==
  CHOOSE c \in Classes : /\ Units[c] >= Need(size, align)
                         /\ \A d \in Classes : Units[d] >= Need(size, align) => c <= d

\* (blk + sizeof(hdr) + align - 1) & ~(align - 1)
Placed(blk, align) == ((blk + 1 + align - 1) \div align) * align

\* The header is written and the pointer returned; `cut` are the blocks there are now.
GiveOut(blk, size, align, cut) ==
  LET c    == ClassFor(size, align)
      user == Placed(blk, align)
      used == Cardinality(OfClass(c, LiveBlocks)) + 1
  IN /\ mem' = [mem EXCEPT ![user - 1] = [lo |-> c, hi |-> user - blk]]
     /\ live' = [p \in DOMAIN live \cup {user} |->
                   IF p = user THEN [size |-> size, align |-> align] ELSE live[p]]
     /\ blocks' = cut
     /\ peak' = [peak EXCEPT ![c] = IF used > @ THEN used ELSE @]

PopKeepsHead(c) == freeList[c]   \* mutant: the head stays on the list

\* *(void **)blk, the next free block.
NextFree(c) == mem[freeList[c]].lo

\* A block of the right class is free.
Recycle(size, align) ==
  LET c == ClassFor(size, align) IN
  /\ freeList[c] # 0
  /\ Cardinality(DOMAIN live) < MaxLive
  /\ freeList' = [freeList EXCEPT ![c] = NextFree(c)]
  /\ parked' = [parked EXCEPT ![c] = IF @ = <<>> THEN @ ELSE Tail(@)]
  /\ GiveOut(freeList[c], size, align, blocks)
  /\ UNCHANGED <<brk, have>>

-----------------------------------------------------------------------------
(* grab *)

Start == IF brk = 0 THEN HeapBase ELSE brk

EndFor(size, align) == Start + Units[ClassFor(size, align)]

NeverGrown(end) == have   \* mutant: hands out memory that is not there

\* What memory_grow makes of `have` to hold everything up to `end`.
Grown(end) == have + ((end - have + PageUnits - 1) \div PageUnits) * PageUnits

HaveFor(end) == IF end > have THEN Grown(end) ELSE have

\* No free block: cut one from the end of the memory, which grows if it must.
Carve(size, align) ==
  LET c == ClassFor(size, align) IN
  /\ freeList[c] = 0
  /\ Cardinality(DOMAIN live) < MaxLive
  /\ HaveFor(EndFor(size, align)) <= MaxMemory
  /\ have' = HaveFor(EndFor(size, align))
  /\ brk' = EndFor(size, align)
  /\ GiveOut(Start, size, align,
             [b \in DOMAIN blocks \cup {Start} |-> IF b = Start THEN c ELSE blocks[b]])
  /\ UNCHANGED <<freeList, parked>>

BrkAfterAnyway(size, align) == EndFor(size, align)   \* mutant: brk moves all the same

BrkAfterRefusal(size, align) == Start

\* memory_grow refuses: rt_alloc answers null.
GrowRefused(size, align) ==
  /\ freeList[ClassFor(size, align)] = 0
  /\ EndFor(size, align) > have
  /\ brk' = BrkAfterRefusal(size, align)
  /\ UNCHANGED <<mem, freeList, have, live, blocks, parked, peak>>

-----------------------------------------------------------------------------
(* rt_free *)

\* blk = p - h->pad
FreedBlock(p) == p - mem[p - 1].hi

ClassReloaded(p) ==   \* mutant: reads h->cls again, after the link was stored over it
  IF FreedBlock(p) = p - 1 /\ freeList[mem[p - 1].lo] = 0 THEN 0 ELSE mem[p - 1].lo

\* h->cls.  The link is stored before the second use of h->cls, and may be
\* stored in the same word.  The two accesses have different types, so the build
\* (clang -O2, scripts/build-web.sh) loads cls once, before the store.
FreedClass(p) == mem[p - 1].lo

LinkLost(c) == 0   \* mutant: the rest of the list is forgotten

LinkTo(c) == freeList[c]

Free(p) ==
  LET c == FreedClass(p)
      blk == FreedBlock(p)
  IN /\ p \in DOMAIN live
     /\ mem' = [mem EXCEPT ![blk].lo = LinkTo(mem[p - 1].lo)]
     /\ freeList' = [freeList EXCEPT ![c] = blk]
     /\ parked' = [parked EXCEPT ![c] = <<blk>> \o @]
     /\ live' = [q \in DOMAIN live \ {p} |-> live[q]]
     /\ UNCHANGED <<brk, have, blocks, peak>>

-----------------------------------------------------------------------------
(* The program writes to a region it holds. *)

Fill(p) ==
  /\ p \in DOMAIN live
  /\ mem' = [u \in Addresses |-> IF u \in Region(p) THEN [lo |-> Junk, hi |-> Junk] ELSE mem[u]]
  /\ UNCHANGED <<freeList, brk, have, live, blocks, parked, peak>>

Next ==
  \/ \E size \in Sizes, align \in Aligns :
       Recycle(size, align) \/ Carve(size, align) \/ GrowRefused(size, align)
  \/ \E p \in DOMAIN live : Free(p) \/ Fill(p)

Spec == Init /\ [][Next]_vars

-----------------------------------------------------------------------------
(* Properties *)

(* The type of the variables: lists start at blocks, the memory covers them. *)
TypeOK ==
  /\ DOMAIN blocks \subseteq Addresses
  /\ blocks \in [DOMAIN blocks -> Classes]
  /\ mem \in [Addresses -> [lo : Addresses \cup Classes \cup {Junk}, hi : Addresses \cup {Junk}]]
  /\ freeList \in [Lists -> {0} \cup DOMAIN blocks]
  /\ brk \in {0} \cup HeapBase .. have
  /\ have \in FirstMemory .. MaxMemory
  /\ DOMAIN live \subseteq Addresses
  /\ live \in [DOMAIN live -> [size : Sizes, align : Aligns]]
  /\ parked \in [Lists -> Seq(DOMAIN blocks)]
  /\ peak \in [Classes -> 0 .. MaxLive]

(* Whatever was allocated, freed and written before, the header in front of a *)
(* pointer the program holds still says where its block starts and of which   *)
(* class it is, the block is large enough for what was asked, and no other    *)
(* pointer has it: rt_free relies on nothing else.                            *)
HeadersKept ==
  /\ \A p \in DOMAIN live :
       LET h == mem[p - 1] IN
       /\ p - h.hi \in DOMAIN blocks
       /\ h.lo = blocks[p - h.hi]
       /\ h.hi >= 1
       /\ p + live[p].size <= p - h.hi + Units[h.lo]
  /\ \A p, q \in DOMAIN live : p # q => p - mem[p - 1].hi # q - mem[q - 1].hi

Link(s, i) == IF i > Len(s) THEN 0 ELSE s[i]

(* Each free list, followed through the links in memory, is the free blocks   *)
(* of that class and no other, the last freed first: it loses none, and it    *)
(* has no block of another class and no cycle.                                *)
FreeListsWhole ==
  \A c \in Lists :
    /\ freeList[c] = Link(parked[c], 1)
    /\ \A i \in 1 .. Len(parked[c]) : /\ blocks[parked[c][i]] = c
                                      /\ mem[parked[c][i]].lo = Link(parked[c], i + 1)

(* The blocks fill the memory from the heap base to brk without a gap, and    *)
(* each is either held by the program or once on a free list: no order of     *)
(* calls loses a block or gives one out twice.                                *)
NothingLost ==
  LET places(b) == UNION {{<<c, i>> : i \in {j \in DOMAIN parked[c] : parked[c][j] = b}} : c \in Lists}
      owners(b) == {p \in DOMAIN live : BlockOf(p) = b}
  IN /\ \A u \in HeapBase .. brk - 1 : \E b \in DOMAIN blocks : u \in BlockUnits(b)
     /\ \A b, d \in DOMAIN blocks : b # d => BlockUnits(b) \cap BlockUnits(d) = {}
     /\ \A b \in DOMAIN blocks : Cardinality(places(b)) + Cardinality(owners(b)) = 1

(* Freed memory is reused: no class ever has more blocks than the program     *)
(* once held of it at a time ("a bump allocator would leak without bound").   *)
FootprintIsPeak ==
  \A c \in Classes : Cardinality(OfClass(c, DOMAIN blocks)) = peak[c]

(* The memory that was grown is used: nothing of it is lost, and none of it   *)
(* was cut while a free block would have done.                                *)
NoneWasted == NothingLost /\ FootprintIsPeak

LiveUnits == UNION {Region(p) : p \in DOMAIN live}

AbstractHeap == INSTANCE Heap WITH
  data <- [u \in LiveUnits |-> mem[u]], memory <- have

(* What the program sees of the allocator is Heap: its regions are aligned,   *)
(* inside the memory and disjoint, and no call changes what is in them.       *)
ImplementsHeap == AbstractHeap!Spec
=============================================================================
