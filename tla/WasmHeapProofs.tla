--------------------------- MODULE WasmHeapProofs ---------------------------
(***************************************************************************)
(* Proofs about WasmHeap for any classes, sizes, alignments and memory.     *)
(***************************************************************************)
EXTENDS WasmHeap, QueueLemmas, FiniteSetTheorems, WellFoundedInduction

-----------------------------------------------------------------------------
(* Sizes and places *)

LEMMA Assumed ==
  /\ Classes \subseteq Nat \ {0} /\ Sizes \subseteq Nat /\ Aligns \subseteq Nat \ {0}
  /\ \A c \in Classes : Units[c] \in Nat /\ Units[c] >= 2
  /\ HeapBase \in Nat /\ HeapBase >= 1 /\ PageUnits \in Nat /\ PageUnits >= 1
  /\ FirstMemory \in Nat /\ MaxMemory \in Nat /\ MaxLive \in Nat
  /\ HeapBase <= FirstMemory /\ FirstMemory <= MaxMemory
BY HeapAssumption

\* A set of natural numbers that is not empty has a least element.
LEMMA Least ==
  ASSUME NEW S, S \subseteq Nat, S # {}
  PROVE  \E m \in S : \A n \in S : m <= n
<1>. DEFINE less == OpToRel(<, Nat)
<1>1. IsWellFoundedOn(less, Nat)
  BY NatLessThanWellFounded
<1>2. \A x, y \in Nat : x < y => <<x, y>> \in less
  BY DEF OpToRel
<1>. HIDE DEF less
<1>3. PICK m \in S : \A n \in S : <<n, m>> \notin less
  BY <1>1, WFMin
<1>4. \A n \in S : ~(n < m)
  BY <1>2, <1>3
<1>5. \A n \in S : n \in Nat /\ m \in Nat
  OBVIOUS
<1>. QED BY <1>4, <1>5

\* The loop of rt_alloc ends, at a class that holds the header, the region and the
\* slack its alignment may take.
LEMMA ClassHolds ==
  ASSUME NEW size \in Sizes, NEW align \in Aligns
  PROVE  ClassFor(size, align) \in Classes /\ Units[ClassFor(size, align)] >= Need(size, align)
<1>. DEFINE fit == {c \in Classes : Units[c] >= Need(size, align)}
<1>1. fit # {} /\ fit \subseteq Nat
  BY HeapAssumption
<1>2. PICK c \in fit : \A d \in fit : c <= d
  BY <1>1, Least
<1>. QED BY <1>2 DEF ClassFor

LEMMA Division ==
  ASSUME NEW n \in Nat, NEW d \in Nat, d >= 1
  PROVE  /\ n \div d \in Nat
         /\ (n \div d) * d \in Nat /\ (n \div d) * d <= n /\ n < (n \div d) * d + d
  OBVIOUS

\* What is rounded down to a multiple is a multiple.
LEMMA Multiple ==
  ASSUME NEW q \in Nat, NEW d \in Nat, d >= 1
  PROVE  (q * d) % d = 0
  OBVIOUS

\* In its block a region starts after its header, and ends in it.
LEMMA Placement ==
  ASSUME NEW blk \in Nat, NEW size \in Sizes, NEW align \in Aligns
  PROVE  LET user == Placed(blk, align)
             past == blk + Units[ClassFor(size, align)]
         IN /\ user \in Nat /\ user % align = 0
            /\ blk + 1 <= user /\ user < past /\ user + size <= past
<1>. DEFINE user == Placed(blk, align)
            u    == Units[ClassFor(size, align)]
<1>1. size \in Nat /\ align \in Nat /\ align >= 1
  BY Assumed
<1>2. u \in Nat /\ u >= 2 /\ u >= Need(size, align)
  BY ClassHolds, Assumed
<1>3. user = ((blk + align) \div align) * align
  <2>1. blk + 1 + align - 1 = blk + align
    BY <1>1
  <2>. QED BY <2>1 DEF Placed
<1>4. user \in Nat /\ user <= blk + align /\ blk < user
  <2>1. blk + align \in Nat
    BY <1>1
  <2>2. user <= blk + align /\ blk + align < user + align /\ user \in Nat
    BY <1>1, <1>3, <2>1, Division
  <2>. QED BY <1>1, <2>2
<1>5. user % align = 0
  <2>. DEFINE q == (blk + align) \div align
  <2>1. blk + align \in Nat
    BY <1>1
  <2>2. q \in Nat
    BY <1>1, <2>1, Division
  <2>. HIDE DEF q
  <2>3. (q * align) % align = 0
    BY <1>1, <2>2, Multiple
  <2>. QED BY <1>3, <2>3 DEF q
<1>6. user + size <= blk + u /\ user < blk + u
  <2>. HIDE DEF user, u
  <2>1. CASE align = 1
    BY <1>1, <1>2, <1>4, <2>1 DEF Need
  <2>2. CASE align > 1
    BY <1>1, <1>2, <1>4, <2>2 DEF Need
  <2>. QED BY <1>1, <2>1, <2>2
<1>7. blk + 1 <= user
  BY <1>4
<1>. QED BY <1>4, <1>5, <1>6, <1>7

\* The pages asked for are enough.
LEMMA Growth ==
  ASSUME NEW end \in Nat, have \in Nat
  PROVE  HaveFor(end) \in Nat /\ HaveFor(end) >= have /\ HaveFor(end) >= end
<1>1. CASE end > have
  <2>. DEFINE n == end - have + PageUnits - 1
  <2>1. n \in Nat /\ PageUnits \in Nat /\ PageUnits >= 1
    BY <1>1, Assumed
  <2>2. (n \div PageUnits) * PageUnits \in Nat /\ n < (n \div PageUnits) * PageUnits + PageUnits
    BY <2>1, Division
  <2>3. HaveFor(end) = have + (n \div PageUnits) * PageUnits
    BY <1>1 DEF HaveFor, Grown
  <2>. HIDE DEF n
  <2>4. end - have + PageUnits - 1 < (n \div PageUnits) * PageUnits + PageUnits
    BY <2>2 DEF n
  <2>. QED BY <1>1, <2>1, <2>2, <2>3, <2>4
<1>2. CASE ~(end > have)
  BY <1>2 DEF HaveFor
<1>. QED BY <1>1, <1>2

-----------------------------------------------------------------------------
(* The inductive invariant *)

\* The block rt_free finds behind a pointer.
Blk(p) == p - mem[p - 1].hi

Past(b) == b + Units[blocks[b]]
Within(u, b) == b <= u /\ u < Past(b)

\* The blocks lie side by side from the heap base to brk.
BlocksInv ==
  /\ \A b \in DOMAIN blocks : HeapBase <= b /\ Past(b) <= Start
  /\ \A b, d \in DOMAIN blocks : b < d => Past(b) <= d
  /\ \A u \in HeapBase .. Start - 1 : \E b \in DOMAIN blocks : Within(u, b)

Once(s) == \A i, j \in 1 .. Len(s) : s[i] = s[j] => i = j
Listed(lists, b) == \E c \in Lists : \E i \in 1 .. Len(lists[c]) : lists[c][i] = b

\* A block is on one list, at one place, or the program holds it, and not both.
OwnedInv ==
  /\ \A c \in Lists : Once(parked[c])
  /\ \A p \in DOMAIN live : p # 0 /\ ~Listed(parked, Blk(p))
  /\ \A b \in DOMAIN blocks : Listed(parked, b) \/ \E p \in DOMAIN live : Blk(p) = b

IInv ==
  /\ TypeOK
  /\ BlocksInv
  /\ HeadersKept
  /\ FreeListsWhole
  /\ OwnedInv
  /\ FootprintIsPeak

-----------------------------------------------------------------------------
(* What the invariant says of blocks, pointers and lists *)

LEMMA BlockFacts ==
  ASSUME IInv
  PROVE  /\ Start \in Nat /\ HeapBase <= Start /\ Start <= have /\ have \in Nat
         /\ have <= MaxMemory
         /\ \A b \in DOMAIN blocks :
              /\ b \in Nat /\ b >= 1 /\ b \in Addresses /\ blocks[b] \in Classes
              /\ Past(b) \in Nat /\ b + 2 <= Past(b) /\ Past(b) <= Start
<1>1. /\ Start \in Nat /\ HeapBase <= Start /\ Start <= have /\ have \in Nat
      /\ have <= MaxMemory
  BY Assumed DEF IInv, TypeOK, Start
<1>2. ASSUME NEW b \in DOMAIN blocks
      PROVE  /\ b \in Nat /\ b >= 1 /\ b \in Addresses /\ blocks[b] \in Classes
             /\ Past(b) \in Nat /\ b + 2 <= Past(b) /\ Past(b) <= Start
  <2>1. b \in Addresses /\ blocks[b] \in Classes /\ HeapBase <= b /\ Past(b) <= Start
    BY DEF IInv, TypeOK, BlocksInv
  <2>2. Units[blocks[b]] \in Nat /\ Units[blocks[b]] >= 2
    BY <2>1, Assumed
  <2>3. b \in Nat /\ b >= 1
    BY <2>1, Assumed DEF Addresses
  <2>4. Past(b) \in Nat /\ b + 2 <= Past(b)
    BY <2>2, <2>3 DEF Past
  <2>. QED BY <2>1, <2>3, <2>4
<1>. QED BY <1>1, <1>2

\* Two blocks share no unit.
LEMMA Apart ==
  ASSUME IInv, NEW b \in DOMAIN blocks, NEW d \in DOMAIN blocks, b # d
  PROVE  Past(b) <= d \/ Past(d) <= b
<1>1. b \in Nat /\ d \in Nat
  BY BlockFacts
<1>. QED BY <1>1 DEF IInv, BlocksInv

LEMMA OneBlock ==
  ASSUME IInv, NEW b \in DOMAIN blocks, NEW d \in DOMAIN blocks, NEW u \in Int,
         Within(u, b), Within(u, d)
  PROVE  b = d
<1>1. /\ b \in Nat /\ d \in Nat /\ Past(b) \in Nat /\ Past(d) \in Nat
  BY BlockFacts
<1>. QED BY <1>1, Apart DEF Within

\* Behind a pointer is its header, which names its block, and the region is after it.
LEMMA PointerFacts ==
  ASSUME IInv, NEW p \in DOMAIN live
  PROVE  /\ p \in Nat /\ p >= 1 /\ p \in Addresses /\ p - 1 \in Addresses
         /\ live[p].size \in Nat /\ live[p].size \in Sizes /\ live[p].align \in Aligns
         /\ Blk(p) \in DOMAIN blocks /\ mem[p - 1].hi \in Nat /\ mem[p - 1].hi >= 1
         /\ mem[p - 1].lo = blocks[Blk(p)]
         /\ Within(p - 1, Blk(p)) /\ Blk(p) + 1 <= p
         /\ p + live[p].size <= Past(Blk(p))
<1>1. p \in Addresses /\ p # 0 /\ live[p] \in [size : Sizes, align : Aligns]
  BY DEF IInv, TypeOK, OwnedInv
<1>2. p \in Nat /\ p >= 1 /\ p - 1 \in Addresses
  BY <1>1, Assumed DEF Addresses
<1>3. live[p].size \in Nat /\ live[p].size \in Sizes /\ live[p].align \in Aligns
  BY <1>1, Assumed
<1>4. mem[p - 1].hi \in Addresses \cup {Junk}
  BY <1>2 DEF IInv, TypeOK
<1>5. /\ Blk(p) \in DOMAIN blocks /\ mem[p - 1].lo = blocks[Blk(p)] /\ mem[p - 1].hi >= 1
      /\ p + live[p].size <= Blk(p) + Units[blocks[Blk(p)]]
  BY DEF IInv, HeadersKept, Blk
<1>6. mem[p - 1].hi \in Nat
  BY <1>4, <1>5, HeapAssumption, Assumed DEF Addresses
<1>7. Blk(p) + 1 <= p /\ Blk(p) \in Nat /\ Past(Blk(p)) \in Nat
  BY <1>2, <1>5, <1>6, BlockFacts DEF Blk
<1>. QED BY <1>1, <1>2, <1>3, <1>5, <1>6, <1>7 DEF Within, Past

LEMMA OnePointer ==
  ASSUME IInv, NEW p \in DOMAIN live, NEW q \in DOMAIN live, Blk(p) = Blk(q)
  PROVE  p = q
BY DEF IInv, HeadersKept, Blk

\* A region is inside its block and its header is outside the region.
LEMMA RegionFacts ==
  ASSUME IInv, NEW p \in DOMAIN live, NEW u \in Region(p)
  PROVE  u \in Nat /\ u \in Addresses /\ p <= u /\ Within(u, Blk(p))
<1>1. u \in p .. p + live[p].size - 1
  BY DEF Region, Extent
<1>2. /\ p \in Nat /\ live[p].size \in Nat /\ Blk(p) \in DOMAIN blocks
      /\ Blk(p) + 1 <= p /\ p + live[p].size <= Past(Blk(p))
  BY PointerFacts
<1>3. Blk(p) \in Nat /\ Past(Blk(p)) \in Nat /\ Past(Blk(p)) <= MaxMemory
  BY <1>2, BlockFacts, Assumed
<1>. QED BY <1>1, <1>2, <1>3, Assumed DEF Within, Addresses

\* The history names the same block as the header.
LEMMA SameBlock ==
  ASSUME IInv, NEW p \in DOMAIN live
  PROVE  BlockOf(p) = Blk(p)
<1>1. p - 1 \in Int /\ Blk(p) \in DOMAIN blocks /\ Within(p - 1, Blk(p))
  BY PointerFacts
<1>2. ASSUME NEW b \in DOMAIN blocks PROVE p - 1 \in BlockUnits(b) <=> Within(p - 1, b)
  <2>1. b \in Nat /\ Units[blocks[b]] \in Nat
    BY BlockFacts, Assumed
  <2>. QED BY <1>1, <2>1 DEF BlockUnits, Extent, Within, Past
<1>3. \A b \in DOMAIN blocks : p - 1 \in BlockUnits(b) <=> b = Blk(p)
  BY <1>1, <1>2, OneBlock
<1>. QED BY <1>1, <1>3 DEF BlockOf

LEMMA ListFacts ==
  ASSUME IInv, NEW c \in Lists
  PROVE  /\ parked[c] \in Seq(DOMAIN blocks) /\ Once(parked[c])
         /\ freeList[c] = Link(parked[c], 1)
         /\ \A i \in 1 .. Len(parked[c]) :
              /\ parked[c][i] \in DOMAIN blocks /\ blocks[parked[c][i]] = c
              /\ mem[parked[c][i]].lo = Link(parked[c], i + 1)
              /\ Listed(parked, parked[c][i])
BY DEF IInv, TypeOK, OwnedInv, FreeListsWhole, Listed

\* A list is empty exactly when its entry of free_list is 0.
LEMMA ListStart ==
  ASSUME IInv, NEW c \in Lists
  PROVE  /\ freeList[c] = 0 <=> parked[c] = <<>>
         /\ freeList[c] # 0 => Len(parked[c]) >= 1 /\ freeList[c] = parked[c][1]
<1>1. parked[c] \in Seq(DOMAIN blocks) /\ freeList[c] = Link(parked[c], 1)
  BY ListFacts
<1>2. CASE parked[c] = <<>>
  BY <1>1, <1>2 DEF Link
<1>3. CASE parked[c] # <<>>
  <2>1. Len(parked[c]) \in Nat /\ Len(parked[c]) >= 1 /\ parked[c][1] \in DOMAIN blocks
    BY <1>1, <1>3
  <2>2. freeList[c] = parked[c][1]
    BY <1>1, <2>1 DEF Link
  <2>. QED BY <1>3, <2>1, <2>2, BlockFacts
<1>. QED BY <1>2, <1>3

-----------------------------------------------------------------------------
(* What a write to one block leaves alone *)

LEMMA Frame ==
  ASSUME IInv, NEW b \in Nat, NEW n \in Nat,
         \A d \in DOMAIN blocks : d # b => Past(d) <= b \/ b + n <= d,
         \A u \in Addresses : u < b \/ b + n <= u => mem'[u] = mem[u]
  PROVE  /\ \A d \in DOMAIN blocks : d # b => mem'[d] = mem[d]
         /\ \A q \in DOMAIN live : Blk(q) # b =>
              mem'[q - 1] = mem[q - 1] /\ \A u \in Region(q) : mem'[u] = mem[u]
<1>1. ASSUME NEW d \in DOMAIN blocks, d # b, NEW u \in Addresses, Within(u, d)
      PROVE  mem'[u] = mem[u]
  <2>1. d \in Nat /\ Past(d) \in Nat /\ u \in Int
    BY BlockFacts DEF Addresses
  <2>2. u < b \/ b + n <= u
    BY <1>1, <2>1 DEF Within
  <2>. QED BY <1>1, <2>2
<1>2. ASSUME NEW d \in DOMAIN blocks, d # b PROVE mem'[d] = mem[d]
  <2>1. d \in Addresses /\ Within(d, d)
    BY BlockFacts DEF Within
  <2>. QED BY <1>1, <1>2, <2>1
<1>3. ASSUME NEW q \in DOMAIN live, Blk(q) # b
      PROVE  mem'[q - 1] = mem[q - 1] /\ \A u \in Region(q) : mem'[u] = mem[u]
  <2>1. Blk(q) \in DOMAIN blocks /\ q - 1 \in Addresses /\ Within(q - 1, Blk(q))
    BY PointerFacts
  <2>2. \A u \in Region(q) : u \in Addresses /\ Within(u, Blk(q))
    BY RegionFacts
  <2>. QED BY <1>1, <1>3, <2>1, <2>2
<1>. QED BY <1>2, <1>3

-----------------------------------------------------------------------------
(* rt_alloc, once it has a block *)

\* The block is apart from the others, nobody holds it, and its class is c.
CanGiveOut(blk, c, cut) ==
  /\ HeapBase <= blk /\ blk + Units[c] <= MaxMemory
  /\ \A d \in DOMAIN blocks : d # blk => Past(d) <= blk \/ blk + Units[c] <= d
  /\ \A q \in DOMAIN live : Blk(q) # blk
  /\ cut \in [DOMAIN blocks \cup {blk} -> Classes] /\ cut[blk] = c
  /\ \A d \in DOMAIN blocks : cut[d] = blocks[d]

Unit == [lo : Addresses \cup Classes \cup {Junk}, hi : Addresses \cup {Junk}]

LEMMA GivenOut ==
  ASSUME IInv, NEW size \in Sizes, NEW align \in Aligns, NEW blk \in Nat, NEW cut,
         NEW c, c = ClassFor(size, align), NEW user, user = Placed(blk, align),
         CanGiveOut(blk, c, cut), GiveOut(blk, size, align, cut)
  PROVE  /\ user \in Nat /\ user \in Addresses /\ user # 0 /\ user - 1 \in Addresses
         /\ user \notin DOMAIN live /\ DOMAIN live' = DOMAIN live \cup {user}
         /\ live'[user] = [size |-> size, align |-> align]
         /\ \A q \in DOMAIN live : live'[q] = live[q]
         /\ mem' \in [Addresses -> Unit]
         /\ mem'[user - 1] = [lo |-> c, hi |-> user - blk]
         /\ \A u \in Addresses : u # user - 1 => mem'[u] = mem[u]
         /\ \A d \in DOMAIN blocks : d # blk => mem'[d] = mem[d]
         /\ \A q \in DOMAIN live :
              mem'[q - 1] = mem[q - 1] /\ \A u \in Region(q) : mem'[u] = mem[u]
         /\ blk <= user - 1 /\ user - 1 < blk + Units[c] /\ user + size <= blk + Units[c]
<1>. DEFINE n == Units[c]
<1>1. c \in Classes /\ n \in Nat /\ n >= 2
  BY ClassHolds, Assumed
<1>2. user \in Nat /\ blk + 1 <= user /\ user < blk + n /\ user + size <= blk + n
  BY Placement
<1>3. size \in Nat /\ MaxMemory \in Nat
  BY Assumed
<1>4. HeapBase <= blk /\ blk + n <= MaxMemory
  BY DEF CanGiveOut
<1>. HIDE DEF n
<1>5. /\ user \in Addresses /\ user # 0 /\ user - 1 \in Addresses
      /\ user - blk \in Addresses
  BY <1>1, <1>2, <1>3, <1>4 DEF Addresses
<1>6. /\ mem' = [mem EXCEPT ![user - 1] = [lo |-> c, hi |-> user - blk]]
      /\ live' = [p \in DOMAIN live \cup {user} |->
                    IF p = user THEN [size |-> size, align |-> align] ELSE live[p]]
  BY DEF GiveOut
<1>7. mem \in [Addresses -> Unit]
  BY DEF IInv, TypeOK, Unit
<1>8. [lo |-> c, hi |-> user - blk] \in Unit
  BY <1>1, <1>5 DEF Unit
<1>9. /\ mem' \in [Addresses -> Unit]
      /\ mem'[user - 1] = [lo |-> c, hi |-> user - blk]
      /\ \A u \in Addresses : u # user - 1 => mem'[u] = mem[u]
  BY <1>5, <1>6, <1>7, <1>8
<1>10. \A u \in Addresses : u < blk \/ blk + n <= u => mem'[u] = mem[u]
  BY <1>1, <1>2, <1>9 DEF Addresses
<1>11. \A d \in DOMAIN blocks : d # blk => Past(d) <= blk \/ blk + n <= d
  BY DEF CanGiveOut, n
<1>12. \A q \in DOMAIN live : Blk(q) # blk
  BY DEF CanGiveOut
<1>13. /\ \A d \in DOMAIN blocks : d # blk => mem'[d] = mem[d]
       /\ \A q \in DOMAIN live :
            mem'[q - 1] = mem[q - 1] /\ \A u \in Region(q) : mem'[u] = mem[u]
  BY <1>1, <1>10, <1>11, <1>12, Frame
<1>14. user \notin DOMAIN live
  <2>1. SUFFICES ASSUME user \in DOMAIN live PROVE FALSE
    OBVIOUS
  <2>2. Blk(user) \in DOMAIN blocks /\ Within(user - 1, Blk(user))
    BY <2>1, PointerFacts
  <2>3. Blk(user) # blk
    BY <2>1, <1>12
  <2>4. Past(Blk(user)) <= blk \/ blk + n <= Blk(user)
    BY <2>2, <2>3, <1>11
  <2>5. Blk(user) \in Nat /\ Past(Blk(user)) \in Nat
    BY <2>2, BlockFacts
  <2>. QED BY <1>1, <1>2, <2>2, <2>4, <2>5 DEF Within
<1>15. blk <= user - 1 /\ user - 1 < blk + n
  BY <1>1, <1>2
<1>. QED BY <1>2, <1>5, <1>6, <1>9, <1>13, <1>14, <1>15 DEF n

\* The new header names the block, and the others name theirs as before.
LEMMA HeaderWritten ==
  ASSUME IInv, NEW size \in Sizes, NEW align \in Aligns, NEW blk \in Nat, NEW cut,
         NEW c, c = ClassFor(size, align), NEW user, user = Placed(blk, align),
         CanGiveOut(blk, c, cut), GiveOut(blk, size, align, cut)
  PROVE  /\ HeadersKept'
         /\ user - mem'[user - 1].hi = blk
         /\ \A q \in DOMAIN live : q - mem'[q - 1].hi = Blk(q)
<1>1. /\ DOMAIN live' = DOMAIN live \cup {user} /\ user \notin DOMAIN live
      /\ live'[user] = [size |-> size, align |-> align]
      /\ \A q \in DOMAIN live : live'[q] = live[q]
      /\ mem'[user - 1] = [lo |-> c, hi |-> user - blk]
      /\ \A q \in DOMAIN live : mem'[q - 1] = mem[q - 1]
      /\ user \in Nat /\ blk <= user - 1 /\ user + size <= blk + Units[c]
  BY GivenOut
<1>2. blocks' = cut
  BY DEF GiveOut
<1>3. user - mem'[user - 1].hi = blk
  BY <1>1
<1>4. \A q \in DOMAIN live : q - mem'[q - 1].hi = Blk(q)
  BY <1>1 DEF Blk
<1>5. /\ blk \in DOMAIN cut /\ cut[blk] = c
      /\ \A d \in DOMAIN blocks : d \in DOMAIN cut /\ cut[d] = blocks[d]
      /\ \A q \in DOMAIN live : Blk(q) # blk
  BY DEF CanGiveOut
<1>6. ASSUME NEW p \in DOMAIN live'
      PROVE  /\ p - mem'[p - 1].hi \in DOMAIN blocks'
             /\ mem'[p - 1].lo = blocks'[p - mem'[p - 1].hi]
             /\ mem'[p - 1].hi >= 1
             /\ p + live'[p].size <= p - mem'[p - 1].hi + Units[mem'[p - 1].lo]
  <2>1. CASE p = user
    <3>1. /\ mem'[p - 1].lo = c /\ mem'[p - 1].hi = user - blk /\ live'[p].size = size
      BY <1>1, <2>1
    <3>2. user - blk >= 1
      BY <1>1
    <3>. QED BY <1>1, <1>2, <1>3, <1>5, <2>1, <3>1, <3>2
  <2>2. CASE p \in DOMAIN live
    <3>1. /\ Blk(p) \in DOMAIN blocks /\ mem[p - 1].lo = blocks[Blk(p)] /\ mem[p - 1].hi >= 1
          /\ p + live[p].size <= Blk(p) + Units[blocks[Blk(p)]]
      BY <2>2, PointerFacts DEF Past
    <3>. QED BY <1>1, <1>2, <1>4, <1>5, <2>2, <3>1
  <2>. QED BY <1>1, <2>1, <2>2
<1>7. ASSUME NEW p \in DOMAIN live', NEW q \in DOMAIN live', p # q
      PROVE  p - mem'[p - 1].hi # q - mem'[q - 1].hi
  BY <1>1, <1>3, <1>4, <1>5, <1>7, OnePointer
<1>. QED BY <1>3, <1>4, <1>6, <1>7 DEF HeadersKept

-----------------------------------------------------------------------------
(* Counting blocks *)

LEMMA Counts ==
  ASSUME IInv, NEW c \in Classes
  PROVE  /\ IsFiniteSet(OfClass(c, DOMAIN blocks)) /\ IsFiniteSet(OfClass(c, LiveBlocks))
         /\ OfClass(c, LiveBlocks) \subseteq OfClass(c, DOMAIN blocks)
         /\ Cardinality(OfClass(c, DOMAIN blocks)) \in Nat
         /\ Cardinality(OfClass(c, LiveBlocks)) \in Nat
         /\ Cardinality(OfClass(c, LiveBlocks)) <= Cardinality(DOMAIN live)
         /\ Cardinality(DOMAIN live) \in Nat
<1>1. IsFiniteSet(Addresses)
  BY FS_Interval, Assumed DEF Addresses
<1>2. IsFiniteSet(DOMAIN blocks) /\ IsFiniteSet(DOMAIN live)
  BY <1>1, FS_Subset DEF IInv, TypeOK
<1>3. LiveBlocks \subseteq DOMAIN blocks
  BY SameBlock, PointerFacts DEF LiveBlocks
<1>4. /\ OfClass(c, LiveBlocks) \subseteq OfClass(c, DOMAIN blocks)
      /\ OfClass(c, DOMAIN blocks) \subseteq DOMAIN blocks
      /\ OfClass(c, LiveBlocks) \subseteq LiveBlocks
  BY <1>3 DEF OfClass
<1>5. IsFiniteSet(OfClass(c, DOMAIN blocks)) /\ IsFiniteSet(OfClass(c, LiveBlocks))
  BY <1>2, <1>4, FS_Subset
<1>6. IsFiniteSet(LiveBlocks) /\ Cardinality(LiveBlocks) <= Cardinality(DOMAIN live)
  <2>. DEFINE f == [p \in DOMAIN live |-> BlockOf(p)]
  <2>1. f \in Surjection(DOMAIN live, LiveBlocks)
    BY DEF Surjection, LiveBlocks
  <2>. QED BY <1>2, <2>1, FS_Surjection
<1>7. /\ Cardinality(OfClass(c, LiveBlocks)) <= Cardinality(LiveBlocks)
  BY <1>4, <1>6, FS_Subset
<1>8. /\ Cardinality(OfClass(c, DOMAIN blocks)) \in Nat
      /\ Cardinality(OfClass(c, LiveBlocks)) \in Nat
      /\ Cardinality(LiveBlocks) \in Nat /\ Cardinality(DOMAIN live) \in Nat
  BY <1>2, <1>5, <1>6, FS_CardinalityType
<1>. QED BY <1>4, <1>5, <1>6, <1>7, <1>8

LEMMA PeakNoted ==
  ASSUME IInv, NEW size \in Sizes, NEW align \in Aligns, NEW blk, NEW cut,
         NEW c, c = ClassFor(size, align),
         Cardinality(DOMAIN live) < MaxLive, GiveOut(blk, size, align, cut)
  PROVE  LET used == Cardinality(OfClass(c, LiveBlocks)) + 1 IN
         /\ peak' \in [Classes -> 0 .. MaxLive]
         /\ \A d \in Classes : d # c => peak'[d] = peak[d]
         /\ peak'[c] = IF used > peak[c] THEN used ELSE peak[c]
<1>. DEFINE used == Cardinality(OfClass(c, LiveBlocks)) + 1
<1>1. c \in Classes
  BY ClassHolds
<1>2. peak' = [peak EXCEPT ![c] = IF used > @ THEN used ELSE @]
  BY DEF GiveOut
<1>3. used \in 0 .. MaxLive
  BY <1>1, Counts, Assumed
<1>4. peak \in [Classes -> 0 .. MaxLive]
  BY DEF IInv, TypeOK
<1>. HIDE DEF used
<1>5. /\ peak' \in [Classes -> 0 .. MaxLive]
      /\ \A d \in Classes : d # c => peak'[d] = peak[d]
      /\ peak'[c] = IF used > peak[c] THEN used ELSE peak[c]
  BY <1>1, <1>2, <1>3, <1>4
<1>. QED BY <1>5 DEF used

-----------------------------------------------------------------------------
(* A block is reused *)

LEMMA HeadParked ==
  ASSUME IInv, NEW c \in Lists, freeList[c] # 0
  PROVE  /\ freeList[c] \in DOMAIN blocks /\ blocks[freeList[c]] = c /\ c \in Classes
         /\ Listed(parked, freeList[c]) /\ NextFree(c) = Link(Tail(parked[c]), 1)
         /\ parked[c] # <<>>
<1>1. /\ parked[c] \in Seq(DOMAIN blocks) /\ parked[c] # <<>>
      /\ 1 \in 1 .. Len(parked[c]) /\ freeList[c] = parked[c][1]
  BY ListStart, ListFacts
<1>2. /\ freeList[c] \in DOMAIN blocks /\ blocks[freeList[c]] = c
      /\ Listed(parked, freeList[c]) /\ NextFree(c) = Link(parked[c], 2)
  BY <1>1, ListFacts DEF NextFree
<1>3. Link(parked[c], 2) = Link(Tail(parked[c]), 1)
  <2>1. /\ Len(Tail(parked[c])) = Len(parked[c]) - 1 /\ Len(parked[c]) \in Nat
        /\ Len(parked[c]) >= 2 => Tail(parked[c])[1] = parked[c][2]
    BY <1>1
  <2>. QED BY <2>1 DEF Link
<1>. QED BY <1>1, <1>2, <1>3, BlockFacts

LEMMA RecycleIs ==
  ASSUME IInv, NEW size \in Sizes, NEW align \in Aligns, Recycle(size, align),
         NEW c, c = ClassFor(size, align), NEW blk, blk = freeList[c]
  PROVE  /\ c \in Classes /\ c \in Lists /\ blk \in Nat /\ blk \in DOMAIN blocks
         /\ blocks[blk] = c /\ Listed(parked, blk) /\ freeList[c] # 0
         /\ CanGiveOut(blk, c, blocks) /\ GiveOut(blk, size, align, blocks)
         /\ blocks' = blocks /\ brk' = brk /\ have' = have /\ Start' = Start
         /\ freeList' = [freeList EXCEPT ![c] = Link(Tail(parked[c]), 1)]
         /\ parked' = [parked EXCEPT ![c] = Tail(parked[c])]
<1>1. c \in Classes /\ c \in Lists
  BY ClassHolds DEF Lists
<1>2. freeList[c] # 0
  BY DEF Recycle
<1>3. /\ blk \in DOMAIN blocks /\ blocks[blk] = c /\ Listed(parked, blk)
      /\ NextFree(c) = Link(Tail(parked[c]), 1) /\ parked[c] # <<>>
  BY <1>1, <1>2, HeadParked
<1>4. blk \in Nat /\ HeapBase <= blk /\ blk + Units[c] <= MaxMemory
  <2>1. Past(blk) <= Start /\ Past(blk) = blk + Units[c] /\ Past(blk) \in Nat /\ blk \in Nat
    BY <1>3, BlockFacts DEF Past
  <2>2. HeapBase <= blk
    BY <1>3 DEF IInv, BlocksInv
  <2>. QED BY <2>1, <2>2, BlockFacts, Assumed
<1>5. \A d \in DOMAIN blocks : d # blk => Past(d) <= blk \/ blk + Units[c] <= d
  BY <1>3, Apart DEF Past
<1>6. \A q \in DOMAIN live : Blk(q) # blk
  BY <1>3 DEF IInv, OwnedInv
<1>7. blocks \in [DOMAIN blocks \cup {blk} -> Classes]
  <2>1. blocks \in [DOMAIN blocks -> Classes]
    BY DEF IInv, TypeOK
  <2>2. DOMAIN blocks \cup {blk} = DOMAIN blocks
    BY <1>3
  <2>. QED BY <2>1, <2>2
<1>8. CanGiveOut(blk, c, blocks)
  BY <1>3, <1>4, <1>5, <1>6, <1>7 DEF CanGiveOut
<1>9. GiveOut(blk, size, align, blocks) /\ brk' = brk /\ have' = have
  BY DEF Recycle
<1>10. blocks' = blocks
  BY <1>9 DEF GiveOut
<1>11. /\ freeList' = [freeList EXCEPT ![c] = NextFree(c)]
       /\ parked' = [parked EXCEPT ![c] = IF @ = <<>> THEN @ ELSE Tail(@)]
  BY DEF Recycle
<1>12. parked' = [parked EXCEPT ![c] = Tail(parked[c])]
  BY <1>1, <1>3, <1>11 DEF IInv, TypeOK
<1>. QED BY <1>1, <1>2, <1>3, <1>4, <1>8, <1>9, <1>10, <1>11, <1>12 DEF Start

\* The list goes on from the second block; no list has the first any more.
LEMMA RecycleLists ==
  ASSUME IInv, NEW size \in Sizes, NEW align \in Aligns, Recycle(size, align),
         NEW c, c = ClassFor(size, align), NEW blk, blk = freeList[c]
  PROVE  /\ freeList' \in [Lists -> {0} \cup DOMAIN blocks]
         /\ parked' \in [Lists -> Seq(DOMAIN blocks)]
         /\ FreeListsWhole'
         /\ \A d \in Lists : Once(parked'[d])
         /\ \A b : Listed(parked', b) <=> Listed(parked, b) /\ b # blk
<1>1. /\ c \in Lists /\ blk \in Nat /\ blk \in DOMAIN blocks /\ blocks[blk] = c
      /\ freeList[c] # 0 /\ blocks' = blocks
      /\ freeList' = [freeList EXCEPT ![c] = Link(Tail(parked[c]), 1)]
      /\ parked' = [parked EXCEPT ![c] = Tail(parked[c])]
  BY RecycleIs
<1>2. \A d \in DOMAIN blocks : d # blk => mem'[d] = mem[d]
  <2>1. CanGiveOut(blk, c, blocks) /\ GiveOut(blk, size, align, blocks)
    BY RecycleIs
  <2>2. PICK user : user = Placed(blk, align)
    OBVIOUS
  <2>. QED BY <1>1, <2>1, <2>2, GivenOut
<1>3. freeList \in [Lists -> {0} \cup DOMAIN blocks] /\ parked \in [Lists -> Seq(DOMAIN blocks)]
  BY DEF IInv, TypeOK
<1>. DEFINE s == parked[c]
            t == Tail(s)
<1>4. /\ s \in Seq(DOMAIN blocks) /\ s # <<>> /\ s[1] = blk /\ Once(s)
      /\ \A i \in 1 .. Len(s) : /\ s[i] \in DOMAIN blocks /\ blocks[s[i]] = c
                                /\ mem[s[i]].lo = Link(s, i + 1)
  BY <1>1, ListFacts, ListStart
<1>. HIDE DEF s
<1>5. /\ t \in Seq(DOMAIN blocks) /\ Len(t) = Len(s) - 1 /\ Len(s) \in Nat \ {0}
      /\ \A i \in 1 .. Len(s) - 1 : t[i] = s[i + 1]
  BY <1>4, Removed
<1>. HIDE DEF t
<1>6. \A i \in 1 .. Len(t) : /\ i + 1 \in 1 .. Len(s) /\ t[i] = s[i + 1] /\ t[i] # blk
                             /\ Link(s, i + 2) = Link(t, i + 1)
  <2>. SUFFICES ASSUME NEW i \in 1 .. Len(t)
                PROVE  /\ i + 1 \in 1 .. Len(s) /\ t[i] = s[i + 1] /\ t[i] # blk
                       /\ Link(s, i + 2) = Link(t, i + 1)
    OBVIOUS
  <2>1. i + 1 \in 1 .. Len(s) /\ 1 \in 1 .. Len(s) /\ t[i] = s[i + 1]
    BY <1>5
  <2>2. t[i] # blk
    BY <1>4, <2>1 DEF Once
  <2>3. Link(s, i + 2) = Link(t, i + 1)
    <3>1. i + 2 > Len(s) <=> i + 1 > Len(t)
      BY <1>5
    <3>2. i + 1 <= Len(t) => t[i + 1] = s[i + 2]
      BY <1>5
    <3>. QED BY <1>5, <3>1, <3>2 DEF Link
  <2>. QED BY <2>1, <2>2, <2>3
<1>7. /\ parked'[c] = t /\ freeList'[c] = Link(t, 1)
      /\ \A d \in Lists : d # c => parked'[d] = parked[d] /\ freeList'[d] = freeList[d]
  BY <1>1, <1>3 DEF s, t
<1>8. Link(t, 1) \in {0} \cup DOMAIN blocks
  BY <1>5 DEF Link
<1>9. freeList' \in [Lists -> {0} \cup DOMAIN blocks]
  BY <1>1, <1>3, <1>8 DEF s, t
<1>10. parked' \in [Lists -> Seq(DOMAIN blocks)]
  BY <1>1, <1>3, <1>5 DEF s, t
<1>11. ASSUME NEW d \in Lists, d # c
       PROVE  /\ Once(parked'[d]) /\ freeList'[d] = Link(parked'[d], 1)
              /\ \A i \in 1 .. Len(parked'[d]) :
                   /\ blocks'[parked'[d][i]] = d /\ parked'[d][i] # blk
                   /\ mem'[parked'[d][i]].lo = Link(parked'[d], i + 1)
  <2>1. parked'[d] = parked[d] /\ freeList'[d] = freeList[d]
    BY <1>7, <1>11
  <2>2. Once(parked[d]) /\ freeList[d] = Link(parked[d], 1)
    BY ListFacts
  <2>3. ASSUME NEW i \in 1 .. Len(parked[d])
        PROVE  /\ blocks'[parked[d][i]] = d /\ parked[d][i] # blk
               /\ mem'[parked[d][i]].lo = Link(parked[d], i + 1)
    <3>1. /\ parked[d][i] \in DOMAIN blocks /\ blocks[parked[d][i]] = d
          /\ mem[parked[d][i]].lo = Link(parked[d], i + 1)
      BY ListFacts
    <3>2. parked[d][i] # blk
      BY <1>1, <1>11, <3>1
    <3>. QED BY <1>1, <1>2, <3>1, <3>2
  <2>. QED BY <2>1, <2>2, <2>3
<1>12. Once(t)
  <2>. SUFFICES ASSUME NEW i \in 1 .. Len(t), NEW j \in 1 .. Len(t), t[i] = t[j]
                PROVE  i = j
    BY DEF Once
  <2>1. i + 1 = j + 1
    BY <1>4, <1>6 DEF Once
  <2>. QED BY <2>1
<1>13. \A i \in 1 .. Len(t) : blocks'[t[i]] = c /\ mem'[t[i]].lo = Link(t, i + 1)
  <2>. SUFFICES ASSUME NEW i \in 1 .. Len(t)
                PROVE  blocks'[t[i]] = c /\ mem'[t[i]].lo = Link(t, i + 1)
    OBVIOUS
  <2>1. i + 1 \in 1 .. Len(s) /\ t[i] = s[i + 1] /\ t[i] # blk
    BY <1>6
  <2>2. blocks[t[i]] = c /\ t[i] \in DOMAIN blocks /\ mem[t[i]].lo = Link(s, (i + 1) + 1)
    BY <1>4, <2>1
  <2>3. (i + 1) + 1 = i + 2
    OBVIOUS
  <2>. QED BY <1>1, <1>2, <1>6, <2>1, <2>2, <2>3
<1>14. FreeListsWhole'
  BY <1>7, <1>11, <1>13 DEF FreeListsWhole
<1>15. ASSUME NEW b PROVE Listed(parked', b) <=> Listed(parked, b) /\ b # blk
  <2>1. (\E i \in 1 .. Len(t) : t[i] = b) <=> (\E i \in 1 .. Len(s) : s[i] = b) /\ b # blk
    <3>1. ASSUME NEW i \in 1 .. Len(t), t[i] = b
          PROVE  (\E j \in 1 .. Len(s) : s[j] = b) /\ b # blk
      BY <1>6, <3>1
    <3>2. ASSUME NEW i \in 1 .. Len(s), s[i] = b, b # blk
          PROVE  \E j \in 1 .. Len(t) : t[j] = b
      <4>1. i # 1
        BY <1>4, <3>2
      <4>2. i - 1 \in 1 .. Len(t) /\ t[i - 1] = s[i]
        BY <1>5, <4>1
      <4>. QED BY <3>2, <4>2
    <3>. QED BY <3>1, <3>2
  <2>2. ASSUME NEW d \in Lists, d # c
        PROVE  (\E i \in 1 .. Len(parked'[d]) : parked'[d][i] = b)
                 <=> (\E i \in 1 .. Len(parked[d]) : parked[d][i] = b) /\ b # blk
    <3>1. parked'[d] = parked[d] /\ \A i \in 1 .. Len(parked[d]) : parked[d][i] # blk
      BY <1>7, <1>11, <2>2
    <3>. QED BY <3>1
  <2>. QED BY <1>1, <1>7, <2>1, <2>2 DEF Listed, s
<1>. QED BY <1>7, <1>9, <1>10, <1>11, <1>12, <1>14, <1>15

\* The pointers after rt_alloc: the old ones and the new.
LEMMA OwnersAfter ==
  ASSUME IInv, NEW size \in Sizes, NEW align \in Aligns, NEW blk \in Nat, NEW cut,
         NEW c, c = ClassFor(size, align), CanGiveOut(blk, c, cut),
         GiveOut(blk, size, align, cut)
  PROVE  /\ \A p \in DOMAIN live' :
              /\ p # 0
              /\ \/ p - mem'[p - 1].hi = blk
                 \/ p \in DOMAIN live /\ p - mem'[p - 1].hi = Blk(p)
         /\ \A b : b = blk \/ (\E p \in DOMAIN live : Blk(p) = b)
                     => \E p \in DOMAIN live' : p - mem'[p - 1].hi = b
<1>1. PICK user : user = Placed(blk, align)
  OBVIOUS
<1>2. /\ user # 0 /\ DOMAIN live' = DOMAIN live \cup {user}
  BY <1>1, GivenOut
<1>3. /\ user - mem'[user - 1].hi = blk
      /\ \A q \in DOMAIN live : q - mem'[q - 1].hi = Blk(q)
  BY <1>1, HeaderWritten
<1>4. \A p \in DOMAIN live : p # 0
  BY DEF IInv, OwnedInv
<1>. QED BY <1>2, <1>3, <1>4

LEMMA RegionTyped ==
  ASSUME IInv, NEW size \in Sizes, NEW align \in Aligns, NEW blk \in Nat, NEW cut,
         NEW c, c = ClassFor(size, align), CanGiveOut(blk, c, cut),
         GiveOut(blk, size, align, cut)
  PROVE  /\ mem' \in [Addresses -> Unit]
         /\ DOMAIN live' \subseteq Addresses
         /\ live' \in [DOMAIN live' -> [size : Sizes, align : Aligns]]
<1>1. PICK user : user = Placed(blk, align)
  OBVIOUS
<1>2. /\ user \in Addresses /\ mem' \in [Addresses -> Unit]
  BY <1>1, GivenOut
<1>3. live' = [p \in DOMAIN live \cup {user} |->
                 IF p = user THEN [size |-> size, align |-> align] ELSE live[p]]
  BY <1>1 DEF GiveOut
<1>4. DOMAIN live \subseteq Addresses /\ live \in [DOMAIN live -> [size : Sizes, align : Aligns]]
  BY DEF IInv, TypeOK
<1>. QED BY <1>2, <1>3, <1>4

LEMMA RecycleKeeps ==
  ASSUME IInv, NEW size \in Sizes, NEW align \in Aligns, Recycle(size, align)
  PROVE  IInv'
<1>1. PICK c, blk : c = ClassFor(size, align) /\ blk = freeList[c]
  OBVIOUS
<1>2. /\ c \in Classes /\ blk \in Nat /\ blk \in DOMAIN blocks /\ blocks[blk] = c
      /\ Listed(parked, blk) /\ CanGiveOut(blk, c, blocks) /\ GiveOut(blk, size, align, blocks)
      /\ blocks' = blocks /\ brk' = brk /\ have' = have /\ Start' = Start
  BY <1>1, RecycleIs
<1>3. /\ freeList' \in [Lists -> {0} \cup DOMAIN blocks]
      /\ parked' \in [Lists -> Seq(DOMAIN blocks)]
      /\ FreeListsWhole'
      /\ \A d \in Lists : Once(parked'[d])
      /\ \A b : Listed(parked', b) <=> Listed(parked, b) /\ b # blk
  BY <1>1, RecycleLists
<1>4. Cardinality(DOMAIN live) < MaxLive
  BY DEF Recycle
<1>5. /\ peak' \in [Classes -> 0 .. MaxLive]
      /\ \A d \in Classes : d # c => peak'[d] = peak[d]
      /\ peak'[c] = IF Cardinality(OfClass(c, LiveBlocks)) + 1 > peak[c]
                    THEN Cardinality(OfClass(c, LiveBlocks)) + 1 ELSE peak[c]
  BY <1>1, <1>2, <1>4, PeakNoted
<1>6. TypeOK'
  <2>1. /\ mem' \in [Addresses -> Unit] /\ DOMAIN live' \subseteq Addresses
        /\ live' \in [DOMAIN live' -> [size : Sizes, align : Aligns]]
    BY <1>1, <1>2, RegionTyped
  <2>. QED BY <1>2, <1>3, <1>5, <2>1 DEF TypeOK, Unit, IInv
<1>7. BlocksInv'
  BY <1>2 DEF IInv, BlocksInv, Past, Within
<1>8. HeadersKept'
  <2>1. PICK user : user = Placed(blk, align)
    OBVIOUS
  <2>. QED BY <1>1, <1>2, <2>1, HeaderWritten
<1>9. OwnedInv'
  <2>1. /\ \A p \in DOMAIN live' :
              /\ p # 0
              /\ \/ p - mem'[p - 1].hi = blk
                 \/ p \in DOMAIN live /\ p - mem'[p - 1].hi = Blk(p)
        /\ \A b : b = blk \/ (\E p \in DOMAIN live : Blk(p) = b)
                     => \E p \in DOMAIN live' : p - mem'[p - 1].hi = b
    <3>1. /\ blk \in Nat /\ c = ClassFor(size, align)
          /\ CanGiveOut(blk, c, blocks) /\ GiveOut(blk, size, align, blocks)
      BY <1>1, <1>2
    <3>. QED BY <3>1, OwnersAfter
  <2>2. /\ \A p \in DOMAIN live : ~Listed(parked, Blk(p))
        /\ \A b \in DOMAIN blocks : Listed(parked, b) \/ \E p \in DOMAIN live : Blk(p) = b
    BY DEF IInv, OwnedInv
  <2>3. \A p \in DOMAIN live' : p # 0 /\ ~Listed(parked', p - mem'[p - 1].hi)
    BY <1>3, <2>1, <2>2
  <2>4. \A b \in DOMAIN blocks :
          Listed(parked', b) \/ \E p \in DOMAIN live' : p - mem'[p - 1].hi = b
    BY <1>3, <2>1, <2>2
  <2>. QED BY <1>2, <1>3, <2>3, <2>4 DEF OwnedInv, Blk
<1>10. FootprintIsPeak'
  <2>1. \A d \in Classes : Cardinality(OfClass(d, DOMAIN blocks)) = peak[d]
    BY DEF IInv, FootprintIsPeak
  <2>2. blk \in OfClass(c, DOMAIN blocks) /\ blk \notin OfClass(c, LiveBlocks)
    <3>1. \A q \in DOMAIN live : BlockOf(q) # blk
      BY <1>2, SameBlock DEF CanGiveOut
    <3>. QED BY <1>2, <3>1 DEF OfClass, LiveBlocks
  <2>3. Cardinality(OfClass(c, LiveBlocks)) + 1 <= Cardinality(OfClass(c, DOMAIN blocks))
    <3>1. /\ IsFiniteSet(OfClass(c, DOMAIN blocks)) /\ IsFiniteSet(OfClass(c, LiveBlocks))
          /\ OfClass(c, LiveBlocks) \cup {blk} \subseteq OfClass(c, DOMAIN blocks)
      BY <1>2, <2>2, Counts
    <3>2. Cardinality(OfClass(c, LiveBlocks) \cup {blk})
            = Cardinality(OfClass(c, LiveBlocks)) + 1
      BY <2>2, <3>1, FS_AddElement
    <3>. QED BY <3>1, <3>2, FS_Subset
  <2>4. peak'[c] = peak[c]
    BY <1>2, <1>5, <2>1, <2>3, Counts
  <2>5. \A d \in Classes : peak'[d] = peak[d]
    BY <1>5, <2>4
  <2>. QED BY <1>2, <2>1, <2>5 DEF FootprintIsPeak, OfClass
<1>. QED BY <1>3, <1>6, <1>7, <1>8, <1>9, <1>10 DEF IInv

-----------------------------------------------------------------------------
(* A block is cut *)

LEMMA CarveIs ==
  ASSUME IInv, NEW size \in Sizes, NEW align \in Aligns, Carve(size, align),
         NEW c, c = ClassFor(size, align), NEW blk, blk = Start
  PROVE  /\ c \in Classes /\ c \in Lists /\ blk \in Nat /\ blk \notin DOMAIN blocks
         /\ CanGiveOut(blk, c, blocks') /\ GiveOut(blk, size, align, blocks')
         /\ DOMAIN blocks' = DOMAIN blocks \cup {blk}
         /\ brk' = blk + Units[c] /\ Start' = blk + Units[c]
         /\ have' \in Nat /\ have <= have' /\ brk' <= have' /\ have' <= MaxMemory
         /\ UNCHANGED <<freeList, parked>> /\ parked[c] = <<>>
<1>. DEFINE end == EndFor(size, align)
            cut == [b \in DOMAIN blocks \cup {Start} |-> IF b = Start THEN c ELSE blocks[b]]
<1>1. c \in Classes /\ c \in Lists /\ Units[c] \in Nat /\ Units[c] >= 2
  BY ClassHolds, Assumed DEF Lists
<1>2. /\ blk \in Nat /\ HeapBase <= blk /\ have \in Nat
      /\ \A b \in DOMAIN blocks : /\ b \in Nat /\ Past(b) \in Nat
                                  /\ b + 2 <= Past(b) /\ Past(b) <= blk
  BY BlockFacts
<1>3. end = blk + Units[c] /\ end \in Nat
  BY <1>1, <1>2 DEF EndFor
<1>4. have' = HaveFor(end) /\ HaveFor(end) <= MaxMemory /\ brk' = end
  BY DEF Carve
<1>5. have' \in Nat /\ have <= have' /\ end <= have' /\ have' <= MaxMemory
  BY <1>2, <1>3, <1>4, Growth
<1>6. Start' = blk + Units[c]
  BY <1>1, <1>2, <1>3, <1>4, Assumed DEF Start
<1>7. blk \notin DOMAIN blocks
  BY <1>2
<1>8. blocks' = cut /\ GiveOut(blk, size, align, blocks')
  BY DEF Carve, GiveOut
<1>9. /\ cut \in [DOMAIN blocks \cup {blk} -> Classes] /\ cut[blk] = c
      /\ \A d \in DOMAIN blocks : cut[d] = blocks[d]
  BY <1>1, <1>7, BlockFacts
<1>10. CanGiveOut(blk, c, blocks')
  <2>1. blk + Units[c] <= MaxMemory
    BY <1>1, <1>2, <1>3, <1>5, Assumed
  <2>2. \A q \in DOMAIN live : Blk(q) # blk
    BY <1>7, PointerFacts
  <2>3. \A d \in DOMAIN blocks : Past(d) <= blk
    BY <1>2
  <2>. QED BY <1>2, <1>8, <1>9, <2>1, <2>2, <2>3 DEF CanGiveOut
<1>11. UNCHANGED <<freeList, parked>> /\ freeList[c] = 0
  BY DEF Carve
<1>12. parked[c] = <<>>
  BY <1>1, <1>11, ListStart
<1>. QED BY <1>1, <1>2, <1>3, <1>4, <1>5, <1>6, <1>7, <1>8, <1>9, <1>10, <1>11, <1>12

LEMMA CarveKeeps ==
  ASSUME IInv, NEW size \in Sizes, NEW align \in Aligns, Carve(size, align)
  PROVE  IInv'
<1>1. PICK c, blk : c = ClassFor(size, align) /\ blk = Start
  OBVIOUS
<1>2. /\ c \in Classes /\ c \in Lists /\ blk \in Nat /\ blk \notin DOMAIN blocks
      /\ CanGiveOut(blk, c, blocks') /\ GiveOut(blk, size, align, blocks')
      /\ DOMAIN blocks' = DOMAIN blocks \cup {blk}
      /\ brk' = blk + Units[c] /\ Start' = blk + Units[c]
      /\ have' \in Nat /\ have <= have' /\ brk' <= have' /\ have' <= MaxMemory
      /\ freeList' = freeList /\ parked' = parked /\ parked[c] = <<>>
  BY <1>1, CarveIs
<1>3. /\ blocks' \in [DOMAIN blocks \cup {blk} -> Classes] /\ blocks'[blk] = c
      /\ \A d \in DOMAIN blocks : blocks'[d] = blocks[d]
      /\ \A q \in DOMAIN live : Blk(q) # blk
      /\ HeapBase <= blk
  BY <1>2 DEF CanGiveOut
<1>4. \A d \in DOMAIN blocks : mem'[d] = mem[d]
  <2>1. PICK user : user = Placed(blk, align)
    OBVIOUS
  <2>. QED BY <1>1, <1>2, <2>1, GivenOut
<1>5. Units[c] \in Nat /\ Units[c] >= 2
  BY <1>2, Assumed
<1>6. /\ blk = Start /\ Start <= have /\ have \in Nat
      /\ \A b \in DOMAIN blocks : /\ b \in Nat /\ Past(b) \in Nat /\ b \in Addresses
                                  /\ b + 2 <= Past(b) /\ Past(b) <= blk
  BY <1>1, BlockFacts
<1>7. /\ peak' \in [Classes -> 0 .. MaxLive]
      /\ \A d \in Classes : d # c => peak'[d] = peak[d]
      /\ peak'[c] = IF Cardinality(OfClass(c, LiveBlocks)) + 1 > peak[c]
                    THEN Cardinality(OfClass(c, LiveBlocks)) + 1 ELSE peak[c]
  <2>1. Cardinality(DOMAIN live) < MaxLive
    BY DEF Carve
  <2>. QED BY <1>1, <1>2, <2>1, PeakNoted
<1>8. TypeOK'
  <2>1. /\ mem' \in [Addresses -> Unit] /\ DOMAIN live' \subseteq Addresses
        /\ live' \in [DOMAIN live' -> [size : Sizes, align : Aligns]]
    BY <1>1, <1>2, RegionTyped
  <2>2. DOMAIN blocks' \subseteq Addresses /\ blocks' \in [DOMAIN blocks' -> Classes]
    <3>1. blk \in Addresses
      BY <1>2, <1>5, Assumed DEF Addresses
    <3>. QED BY <1>2, <1>3, <1>6, <3>1
  <2>3. /\ freeList' \in [Lists -> {0} \cup DOMAIN blocks']
        /\ parked' \in [Lists -> Seq(DOMAIN blocks')]
    <3>1. freeList \in [Lists -> {0} \cup DOMAIN blocks] /\ parked \in [Lists -> Seq(DOMAIN blocks)]
      BY DEF IInv, TypeOK
    <3>2. \A s \in Seq(DOMAIN blocks) : s \in Seq(DOMAIN blocks')
      BY <1>2
    <3>. QED BY <1>2, <3>1, <3>2
  <2>4. brk' \in {0} \cup HeapBase .. have' /\ have' \in FirstMemory .. MaxMemory
    <3>1. have \in FirstMemory .. MaxMemory
      BY DEF IInv, TypeOK
    <3>. QED BY <1>2, <1>3, <1>5, <3>1, Assumed
  <2>. QED BY <1>7, <2>1, <2>2, <2>3, <2>4 DEF TypeOK, Unit
<1>9. BlocksInv'
  <2>1. \A b \in DOMAIN blocks : Past(b)' = Past(b)
    BY <1>3 DEF Past
  <2>2. Past(blk)' = blk + Units[c]
    BY <1>3 DEF Past
  <2>3. /\ \A b \in DOMAIN blocks : HeapBase <= b
        /\ \A b, d \in DOMAIN blocks : b < d => Past(b) <= d
        /\ \A u \in HeapBase .. blk - 1 : \E b \in DOMAIN blocks : Within(u, b)
    BY <1>6 DEF IInv, BlocksInv
  <2>4. ASSUME NEW b \in DOMAIN blocks' PROVE HeapBase <= b /\ Past(b)' <= Start'
    <3>1. CASE b = blk
      BY <1>2, <1>3, <1>5, <2>2, <3>1
    <3>2. CASE b \in DOMAIN blocks
      BY <1>2, <1>5, <1>6, <2>1, <2>3, <3>2
    <3>. QED BY <1>2, <3>1, <3>2
  <2>5. ASSUME NEW b \in DOMAIN blocks', NEW d \in DOMAIN blocks', b < d PROVE Past(b)' <= d
    <3>1. CASE b \in DOMAIN blocks /\ d \in DOMAIN blocks
      BY <2>1, <2>3, <2>5, <3>1
    <3>2. CASE b \in DOMAIN blocks /\ d = blk
      BY <1>6, <2>1, <3>2
    <3>3. CASE b = blk
      BY <1>2, <1>6, <2>5, <3>3
    <3>. QED BY <1>2, <3>1, <3>2, <3>3
  <2>6. ASSUME NEW u \in HeapBase .. Start' - 1
        PROVE  \E b \in DOMAIN blocks' : Within(u, b)'
    <3>1. CASE u < blk
      <4>1. PICK b \in DOMAIN blocks : b <= u /\ u < Past(b)
        BY <1>2, <2>3, <3>1, Assumed DEF Within
      <4>. QED BY <1>2, <2>1, <4>1 DEF Within
    <3>2. CASE blk <= u
      <4>1. u < blk + Units[c]
        BY <1>2, <1>5, Assumed
      <4>. QED BY <1>2, <2>2, <3>2, <4>1 DEF Within
    <3>. QED BY <1>2, <3>1, <3>2, Assumed
  <2>. QED BY <2>4, <2>5, <2>6 DEF BlocksInv
<1>10. HeadersKept'
  <2>1. PICK user : user = Placed(blk, align)
    OBVIOUS
  <2>. QED BY <1>1, <1>2, <2>1, HeaderWritten
<1>11. FreeListsWhole'
  <2>1. ASSUME NEW d \in Lists
        PROVE  /\ freeList'[d] = Link(parked'[d], 1)
               /\ \A i \in 1 .. Len(parked'[d]) :
                    /\ blocks'[parked'[d][i]] = d
                    /\ mem'[parked'[d][i]].lo = Link(parked'[d], i + 1)
    BY <1>2, <1>3, <1>4, ListFacts
  <2>. QED BY <2>1 DEF FreeListsWhole
<1>12. OwnedInv'
  <2>1. /\ \A p \in DOMAIN live' :
              /\ p # 0
              /\ \/ p - mem'[p - 1].hi = blk
                 \/ p \in DOMAIN live /\ p - mem'[p - 1].hi = Blk(p)
        /\ \A b : b = blk \/ (\E p \in DOMAIN live : Blk(p) = b)
                     => \E p \in DOMAIN live' : p - mem'[p - 1].hi = b
    <3>1. PICK cut : cut = blocks'
      OBVIOUS
    <3>2. CanGiveOut(blk, c, cut) /\ GiveOut(blk, size, align, cut)
      BY <1>2, <3>1
    <3>3. blk \in Nat /\ c = ClassFor(size, align)
      BY <1>1, <1>2
    <3>. QED BY <3>2, <3>3, OwnersAfter
  <2>2. /\ \A p \in DOMAIN live : ~Listed(parked, Blk(p))
        /\ \A b \in DOMAIN blocks : Listed(parked, b) \/ \E p \in DOMAIN live : Blk(p) = b
        /\ \A d \in Lists : Once(parked[d])
    BY DEF IInv, OwnedInv
  <2>3. ~Listed(parked, blk)
    BY <1>2, ListFacts DEF Listed
  <2>4. \A p \in DOMAIN live' : p # 0 /\ ~Listed(parked, p - mem'[p - 1].hi)
    BY <2>1, <2>2, <2>3
  <2>5. \A b \in DOMAIN blocks' :
          Listed(parked, b) \/ \E p \in DOMAIN live' : p - mem'[p - 1].hi = b
    BY <1>2, <2>1, <2>2
  <2>. QED BY <1>2, <2>2, <2>4, <2>5 DEF OwnedInv, Blk
<1>13. FootprintIsPeak'
  <2>1. \A d \in Classes : Cardinality(OfClass(d, DOMAIN blocks)) = peak[d]
    BY DEF IInv, FootprintIsPeak
  <2>2. OfClass(c, DOMAIN blocks) = OfClass(c, LiveBlocks)
    <3>1. ASSUME NEW b \in DOMAIN blocks, blocks[b] = c PROVE b \in LiveBlocks
      <4>1. ~Listed(parked, b)
        BY <1>2, <3>1, ListFacts DEF Listed
      <4>2. PICK p \in DOMAIN live : Blk(p) = b
        BY <4>1 DEF IInv, OwnedInv
      <4>. QED BY <4>2, SameBlock DEF LiveBlocks
    <3>. QED BY <1>2, <3>1, Counts DEF OfClass
  <2>3. peak'[c] = peak[c] + 1
    BY <1>2, <1>7, <2>1, <2>2, Counts
  <2>4. ASSUME NEW d \in Classes
        PROVE  Cardinality({b \in DOMAIN blocks' : blocks'[b] = d}) = peak'[d]
    <3>1. CASE d = c
      <4>1. {b \in DOMAIN blocks' : blocks'[b] = d} = OfClass(c, DOMAIN blocks) \cup {blk}
        BY <1>2, <1>3, <3>1 DEF OfClass
      <4>2. /\ IsFiniteSet(OfClass(c, DOMAIN blocks)) /\ blk \notin OfClass(c, DOMAIN blocks)
        BY <1>2, Counts DEF OfClass
      <4>3. Cardinality(OfClass(c, DOMAIN blocks) \cup {blk})
              = Cardinality(OfClass(c, DOMAIN blocks)) + 1
        BY <4>2, FS_AddElement
      <4>. QED BY <1>2, <2>1, <2>3, <3>1, <4>1, <4>3
    <3>2. CASE d # c
      <4>1. {b \in DOMAIN blocks' : blocks'[b] = d} = OfClass(d, DOMAIN blocks)
        BY <1>2, <1>3, <3>2 DEF OfClass
      <4>. QED BY <1>7, <2>1, <3>2, <4>1
    <3>. QED BY <3>1, <3>2
  <2>. QED BY <2>4 DEF FootprintIsPeak, OfClass
<1>. QED BY <1>8, <1>9, <1>10, <1>11, <1>12, <1>13 DEF IInv

-----------------------------------------------------------------------------
(* rt_free *)

\* The block of p goes back to the list of its class.
Returned(p, blk, c) ==
  /\ blk = Blk(p) /\ c = blocks[blk]
  /\ blk \in DOMAIN blocks /\ blk \in Nat /\ blk \in Addresses /\ c \in Classes
  /\ c \in Lists
  /\ mem' = [mem EXCEPT ![blk].lo = freeList[c]]
  /\ freeList' = [freeList EXCEPT ![c] = blk]
  /\ parked' = [parked EXCEPT ![c] = <<blk>> \o parked[c]]
  /\ live' = [q \in DOMAIN live \ {p} |-> live[q]]
  /\ UNCHANGED <<brk, have, blocks, peak>>
  /\ ~Listed(parked, blk)
  /\ \A q \in DOMAIN live \ {p} : Blk(q) # blk

LEMMA FreeIs ==
  ASSUME IInv, NEW p \in DOMAIN live, Free(p)
  PROVE  \E blk, c : Returned(p, blk, c)
<1>0. PICK blk, c : blk = Blk(p) /\ c = blocks[blk]
  OBVIOUS
<1>1. /\ blk \in DOMAIN blocks /\ blk \in Nat /\ blk \in Addresses /\ c \in Classes
      /\ c \in Lists
  BY <1>0, PointerFacts, BlockFacts DEF Lists
<1>2. FreedBlock(p) = blk /\ FreedClass(p) = c /\ mem[p - 1].lo = c
  BY <1>0, PointerFacts DEF FreedBlock, FreedClass, Blk
<1>3. ~Listed(parked, blk)
  BY <1>0 DEF IInv, OwnedInv
<1>4. \A q \in DOMAIN live \ {p} : Blk(q) # blk
  BY <1>0, OnePointer
<1>5. parked \in [Lists -> Seq(DOMAIN blocks)]
  BY DEF IInv, TypeOK
<1>6. /\ mem' = [mem EXCEPT ![blk].lo = freeList[c]]
      /\ freeList' = [freeList EXCEPT ![c] = blk]
      /\ parked' = [parked EXCEPT ![c] = <<blk>> \o parked[c]]
  BY <1>1, <1>2, <1>5 DEF Free, LinkTo
<1>7. /\ live' = [q \in DOMAIN live \ {p} |-> live[q]]
      /\ UNCHANGED <<brk, have, blocks, peak>>
  BY DEF Free
<1>. QED BY <1>0, <1>1, <1>3, <1>4, <1>6, <1>7 DEF Returned

\* Only the first unit of the freed block changes.
LEMMA FreeWrites ==
  ASSUME IInv, NEW p \in DOMAIN live, NEW blk, NEW c, Returned(p, blk, c)
  PROVE  /\ mem' \in [Addresses -> Unit] /\ mem'[blk].lo = freeList[c]
         /\ \A u \in Addresses : u # blk => mem'[u] = mem[u]
         /\ \A d \in DOMAIN blocks : d # blk => mem'[d] = mem[d]
         /\ \A q \in DOMAIN live \ {p} :
              mem'[q - 1] = mem[q - 1] /\ \A u \in Region(q) : mem'[u] = mem[u]
<1>1. /\ blk \in DOMAIN blocks /\ blk \in Nat /\ blk \in Addresses /\ c \in Classes
      /\ c \in Lists /\ c = blocks[blk] /\ mem' = [mem EXCEPT ![blk].lo = freeList[c]]
      /\ \A q \in DOMAIN live \ {p} : Blk(q) # blk
  BY DEF Returned
<1>2. mem \in [Addresses -> Unit] /\ freeList[c] \in {0} \cup DOMAIN blocks
  BY <1>1 DEF IInv, TypeOK, Unit
<1>3. freeList[c] \in Addresses
  BY <1>2, BlockFacts, Assumed DEF Addresses
<1>4. [mem[blk] EXCEPT !.lo = freeList[c]] \in Unit
  BY <1>1, <1>2, <1>3 DEF Unit
<1>5. mem' = [mem EXCEPT ![blk] = [mem[blk] EXCEPT !.lo = freeList[c]]]
  BY <1>1
<1>6. /\ mem' \in [Addresses -> Unit]
      /\ mem'[blk] = [mem[blk] EXCEPT !.lo = freeList[c]]
      /\ \A u \in Addresses : u # blk => mem'[u] = mem[u]
  BY <1>1, <1>2, <1>4, <1>5
<1>7. mem'[blk].lo = freeList[c]
  BY <1>1, <1>2, <1>6 DEF Unit
<1>8. Units[c] \in Nat /\ Units[c] >= 2
  BY <1>1, Assumed
<1>9. \A u \in Addresses : u < blk \/ blk + Units[c] <= u => mem'[u] = mem[u]
  BY <1>1, <1>6, <1>8 DEF Addresses
<1>10. \A d \in DOMAIN blocks : d # blk => Past(d) <= blk \/ blk + Units[c] <= d
  BY <1>1, Apart DEF Past
<1>11. /\ \A d \in DOMAIN blocks : d # blk => mem'[d] = mem[d]
       /\ \A q \in DOMAIN live : Blk(q) # blk =>
            mem'[q - 1] = mem[q - 1] /\ \A u \in Region(q) : mem'[u] = mem[u]
  BY <1>1, <1>8, <1>9, <1>10, Frame
<1>. QED BY <1>1, <1>6, <1>7, <1>11

\* The freed block is put in front of its list.
LEMMA FreeLists ==
  ASSUME IInv, NEW p \in DOMAIN live, NEW blk, NEW c, Returned(p, blk, c)
  PROVE  /\ freeList' \in [Lists -> {0} \cup DOMAIN blocks]
         /\ parked' \in [Lists -> Seq(DOMAIN blocks)]
         /\ FreeListsWhole'
         /\ \A d \in Lists : Once(parked'[d])
         /\ \A b : Listed(parked', b) <=> Listed(parked, b) \/ b = blk
<1>1. /\ blk \in DOMAIN blocks /\ c \in Lists /\ blocks' = blocks /\ ~Listed(parked, blk)
      /\ c = blocks[blk] /\ freeList' = [freeList EXCEPT ![c] = blk]
      /\ parked' = [parked EXCEPT ![c] = <<blk>> \o parked[c]]
  BY DEF Returned
<1>2. /\ mem'[blk].lo = freeList[c]
      /\ \A d \in DOMAIN blocks : d # blk => mem'[d] = mem[d]
  BY FreeWrites
<1>3. freeList \in [Lists -> {0} \cup DOMAIN blocks] /\ parked \in [Lists -> Seq(DOMAIN blocks)]
  BY DEF IInv, TypeOK
<1>. DEFINE s == parked[c]
            t == <<blk>> \o s
<1>4. /\ s \in Seq(DOMAIN blocks) /\ Once(s) /\ freeList[c] = Link(s, 1)
      /\ \A i \in 1 .. Len(s) : /\ s[i] \in DOMAIN blocks /\ blocks[s[i]] = c
                                /\ mem[s[i]].lo = Link(s, i + 1) /\ s[i] # blk
  BY <1>1, ListFacts DEF Listed
<1>. HIDE DEF s
<1>5. /\ t \in Seq(DOMAIN blocks) /\ Len(t) = Len(s) + 1 /\ Len(s) \in Nat /\ t[1] = blk
      /\ \A i \in 2 .. Len(t) : i - 1 \in 1 .. Len(s) /\ t[i] = s[i - 1]
  BY <1>1, <1>4
<1>. HIDE DEF t
<1>6. /\ parked'[c] = t /\ freeList'[c] = blk
      /\ \A d \in Lists : d # c => parked'[d] = parked[d] /\ freeList'[d] = freeList[d]
  BY <1>1, <1>3 DEF s, t
<1>7. freeList' \in [Lists -> {0} \cup DOMAIN blocks] /\ parked' \in [Lists -> Seq(DOMAIN blocks)]
  BY <1>1, <1>3, <1>5 DEF s, t
<1>8. blk = Link(t, 1)
  BY <1>5 DEF Link
<1>9. \A i \in 1 .. Len(s) + 1 : Link(t, i + 1) = Link(s, i)
  <2>. SUFFICES ASSUME NEW i \in 1 .. Len(s) + 1 PROVE Link(t, i + 1) = Link(s, i)
    OBVIOUS
  <2>1. i + 1 > Len(t) <=> i > Len(s)
    BY <1>5
  <2>2. i <= Len(s) => t[i + 1] = s[i]
    BY <1>5
  <2>. QED BY <1>5, <2>1, <2>2 DEF Link
<1>10. ASSUME NEW i \in 1 .. Len(t)
       PROVE  blocks'[t[i]] = c /\ mem'[t[i]].lo = Link(t, i + 1)
  <2>1. CASE i = 1
    <3>1. mem'[blk].lo = Link(s, 1) /\ Link(t, 1 + 1) = Link(s, 1)
      BY <1>2, <1>4, <1>5, <1>9
    <3>. QED BY <1>1, <1>5, <2>1, <3>1
  <2>2. CASE i # 1
    <3>1. i \in 2 .. Len(t) /\ i - 1 \in 1 .. Len(s) /\ t[i] = s[i - 1]
      BY <1>5, <2>2
    <3>2. blocks[s[i - 1]] = c /\ mem'[s[i - 1]].lo = Link(s, (i - 1) + 1)
      BY <1>2, <1>4, <3>1
    <3>3. (i - 1) + 1 = i /\ i \in 1 .. Len(s) + 1
      BY <1>5, <3>1
    <3>. QED BY <1>1, <1>9, <3>1, <3>2, <3>3
  <2>. QED BY <2>1, <2>2
<1>11. ASSUME NEW d \in Lists, d # c
       PROVE  /\ Once(parked'[d]) /\ freeList'[d] = Link(parked'[d], 1)
              /\ \A i \in 1 .. Len(parked'[d]) :
                   /\ blocks'[parked'[d][i]] = d
                   /\ mem'[parked'[d][i]].lo = Link(parked'[d], i + 1)
  <2>1. parked'[d] = parked[d] /\ freeList'[d] = freeList[d]
    BY <1>6, <1>11
  <2>2. Once(parked[d]) /\ freeList[d] = Link(parked[d], 1)
    BY ListFacts
  <2>3. ASSUME NEW i \in 1 .. Len(parked[d])
        PROVE  /\ blocks'[parked[d][i]] = d
               /\ mem'[parked[d][i]].lo = Link(parked[d], i + 1)
    <3>1. /\ parked[d][i] \in DOMAIN blocks /\ blocks[parked[d][i]] = d
          /\ mem[parked[d][i]].lo = Link(parked[d], i + 1)
      BY ListFacts
    <3>2. parked[d][i] # blk
      BY <1>1 DEF Listed
    <3>. QED BY <1>1, <1>2, <3>1, <3>2
  <2>. QED BY <2>1, <2>2, <2>3
<1>12. Once(t)
  <2>. SUFFICES ASSUME NEW i \in 1 .. Len(t), NEW j \in 1 .. Len(t), t[i] = t[j]
                PROVE  i = j
    BY DEF Once
  <2>0. \A k \in 1 .. Len(t) : k # 1 => t[k] # blk
    <3>. SUFFICES ASSUME NEW k \in 1 .. Len(t), k # 1 PROVE t[k] # blk
      OBVIOUS
    <3>1. k \in 2 .. Len(t)
      BY <1>5
    <3>2. k - 1 \in 1 .. Len(s) /\ t[k] = s[k - 1]
      BY <1>5, <3>1
    <3>. QED BY <1>4, <3>2
  <2>1. CASE i = 1 \/ j = 1
    BY <1>5, <2>0, <2>1
  <2>2. CASE i # 1 /\ j # 1
    <3>1. /\ i - 1 \in 1 .. Len(s) /\ j - 1 \in 1 .. Len(s) /\ s[i - 1] = s[j - 1]
      BY <1>5, <2>2
    <3>2. i - 1 = j - 1
      BY <1>4, <3>1 DEF Once
    <3>. QED BY <3>2
  <2>. QED BY <2>1, <2>2
<1>13. FreeListsWhole'
  BY <1>6, <1>8, <1>10, <1>11 DEF FreeListsWhole
<1>14. ASSUME NEW b PROVE Listed(parked', b) <=> Listed(parked, b) \/ b = blk
  <2>1. (\E i \in 1 .. Len(t) : t[i] = b) <=> (\E i \in 1 .. Len(s) : s[i] = b) \/ b = blk
    <3>1. ASSUME NEW i \in 1 .. Len(t), t[i] = b, b # blk
          PROVE  \E j \in 1 .. Len(s) : s[j] = b
      <4>1. i \in 2 .. Len(t)
        BY <1>5, <3>1
      <4>. QED BY <1>5, <3>1, <4>1
    <3>2. ASSUME NEW i \in 1 .. Len(s), s[i] = b
          PROVE  \E j \in 1 .. Len(t) : t[j] = b
      <4>1. i + 1 \in 2 .. Len(t) /\ (i + 1) - 1 = i
        BY <1>5
      <4>2. t[i + 1] = s[i]
        BY <1>5, <4>1
      <4>. QED BY <3>2, <4>1, <4>2
    <3>3. 1 \in 1 .. Len(t) /\ t[1] = blk
      BY <1>5
    <3>. QED BY <3>1, <3>2, <3>3
  <2>2. ASSUME NEW d \in Lists, \E i \in 1 .. Len(parked'[d]) : parked'[d][i] = b
        PROVE  Listed(parked, b) \/ b = blk
    BY <1>6, <2>1, <2>2 DEF Listed, s
  <2>3. ASSUME NEW d \in Lists, \E i \in 1 .. Len(parked[d]) : parked[d][i] = b
        PROVE  Listed(parked', b)
    <3>1. CASE d = c
      BY <1>1, <1>6, <2>1, <2>3, <3>1 DEF Listed, s
    <3>2. CASE d # c
      BY <1>6, <2>3, <3>2 DEF Listed
    <3>. QED BY <3>1, <3>2
  <2>4. b = blk => Listed(parked', b)
    BY <1>1, <1>6, <2>1 DEF Listed
  <2>5. Listed(parked', b) => Listed(parked, b) \/ b = blk
    BY <2>2 DEF Listed
  <2>6. Listed(parked, b) => Listed(parked', b)
    BY <2>3 DEF Listed
  <2>. QED BY <2>4, <2>5, <2>6
<1>. QED BY <1>6, <1>7, <1>11, <1>12, <1>13, <1>14

LEMMA FreeKeeps ==
  ASSUME IInv, NEW p \in DOMAIN live, Free(p)
  PROVE  IInv'
<1>1. PICK blk, c : Returned(p, blk, c)
  BY FreeIs
<1>2. /\ blk = Blk(p) /\ live' = [q \in DOMAIN live \ {p} |-> live[q]]
      /\ brk' = brk /\ have' = have /\ blocks' = blocks /\ peak' = peak
      /\ \A q \in DOMAIN live \ {p} : Blk(q) # blk
  BY <1>1 DEF Returned
<1>3. /\ mem' \in [Addresses -> Unit]
      /\ \A q \in DOMAIN live \ {p} : mem'[q - 1] = mem[q - 1]
  BY <1>1, FreeWrites
<1>4. /\ freeList' \in [Lists -> {0} \cup DOMAIN blocks]
      /\ parked' \in [Lists -> Seq(DOMAIN blocks)]
      /\ FreeListsWhole'
      /\ \A d \in Lists : Once(parked'[d])
      /\ \A b : Listed(parked', b) <=> Listed(parked, b) \/ b = blk
  BY <1>1, FreeLists
<1>5. TypeOK'
  <2>1. DOMAIN live \subseteq Addresses /\ live \in [DOMAIN live -> [size : Sizes, align : Aligns]]
    BY DEF IInv, TypeOK
  <2>2. /\ DOMAIN live' \subseteq Addresses
        /\ live' \in [DOMAIN live' -> [size : Sizes, align : Aligns]]
    BY <1>2, <2>1
  <2>. QED BY <1>2, <1>3, <1>4, <2>2 DEF IInv, TypeOK, Unit
<1>6. BlocksInv'
  BY <1>2 DEF IInv, BlocksInv, Past, Within, Start
<1>7. HeadersKept'
  <2>1. DOMAIN live' = DOMAIN live \ {p} /\ \A q \in DOMAIN live' : live'[q] = live[q]
    BY <1>2
  <2>. QED BY <1>2, <1>3, <2>1 DEF IInv, HeadersKept
<1>8. OwnedInv'
  <2>1. /\ \A q \in DOMAIN live : q # 0 /\ ~Listed(parked, Blk(q))
        /\ \A b \in DOMAIN blocks : Listed(parked, b) \/ \E q \in DOMAIN live : Blk(q) = b
    BY DEF IInv, OwnedInv
  <2>2. DOMAIN live' = DOMAIN live \ {p} /\ \A q \in DOMAIN live' : q - mem'[q - 1].hi = Blk(q)
    BY <1>2, <1>3 DEF Blk
  <2>3. \A q \in DOMAIN live' : q # 0 /\ ~Listed(parked', q - mem'[q - 1].hi)
    BY <1>2, <1>4, <2>1, <2>2
  <2>4. \A b \in DOMAIN blocks :
          Listed(parked', b) \/ \E q \in DOMAIN live' : q - mem'[q - 1].hi = b
    BY <1>2, <1>4, <2>1, <2>2
  <2>. QED BY <1>2, <1>4, <2>3, <2>4 DEF OwnedInv, Blk
<1>9. FootprintIsPeak'
  BY <1>2 DEF IInv, FootprintIsPeak, OfClass
<1>. QED BY <1>4, <1>5, <1>6, <1>7, <1>8, <1>9 DEF IInv

-----------------------------------------------------------------------------
(* The program writes, or memory_grow refuses *)

\* A write to a region touches no header and no free block.
LEMMA FillWrites ==
  ASSUME IInv, NEW p \in DOMAIN live, Fill(p)
  PROVE  /\ mem' \in [Addresses -> Unit]
         /\ \A q \in DOMAIN live : mem'[q - 1] = mem[q - 1]
         /\ \A d \in DOMAIN blocks : Listed(parked, d) => mem'[d] = mem[d]
         /\ \A q \in DOMAIN live \ {p} : \A u \in Region(q) : mem'[u] = mem[u]
<1>1. mem' = [u \in Addresses |-> IF u \in Region(p) THEN [lo |-> Junk, hi |-> Junk] ELSE mem[u]]
  BY DEF Fill
<1>2. /\ Blk(p) \in DOMAIN blocks /\ Blk(p) \in Nat /\ p \in Nat /\ p - 1 \in Addresses
      /\ Units[blocks[Blk(p)]] \in Nat
  BY PointerFacts, BlockFacts, Assumed
<1>3. mem' \in [Addresses -> Unit]
  BY <1>1 DEF IInv, TypeOK, Unit
<1>4. \A u \in Addresses : u < Blk(p) \/ Past(Blk(p)) <= u => mem'[u] = mem[u]
  <2>. SUFFICES ASSUME NEW u \in Addresses, u < Blk(p) \/ Past(Blk(p)) <= u
                PROVE  mem'[u] = mem[u]
    OBVIOUS
  <2>1. u \in Int /\ Past(Blk(p)) \in Nat
    BY <1>2, BlockFacts DEF Addresses
  <2>2. u \notin Region(p)
    BY <1>2, <2>1, RegionFacts DEF Within
  <2>. QED BY <1>1, <2>2
<1>5. /\ \A d \in DOMAIN blocks : d # Blk(p) => mem'[d] = mem[d]
      /\ \A q \in DOMAIN live : Blk(q) # Blk(p) =>
           mem'[q - 1] = mem[q - 1] /\ \A u \in Region(q) : mem'[u] = mem[u]
  <2>1. PICK b, n : b = Blk(p) /\ n = Units[blocks[Blk(p)]]
    OBVIOUS
  <2>2. \A d \in DOMAIN blocks : d # b => Past(d) <= b \/ b + n <= d
    BY <1>2, <2>1, Apart DEF Past
  <2>3. \A u \in Addresses : u < b \/ b + n <= u => mem'[u] = mem[u]
    BY <1>4, <2>1 DEF Past
  <2>4. b \in Nat /\ n \in Nat
    BY <1>2, <2>1
  <2>. QED BY <2>1, <2>2, <2>3, <2>4, Frame
<1>6. mem'[p - 1] = mem[p - 1]
  <2>1. p - 1 \notin Region(p)
    BY <1>2, RegionFacts
  <2>. QED BY <1>1, <1>2, <2>1
<1>7. \A q \in DOMAIN live : Blk(q) = Blk(p) => q = p
  BY OnePointer
<1>8. ~Listed(parked, Blk(p))
  BY DEF IInv, OwnedInv
<1>. QED BY <1>3, <1>5, <1>6, <1>7, <1>8

LEMMA FillKeeps ==
  ASSUME IInv, NEW p \in DOMAIN live, Fill(p)
  PROVE  IInv'
<1>1. UNCHANGED <<freeList, brk, have, live, blocks, parked, peak>>
  BY DEF Fill
<1>2. /\ mem' \in [Addresses -> Unit]
      /\ \A q \in DOMAIN live : mem'[q - 1] = mem[q - 1]
      /\ \A d \in DOMAIN blocks : Listed(parked, d) => mem'[d] = mem[d]
  BY FillWrites
<1>3. TypeOK'
  BY <1>1, <1>2 DEF IInv, TypeOK, Unit
<1>4. BlocksInv'
  BY <1>1 DEF IInv, BlocksInv, Past, Within, Start
<1>5. HeadersKept'
  BY <1>1, <1>2 DEF IInv, HeadersKept
<1>6. FreeListsWhole'
  <2>1. ASSUME NEW c \in Lists
        PROVE  /\ freeList[c] = Link(parked[c], 1)
               /\ \A i \in 1 .. Len(parked[c]) :
                    /\ blocks[parked[c][i]] = c /\ mem'[parked[c][i]].lo = Link(parked[c], i + 1)
    BY <1>2, ListFacts
  <2>. QED BY <1>1, <2>1 DEF FreeListsWhole
<1>7. OwnedInv'
  <2>1. \A q \in DOMAIN live : q - mem'[q - 1].hi = q - mem[q - 1].hi
    BY <1>2
  <2>. QED BY <1>1, <2>1 DEF IInv, OwnedInv, Blk
<1>8. FootprintIsPeak'
  BY <1>1 DEF IInv, FootprintIsPeak, OfClass
<1>. QED BY <1>3, <1>4, <1>5, <1>6, <1>7, <1>8 DEF IInv

\* The refused call may have set brk to the heap base; nothing else.
LEMMA RefusalKeeps ==
  ASSUME IInv, NEW size \in Sizes, NEW align \in Aligns, GrowRefused(size, align)
  PROVE  IInv'
<1>1. UNCHANGED <<mem, freeList, have, live, blocks, parked, peak>> /\ brk' \in {brk, Start}
  BY DEF GrowRefused, BrkAfterRefusal
<1>2. Start' = Start
  BY <1>1, Assumed DEF Start
<1>3. TypeOK'
  <2>1. brk' \in {0} \cup HeapBase .. have'
    BY <1>1, BlockFacts, Assumed DEF IInv, TypeOK
  <2>. QED BY <1>1, <2>1 DEF IInv, TypeOK
<1>4. BlocksInv'
  BY <1>1, <1>2 DEF IInv, BlocksInv, Past, Within
<1>5. HeadersKept' /\ FreeListsWhole'
  BY <1>1 DEF IInv, HeadersKept, FreeListsWhole
<1>6. OwnedInv'
  BY <1>1 DEF IInv, OwnedInv, Blk
<1>7. FootprintIsPeak'
  BY <1>1 DEF IInv, FootprintIsPeak, OfClass
<1>. QED BY <1>3, <1>4, <1>5, <1>6, <1>7 DEF IInv

-----------------------------------------------------------------------------
(* Safety *)

LEMMA InitInvariant == Init => IInv
<1>. SUFFICES ASSUME Init PROVE IInv
  OBVIOUS
<1>. USE DEF Init
<1>1. DOMAIN blocks = {} /\ DOMAIN live = {} /\ \A c \in Lists : parked[c] = <<>>
  OBVIOUS
<1>2. 0 \in Addresses /\ Start = HeapBase
  BY Assumed DEF Addresses, Start
<1>3. TypeOK
  <2>1. mem \in [Addresses -> [lo : Addresses \cup Classes \cup {Junk}, hi : Addresses \cup {Junk}]]
    BY <1>2
  <2>2. peak \in [Classes -> 0 .. MaxLive] /\ have \in FirstMemory .. MaxMemory
    BY Assumed
  <2>3. blocks \in [DOMAIN blocks -> Classes] /\ live \in [DOMAIN live -> [size : Sizes, align : Aligns]]
    BY <1>1
  <2>4. parked \in [Lists -> Seq(DOMAIN blocks)] /\ freeList \in [Lists -> {0} \cup DOMAIN blocks]
    OBVIOUS
  <2>. QED BY <1>1, <2>1, <2>2, <2>3, <2>4 DEF TypeOK
<1>4. BlocksInv
  BY <1>1, <1>2, Assumed DEF BlocksInv
<1>5. HeadersKept
  BY <1>1 DEF HeadersKept
<1>6. FreeListsWhole
  BY <1>1 DEF FreeListsWhole, Link
<1>7. OwnedInv
  BY <1>1 DEF OwnedInv, Once
<1>8. FootprintIsPeak
  <2>1. \A c \in Classes : OfClass(c, DOMAIN blocks) = {}
    BY <1>1 DEF OfClass
  <2>. QED BY <2>1, FS_EmptySet DEF FootprintIsPeak
<1>. QED BY <1>3, <1>4, <1>5, <1>6, <1>7, <1>8 DEF IInv

LEMMA NextInvariant == IInv /\ [Next]_vars => IInv'
<1>. SUFFICES ASSUME IInv, [Next]_vars PROVE IInv'
  OBVIOUS
<1>1. ASSUME NEW size \in Sizes, NEW align \in Aligns, Recycle(size, align) PROVE IInv'
  BY <1>1, RecycleKeeps
<1>2. ASSUME NEW size \in Sizes, NEW align \in Aligns, Carve(size, align) PROVE IInv'
  BY <1>2, CarveKeeps
<1>3. ASSUME NEW size \in Sizes, NEW align \in Aligns, GrowRefused(size, align) PROVE IInv'
  BY <1>3, RefusalKeeps
<1>4. ASSUME NEW p \in DOMAIN live, Free(p) PROVE IInv'
  BY <1>4, FreeKeeps
<1>5. ASSUME NEW p \in DOMAIN live, Fill(p) PROVE IInv'
  BY <1>5, FillKeeps
<1>6. CASE UNCHANGED vars
  BY <1>6 DEF vars, IInv, TypeOK, BlocksInv, Past, Within, Start, HeadersKept, FreeListsWhole,
              OwnedInv, Blk, FootprintIsPeak, OfClass
<1>. QED BY <1>1, <1>2, <1>3, <1>4, <1>5, <1>6 DEF Next

LEMMA SpecInvariant == Spec => []IInv
<1>. QED BY InitInvariant, NextInvariant, PTL DEF Spec

\* No call makes the allocator read a word that is not a number, or hand out memory
\* that is not there.
THEOREM TypeCorrect == Spec => []TypeOK
<1>1. IInv => TypeOK
  BY DEF IInv
<1>. QED BY <1>1, SpecInvariant, PTL

\* rt_free finds the block and the class of every pointer the program holds, whatever
\* it was called for before and whatever the program wrote to its regions.
THEOREM HeadersStay == Spec => []HeadersKept
<1>1. IInv => HeadersKept
  BY DEF IInv
<1>. QED BY <1>1, SpecInvariant, PTL

\* The links in memory lead through each class's free blocks and no others.
THEOREM ListsWhole == Spec => []FreeListsWhole
<1>1. IInv => FreeListsWhole
  BY DEF IInv
<1>. QED BY <1>1, SpecInvariant, PTL

-----------------------------------------------------------------------------
(* Nothing is lost *)

LEMMA OnePlace ==
  ASSUME IInv, NEW b \in DOMAIN blocks
  PROVE  LET places == UNION {{<<c, i>> : i \in {j \in DOMAIN parked[c] : parked[c][j] = b}} : c \in Lists}
             owners == {p \in DOMAIN live : BlockOf(p) = b}
         IN Cardinality(places) + Cardinality(owners) = 1
<1>. DEFINE places == UNION {{<<c, i>> : i \in {j \in DOMAIN parked[c] : parked[c][j] = b}} : c \in Lists}
            owners == {p \in DOMAIN live : BlockOf(p) = b}
<1>1. owners = {p \in DOMAIN live : Blk(p) = b}
  BY SameBlock
<1>2. \A x : x \in places <=>
              \E c \in Lists : \E i \in 1 .. Len(parked[c]) : parked[c][i] = b /\ x = <<c, i>>
  <2>1. \A c \in Lists : DOMAIN parked[c] = 1 .. Len(parked[c])
    BY ListFacts
  <2>. QED BY <2>1
<1>. HIDE DEF places, owners
<1>3. CASE Listed(parked, b)
  <2>1. PICK c \in Lists : \E i \in 1 .. Len(parked[c]) : parked[c][i] = b
    BY <1>3 DEF Listed
  <2>2. PICK i \in 1 .. Len(parked[c]) : parked[c][i] = b
    BY <2>1
  <2>3. ASSUME NEW d \in Lists, NEW j \in 1 .. Len(parked[d]), parked[d][j] = b
        PROVE  d = c /\ j = i
    <3>1. blocks[b] = c /\ blocks[b] = d
      BY <2>2, <2>3, ListFacts
    <3>2. Once(parked[c])
      BY ListFacts
    <3>. QED BY <2>2, <2>3, <3>1, <3>2 DEF Once
  <2>4. places = {<<c, i>>}
    BY <1>2, <2>2, <2>3
  <2>5. owners = {}
    BY <1>1, <1>3 DEF IInv, OwnedInv
  <2>6. Cardinality({<<c, i>>}) = 1 /\ Cardinality({}) = 0
    BY FS_Singleton, FS_EmptySet
  <2>7. Cardinality(places) + Cardinality(owners) = 1
    BY <2>4, <2>5, <2>6
  <2>. QED BY <2>7 DEF places, owners
<1>4. CASE ~Listed(parked, b)
  <2>1. places = {}
    BY <1>2, <1>4 DEF Listed
  <2>2. PICK p \in DOMAIN live : Blk(p) = b
    BY <1>4 DEF IInv, OwnedInv
  <2>3. owners = {p}
    BY <1>1, <2>2, OnePointer
  <2>4. Cardinality({p}) = 1 /\ Cardinality({}) = 0
    BY FS_Singleton, FS_EmptySet
  <2>5. Cardinality(places) + Cardinality(owners) = 1
    BY <2>1, <2>3, <2>4
  <2>. QED BY <2>5 DEF places, owners
<1>. QED BY <1>3, <1>4

LEMMA AllAccounted == IInv => NothingLost
<1>. SUFFICES ASSUME IInv PROVE NothingLost
  OBVIOUS
<1>1. ASSUME NEW b \in DOMAIN blocks, NEW u \in Int PROVE u \in BlockUnits(b) <=> Within(u, b)
  <2>1. b \in Nat /\ Units[blocks[b]] \in Nat
    BY BlockFacts, Assumed
  <2>. QED BY <2>1 DEF BlockUnits, Extent, Within, Past
<1>2. ASSUME NEW u \in HeapBase .. brk - 1
      PROVE  \E b \in DOMAIN blocks : u \in BlockUnits(b)
  <2>1. brk \in Nat /\ u \in Int
    BY Assumed DEF IInv, TypeOK
  <2>2. brk # 0
    BY <2>1, Assumed
  <2>3. Start = brk
    BY <2>2 DEF Start
  <2>4. PICK b \in DOMAIN blocks : Within(u, b)
    BY <2>3 DEF IInv, BlocksInv
  <2>. QED BY <1>1, <2>1, <2>4
<1>3. ASSUME NEW b \in DOMAIN blocks, NEW d \in DOMAIN blocks, b # d
      PROVE  BlockUnits(b) \cap BlockUnits(d) = {}
  <2>1. b \in Nat /\ d \in Nat /\ Units[blocks[b]] \in Nat /\ Units[blocks[d]] \in Nat
    BY BlockFacts, Assumed
  <2>2. BlockUnits(b) \subseteq Int /\ BlockUnits(d) \subseteq Int
    BY <2>1 DEF BlockUnits, Extent
  <2>. QED BY <1>1, <1>3, <2>2, OneBlock
<1>. QED BY <1>2, <1>3, OnePlace DEF NothingLost

\* The blocks fill the memory up to brk, each is held or on one list, and a class has
\* as many as the program once held of it: freed memory is reused, and none is lost.
THEOREM MemoryReused == Spec => []NoneWasted
<1>1. IInv => NoneWasted
  BY AllAccounted DEF IInv, NoneWasted
<1>. QED BY <1>1, SpecInvariant, PTL

-----------------------------------------------------------------------------
(* The allocator implements Heap *)

LEMMA InLiveUnits == \A u : u \in LiveUnits <=> \E p \in DOMAIN live : u \in Region(p)
BY DEF LiveUnits, Region

LEMMA InLiveUnitsNext ==
  \A u : u \in LiveUnits' <=> \E p \in DOMAIN live' : u \in Extent(p, live'[p].size)
BY DEF LiveUnits, Region

\* Regions of two pointers share no unit.
LEMMA RegionsApart ==
  ASSUME IInv, NEW p \in DOMAIN live, NEW q \in DOMAIN live, p # q
  PROVE  Region(p) \cap Region(q) = {}
<1>1. Blk(p) # Blk(q) /\ Blk(p) \in DOMAIN blocks /\ Blk(q) \in DOMAIN blocks
  BY OnePointer, PointerFacts
<1>2. ASSUME NEW u \in Region(p) PROVE u \notin Region(q)
  BY <1>1, RegionFacts, OneBlock
<1>. QED BY <1>2

LEMMA AllocStep ==
  ASSUME IInv, NEW size \in Sizes, NEW align \in Aligns, NEW blk \in Nat, NEW cut,
         NEW c, c = ClassFor(size, align), CanGiveOut(blk, c, cut),
         GiveOut(blk, size, align, cut),
         have' >= have, have' \in Nat, blk + Units[c] <= have'
  PROVE  \E p \in Addresses : AbstractHeap!Alloc(p, size, align)
<1>1. PICK user : user = Placed(blk, align)
  OBVIOUS
<1>2. /\ user \in Nat /\ user \in Addresses /\ user \notin DOMAIN live
      /\ DOMAIN live' = DOMAIN live \cup {user}
      /\ live'[user] = [size |-> size, align |-> align]
      /\ \A q \in DOMAIN live : live'[q] = live[q]
      /\ \A q \in DOMAIN live : \A u \in Region(q) : mem'[u] = mem[u]
      /\ blk <= user - 1 /\ user + size <= blk + Units[c]
  <2>1. /\ user \in Nat /\ user \in Addresses /\ user \notin DOMAIN live
        /\ blk <= user - 1 /\ user + size <= blk + Units[c]
    BY <1>1, GivenOut
  <2>2. /\ DOMAIN live' = DOMAIN live \cup {user}
        /\ live'[user] = [size |-> size, align |-> align]
        /\ \A q \in DOMAIN live : live'[q] = live[q]
    <3>1. live' = [q \in DOMAIN live \cup {user} |->
                     IF q = user THEN [size |-> size, align |-> align] ELSE live[q]]
      BY <1>1 DEF GiveOut
    <3>. QED BY <2>1, <3>1
  <2>3. \A q \in DOMAIN live : \A u \in Region(q) : mem'[u] = mem[u]
    BY <1>1, GivenOut
  <2>. QED BY <2>1, <2>2, <2>3
<1>3. user % align = 0
  BY <1>1, Placement
<1>4. size \in Nat /\ Units[c] \in Nat
  BY ClassHolds, Assumed
<1>5. user + size <= have'
  BY <1>2, <1>4
<1>6. ASSUME NEW q \in DOMAIN live PROVE Extent(user, size) \cap Region(q) = {}
  <2>1. SUFFICES ASSUME NEW u \in Extent(user, size), u \in Region(q) PROVE FALSE
    OBVIOUS
  <2>2. u \in Nat /\ Within(u, Blk(q))
    BY <2>1, RegionFacts
  <2>3. blk <= u /\ u < blk + Units[c]
    BY <1>2, <1>4, <2>1, <2>2 DEF Extent
  <2>4. Blk(q) \in DOMAIN blocks /\ Blk(q) # blk
    BY PointerFacts DEF CanGiveOut
  <2>5. Past(Blk(q)) <= blk \/ blk + Units[c] <= Blk(q)
    BY <2>4 DEF CanGiveOut
  <2>6. Blk(q) \in Nat /\ Past(Blk(q)) \in Nat
    BY <2>4, BlockFacts
  <2>. QED BY <1>4, <2>2, <2>3, <2>5, <2>6 DEF Within
<1>7. /\ Extent(user, live'[user].size) = Extent(user, size)
      /\ \A q \in DOMAIN live : Extent(q, live'[q].size) = Region(q)
  BY <1>2 DEF Region
<1>8. LiveUnits' = LiveUnits \cup Extent(user, size)
  BY <1>2, <1>7, InLiveUnits, InLiveUnitsNext
<1>9. \A u \in LiveUnits : mem'[u] = mem[u]
  BY <1>2, InLiveUnits
<1>10. /\ DOMAIN [u \in LiveUnits |-> mem[u]] = LiveUnits
       /\ DOMAIN [u \in LiveUnits' |-> mem'[u]] = LiveUnits'
       /\ \A u \in LiveUnits : [x \in LiveUnits' |-> mem'[x]][u] = [x \in LiveUnits |-> mem[x]][u]
  BY <1>8, <1>9
<1>11. live' = [q \in DOMAIN live \cup {user} |->
                  IF q = user THEN [size |-> size, align |-> align] ELSE live[q]]
  BY <1>1 DEF GiveOut
<1>12. AbstractHeap!Alloc(user, size, align)
  BY <1>2, <1>3, <1>5, <1>6, <1>8, <1>10, <1>11
     DEF AbstractHeap!Alloc, AbstractHeap!Extent, AbstractHeap!Region, AbstractHeap!SameOn,
         Extent, Region
<1>. QED BY <1>2, <1>12

LEMMA FreeStep ==
  ASSUME IInv, NEW p \in DOMAIN live, Free(p)
  PROVE  AbstractHeap!Free(p)
<1>1. PICK blk, c : Returned(p, blk, c)
  BY FreeIs
<1>2. live' = [q \in DOMAIN live \ {p} |-> live[q]] /\ have' = have
  BY <1>1 DEF Returned
<1>3. \A q \in DOMAIN live \ {p} : \A u \in Region(q) : mem'[u] = mem[u]
  BY <1>1, FreeWrites
<1>4. \A q \in DOMAIN live \ {p} : Extent(q, live'[q].size) = Region(q)
  BY <1>2 DEF Region
<1>5. \A u : u \in LiveUnits' <=> \E q \in DOMAIN live \ {p} : u \in Region(q)
  BY <1>2, <1>4, InLiveUnitsNext
<1>6. LiveUnits' = LiveUnits \ Region(p)
  BY <1>5, InLiveUnits, RegionsApart
<1>7. \A u \in LiveUnits' : u \in LiveUnits /\ mem'[u] = mem[u]
  BY <1>3, <1>5, <1>6
<1>8. /\ DOMAIN [u \in LiveUnits |-> mem[u]] = LiveUnits
      /\ DOMAIN [u \in LiveUnits' |-> mem'[u]] = LiveUnits'
      /\ \A u \in LiveUnits' : [x \in LiveUnits' |-> mem'[x]][u] = [x \in LiveUnits |-> mem[x]][u]
  BY <1>7
<1>. QED BY <1>2, <1>6, <1>8
         DEF AbstractHeap!Free, AbstractHeap!Region, AbstractHeap!Extent, AbstractHeap!SameOn,
             Region, Extent

LEMMA FillStep ==
  ASSUME IInv, NEW p \in DOMAIN live, Fill(p)
  PROVE  AbstractHeap!Fill(p)
<1>1. live' = live /\ have' = have
  BY DEF Fill
<1>2. \A q \in DOMAIN live \ {p} : \A u \in Region(q) : mem'[u] = mem[u]
  BY FillWrites
<1>3. LiveUnits' = LiveUnits
  BY <1>1 DEF LiveUnits, Region
<1>4. \A u \in LiveUnits \ Region(p) : mem'[u] = mem[u]
  BY <1>2, InLiveUnits
<1>5. /\ DOMAIN [u \in LiveUnits |-> mem[u]] = LiveUnits
      /\ DOMAIN [u \in LiveUnits' |-> mem'[u]] = LiveUnits'
      /\ \A u \in LiveUnits \ Region(p) :
           [x \in LiveUnits' |-> mem'[x]][u] = [x \in LiveUnits |-> mem[x]][u]
  BY <1>3, <1>4
<1>. QED BY <1>1, <1>3, <1>5
         DEF AbstractHeap!Fill, AbstractHeap!Region, AbstractHeap!Extent, AbstractHeap!SameOn,
             Region, Extent

LEMMA InitImplements == Init => AbstractHeap!Init
<1>. SUFFICES ASSUME Init PROVE AbstractHeap!Init
  OBVIOUS
<1>1. LiveUnits = {}
  BY DEF Init, LiveUnits, Region
<1>2. [u \in LiveUnits |-> mem[u]] = [u \in {} |-> 0]
  BY <1>1
<1>. QED BY <1>2, Assumed DEF Init, AbstractHeap!Init

LEMMA StepImplements == IInv /\ [Next]_vars => [AbstractHeap!Next]_(AbstractHeap!vars)
<1>. SUFFICES ASSUME IInv, [Next]_vars
              PROVE  AbstractHeap!Next \/ UNCHANGED AbstractHeap!vars
  OBVIOUS
<1>1. ASSUME NEW size \in Sizes, NEW align \in Aligns, Recycle(size, align)
      PROVE  AbstractHeap!Next
  <2>1. PICK c, blk, cut : c = ClassFor(size, align) /\ blk = freeList[c] /\ cut = blocks
    OBVIOUS
  <2>2. /\ blk \in Nat /\ blk \in DOMAIN blocks /\ blocks[blk] = c
        /\ CanGiveOut(blk, c, cut) /\ GiveOut(blk, size, align, cut) /\ have' = have
    BY <1>1, <2>1, RecycleIs
  <2>3. have' \in Nat /\ have' >= have /\ blk + Units[c] <= have'
    <3>1. /\ have \in Nat /\ Start \in Nat /\ Start <= have
          /\ Past(blk) \in Nat /\ Past(blk) <= Start
      BY <2>2, BlockFacts
    <3>2. Past(blk) = blk + Units[c]
      BY <2>2 DEF Past
    <3>. QED BY <2>2, <3>1, <3>2
  <2>4. \E p \in Addresses : AbstractHeap!Alloc(p, size, align)
    BY <2>1, <2>2, <2>3, AllocStep
  <2>. QED BY <2>4 DEF AbstractHeap!Next
<1>2. ASSUME NEW size \in Sizes, NEW align \in Aligns, Carve(size, align)
      PROVE  AbstractHeap!Next
  <2>1. PICK c, blk, cut : c = ClassFor(size, align) /\ blk = Start /\ cut = blocks'
    OBVIOUS
  <2>2. /\ blk \in Nat /\ CanGiveOut(blk, c, cut) /\ GiveOut(blk, size, align, cut)
        /\ have' \in Nat /\ have <= have' /\ blk + Units[c] <= have'
    BY <1>2, <2>1, CarveIs
  <2>3. have \in Nat
    BY BlockFacts
  <2>4. \E p \in Addresses : AbstractHeap!Alloc(p, size, align)
    BY <2>1, <2>2, <2>3, AllocStep
  <2>. QED BY <2>4 DEF AbstractHeap!Next
<1>3. ASSUME NEW size \in Sizes, NEW align \in Aligns, GrowRefused(size, align)
      PROVE  UNCHANGED AbstractHeap!vars
  <2>1. live' = live /\ have' = have /\ mem' = mem
    BY <1>3 DEF GrowRefused
  <2>2. LiveUnits' = LiveUnits
    BY <2>1 DEF LiveUnits, Region
  <2>. QED BY <2>1, <2>2 DEF AbstractHeap!vars
<1>4. ASSUME NEW p \in DOMAIN live, Free(p) PROVE AbstractHeap!Next
  BY <1>4, FreeStep DEF AbstractHeap!Next
<1>5. ASSUME NEW p \in DOMAIN live, Fill(p) PROVE AbstractHeap!Next
  BY <1>5, FillStep DEF AbstractHeap!Next
<1>6. CASE UNCHANGED vars
  <2>1. live' = live /\ have' = have /\ mem' = mem
    BY <1>6 DEF vars
  <2>2. LiveUnits' = LiveUnits
    BY <2>1 DEF LiveUnits, Region
  <2>. QED BY <2>1, <2>2 DEF AbstractHeap!vars
<1>. QED BY <1>1, <1>2, <1>3, <1>4, <1>5, <1>6 DEF Next

\* For any classes, sizes, alignments and memory, the program gets aligned regions
\* inside the memory, apart from each other, whose contents only it changes.
THEOREM AllocatorIsHeap == Spec => ImplementsHeap
<1>. QED BY InitImplements, StepImplements, SpecInvariant, PTL
     DEF Spec, ImplementsHeap, AbstractHeap!Spec
=============================================================================
