------------------------ MODULE BufferMappingProofs ------------------------
(***************************************************************************)
(* Proofs about BufferMapping for every number of cells, ranges, requests   *)
(* and pointers.                                                            *)
(***************************************************************************)
EXTENDS BufferMapping, FiniteSetTheorems, TLAPS

Mentions(s, r)  == \E i \in DOMAIN s : s[i].req = r
Successful(s, r) == \E i \in DOMAIN s : s[i].req = r /\ s[i].status = "ok"
EachOnce(s) == \A i, j \in DOMAIN s : s[i].req = s[j].req => i = j

Awaited(r) ==
  \/ requests[r].owner = "dropped"
  \/ requests[r].owner = "held" /\ requests[r].slot = "pending"

\* The outcome of an awaited request is in one place, of any other request in none.
StagesInv ==
  /\ EachOnce(microtasks) /\ EachOnce(deferred)
  /\ \A r \in Requests :
       /\ promise[r] = "waiting" => ~Mentions(microtasks, r)
       /\ promise[r] = "waiting" => ~Mentions(deferred, r)
       /\ Mentions(microtasks, r) => ~Mentions(deferred, r)
       /\ promise[r] = "waiting" \/ Mentions(microtasks, r) \/ Mentions(deferred, r)
            <=> Awaited(r)

Usable(r) == requests[r].owner = "held" /\ ~requests[r].over

\* A map in progress has a promise; a usable request whose promise waits is the
\* one that is being mapped.
PendingInv ==
  /\ buffer.state = "pending" => buffer.by \in Requests /\ promise[buffer.by] = "waiting"
  /\ \A r \in Requests :
       promise[r] = "waiting" /\ Usable(r)
         => buffer = [state |-> "pending", mode |-> requests[r].mode,
                      cells |-> requests[r].cells, by |-> r]

\* A success, told or under way, is of the mapping there is, and nobody has
\* asked for its range yet.
SuccessInv ==
  \A r \in Requests :
    Usable(r) /\ (\/ requests[r].slot = "ok"
                  \/ Successful(microtasks, r)
                  \/ Successful(deferred, r))
      => /\ buffer = [state |-> "mapped", mode |-> requests[r].mode,
                      cells |-> requests[r].cells, by |-> r]
         /\ got = {}

\* Mirrors of a mapping for reading stay what the GPU wrote.
ReadInv ==
  buffer.state = "mapped" /\ buffer.mode = "read" =>
    \A m \in mapped : \A c \in m.cells : mem[m.ptr][c] = data[c]

FreshInv == buffer.state = "none" => data = Blank

IInv ==
  /\ TypeOK
  /\ MirrorsMatch
  /\ StagesInv
  /\ PendingInv
  /\ SuccessInv
  /\ ReadInv
  /\ FreshInv
  /\ NeverThrows

-----------------------------------------------------------------------------
(* Queues of outcomes *)

LEMMA AppendedOutcome ==
  ASSUME NEW s \in Seq(Outcome), NEW o \in Outcome
  PROVE  /\ Append(s, o) \in Seq(Outcome)
         /\ \A r : Mentions(Append(s, o), r) <=> Mentions(s, r) \/ r = o.req
         /\ \A r : Successful(Append(s, o), r)
                     <=> Successful(s, r) \/ (r = o.req /\ o.status = "ok")
         /\ EachOnce(s) /\ ~Mentions(s, o.req) => EachOnce(Append(s, o))
<1>1. /\ Append(s, o) \in Seq(Outcome)
      /\ DOMAIN s = 1 .. Len(s)
      /\ Len(s) \in Nat
      /\ DOMAIN Append(s, o) = 1 .. Len(s) + 1
      /\ \A i \in 1 .. Len(s) : Append(s, o)[i] = s[i]
      /\ Append(s, o)[Len(s) + 1] = o
  OBVIOUS
<1>2. \A i : i \in DOMAIN Append(s, o) <=> i \in DOMAIN s \/ i = Len(s) + 1
  BY <1>1
<1>3. \A r : Mentions(Append(s, o), r) <=> Mentions(s, r) \/ r = o.req
  BY <1>1, <1>2 DEF Mentions
<1>4. \A r : Successful(Append(s, o), r)
               <=> Successful(s, r) \/ (r = o.req /\ o.status = "ok")
  BY <1>1, <1>2 DEF Successful
<1>5. EachOnce(s) /\ ~Mentions(s, o.req) => EachOnce(Append(s, o))
  BY <1>1, <1>2 DEF EachOnce, Mentions
<1> QED BY <1>1, <1>3, <1>4, <1>5

LEMMA JoinedOutcomes ==
  ASSUME NEW s \in Seq(Outcome), NEW t \in Seq(Outcome)
  PROVE  /\ s \o t \in Seq(Outcome)
         /\ \A r : Mentions(s \o t, r) <=> Mentions(s, r) \/ Mentions(t, r)
         /\ \A r : Successful(s \o t, r) <=> Successful(s, r) \/ Successful(t, r)
         /\ EachOnce(s) /\ EachOnce(t) /\ (\A r \in Requests : Mentions(s, r) => ~Mentions(t, r))
              => EachOnce(s \o t)
<1>1. /\ s \o t \in Seq(Outcome)
      /\ DOMAIN s = 1 .. Len(s) /\ DOMAIN t = 1 .. Len(t)
      /\ Len(s) \in Nat /\ Len(t) \in Nat
      /\ DOMAIN (s \o t) = 1 .. Len(s) + Len(t)
      /\ \A i \in 1 .. Len(s) + Len(t) :
           (s \o t)[i] = IF i <= Len(s) THEN s[i] ELSE t[i - Len(s)]
  OBVIOUS
<1>2. \A i \in DOMAIN s : i \in DOMAIN (s \o t) /\ (s \o t)[i] = s[i]
  BY <1>1
<1>3. \A i \in DOMAIN t : Len(s) + i \in DOMAIN (s \o t) /\ (s \o t)[Len(s) + i] = t[i]
  BY <1>1
<1>4. \A i \in DOMAIN (s \o t) :
        \/ i \in DOMAIN s
        \/ i \notin DOMAIN s /\ i - Len(s) \in DOMAIN t /\ (s \o t)[i] = t[i - Len(s)]
  BY <1>1
<1>5. \A r : Mentions(s \o t, r) <=> Mentions(s, r) \/ Mentions(t, r)
  BY <1>2, <1>3, <1>4 DEF Mentions
<1>6. \A r : Successful(s \o t, r) <=> Successful(s, r) \/ Successful(t, r)
  BY <1>2, <1>3, <1>4 DEF Successful
<1>7. ASSUME EachOnce(s), EachOnce(t), \A r \in Requests : Mentions(s, r) => ~Mentions(t, r),
             NEW i \in DOMAIN (s \o t), NEW j \in DOMAIN (s \o t),
             (s \o t)[i].req = (s \o t)[j].req
      PROVE  i = j
  <2>1. /\ \A k \in DOMAIN s : s[k].req \in Requests
        /\ \A k \in DOMAIN t : t[k].req \in Requests
    <3>1. (\A k \in DOMAIN s : s[k] \in Outcome) /\ (\A k \in DOMAIN t : t[k] \in Outcome)
      BY <1>1
    <3> QED BY <3>1 DEF Outcome
  <2>2. CASE i \in DOMAIN s /\ j \in DOMAIN s
    BY <1>2, <1>7, <2>2 DEF EachOnce
  <2>3. CASE i \notin DOMAIN s /\ j \notin DOMAIN s
    <3>1. i - Len(s) = j - Len(s)
      BY <1>4, <1>7, <2>3 DEF EachOnce
    <3> QED BY <1>1, <3>1
  <2>4. CASE i \in DOMAIN s /\ j \notin DOMAIN s
    BY <1>2, <1>4, <1>7, <2>1, <2>4 DEF Mentions
  <2>5. CASE i \notin DOMAIN s /\ j \in DOMAIN s
    BY <1>2, <1>4, <1>7, <2>1, <2>5 DEF Mentions
  <2> QED BY <2>2, <2>3, <2>4, <2>5
<1> QED BY <1>1, <1>5, <1>6, <1>7 DEF EachOnce

LEMMA NoOutcomes ==
  /\ <<>> \in Seq(Outcome) /\ EachOnce(<<>>)
  /\ \A r : ~Mentions(<<>>, r) /\ ~Successful(<<>>, r)
BY DEF EachOnce, Mentions, Successful

\* What a promise of r that settles does to the queue of reactions.
LEMMA SettledOutcome ==
  ASSUME TypeOK, NEW r \in Requests, NEW s \in {"ok", "failed"}, Settled(r, s)
  PROVE  /\ promise' \in [Requests -> {"none", "waiting"}]
         /\ \A q \in Requests : promise'[q] = IF q = r THEN "none" ELSE promise[q]
         /\ microtasks' \in Seq(Outcome)
         /\ \A q : Mentions(microtasks', q) <=> Mentions(microtasks, q) \/ q = r
         /\ \A q : Successful(microtasks', q)
                     <=> Successful(microtasks, q) \/ (q = r /\ s = "ok")
         /\ EachOnce(microtasks) /\ ~Mentions(microtasks, r) => EachOnce(microtasks')
<1> DEFINE o == [req |-> r, status |-> s]
<1>1. o \in Outcome /\ o.req = r /\ o.status = s
  BY DEF Outcome
<1>2. microtasks \in Seq(Outcome) /\ microtasks' = Append(microtasks, o)
  BY DEF TypeOK, Settled
<1>3. /\ promise' \in [Requests -> {"none", "waiting"}]
      /\ \A q \in Requests : promise'[q] = IF q = r THEN "none" ELSE promise[q]
  BY DEF TypeOK, Settled
<1> HIDE DEF o
<1> QED BY <1>1, <1>2, <1>3, AppendedOutcome

-----------------------------------------------------------------------------
(* Mirrors *)

\* The cells that the mirrors mp, in the memory mm, show of the cells d.
Shown(mp, mm, d) ==
  [c \in Cells |-> IF \E m \in mp : c \in m.cells
                   THEN mm[(CHOOSE m \in mp : c \in m.cells).ptr][c] ELSE d[c]]

\* Each mirrored cell has one mirror.
LEMMA ShownCells ==
  ASSUME NEW mp, NEW mm, NEW d, \A m, n \in mp : m # n => m.cells \cap n.cells = {}
  PROVE  /\ \A m \in mp : \A c \in m.cells : c \in Cells => Shown(mp, mm, d)[c] = mm[m.ptr][c]
         /\ \A c \in Cells : (\A m \in mp : c \notin m.cells) => Shown(mp, mm, d)[c] = d[c]
<1>1. ASSUME NEW m \in mp, NEW c \in m.cells, c \in Cells
      PROVE  Shown(mp, mm, d)[c] = mm[m.ptr][c]
  <2>1. m = CHOOSE n \in mp : c \in n.cells
    OBVIOUS
  <2> QED BY <1>1, <2>1 DEF Shown
<1>2. ASSUME NEW c \in Cells, \A m \in mp : c \notin m.cells
      PROVE  Shown(mp, mm, d)[c] = d[c]
  BY <1>2 DEF Shown
<1> QED BY <1>1, <1>2

LEMMA MirroredIsShown ==
  /\ Mirrored = Shown(mapped, mem, data)
  /\ Mirrored' = Shown(mapped', mem', data')
BY DEF Mirrored, Shown

LEMMA MirroredCells ==
  ASSUME TypeOK, MirrorsMatch
  PROVE  /\ Mirrored \in [Cells -> Values]
         /\ \A m \in mapped : \A c \in m.cells : Mirrored[c] = mem[m.ptr][c]
         /\ \A c \in Cells : (\A m \in mapped : c \notin m.cells) => Mirrored[c] = data[c]
<1>1. \A m \in mapped : /\ m.cells \subseteq Cells
                        /\ \A c \in m.cells : mem[m.ptr][c] \in Values
  <2>1. ASSUME NEW m \in mapped
        PROVE  m.ptr \in DOMAIN mem /\ DOMAIN mem[m.ptr] = m.cells /\ m.cells \in Ranges
    BY DEF TypeOK, MirrorsMatch
  <2> QED BY <2>1, MappingAssumption DEF TypeOK
<1>2. \A m, n \in mapped : m # n => m.cells \cap n.cells = {}
  BY DEF MirrorsMatch
<1>3. /\ \A m \in mapped : \A c \in m.cells : Mirrored[c] = mem[m.ptr][c]
      /\ \A c \in Cells : (\A m \in mapped : c \notin m.cells) => Mirrored[c] = data[c]
  BY <1>1, <1>2, ShownCells, MirroredIsShown
<1>4. \A c \in Cells : Mirrored[c] \in Values
  BY <1>1, <1>3 DEF TypeOK
<1>5. Mirrored = [c \in Cells |-> Mirrored[c]]
  BY DEF Mirrored
<1> QED BY <1>3, <1>4, <1>5

\* mappedRange adds one mirror, of the cells as the browser has them.
LEMMA RangeMirrored ==
  ASSUME TypeOK, MirrorsMatch, NEW cells \in Ranges, RangeGiven(cells), MappedRange(cells)
  PROVE  /\ UNCHANGED thrown
         /\ got' = got \cup {cells}
         /\ \E p \in Pointers :
              /\ p \notin DOMAIN mem
              /\ mapped' = mapped \cup {[ptr |-> p, cells |-> cells]}
              /\ pointers' = pointers \cup {p}
              /\ DOMAIN mem' = DOMAIN mem \cup {p}
              /\ mem'[p] = [c \in cells |-> data[c]]
              /\ \A q \in DOMAIN mem : mem'[q] = mem[q]
BY DEF MappedRange

\* Freeing the mirrors leaves none, and no memory that was theirs.
LEMMA MirrorsFreed ==
  ASSUME MirrorsMatch, FreeMirrors
  PROVE  mapped' = {} /\ DOMAIN mem' = {}
BY DEF MirrorsMatch, FreeMirrors

-----------------------------------------------------------------------------
(* Every step keeps the types. *)

LEMMA TypeKept ==
  ASSUME IInv, Next
  PROVE  TypeOK'
<1> USE DEF IInv
<1>1. CASE BrowserMaps
  <2>1. buffer.by \in Requests /\ Settled(buffer.by, "ok")
    BY <1>1 DEF BrowserMaps, PendingInv
  <2>2. promise' \in [Requests -> {"none", "waiting"}] /\ microtasks' \in Seq(Outcome)
    BY <2>1, SettledOutcome
  <2> QED BY <1>1, <2>2 DEF TypeOK, BrowserMaps
<1>2. CASE BrowserRefuses
  <2>1. buffer.by \in Requests /\ Settled(buffer.by, "failed")
    BY <1>2 DEF BrowserRefuses, PendingInv
  <2>2. promise' \in [Requests -> {"none", "waiting"}] /\ microtasks' \in Seq(Outcome)
    BY <2>1, SettledOutcome
  <2> QED BY <1>2, <2>2, MappingAssumption DEF TypeOK, BrowserRefuses, NoMapping, Modes
<1>3. ASSUME NEW r \in Requests, NEW s \in {"ok", "failed"}, OrphanSettles(r, s)
      PROVE  TypeOK'
  <2>1. promise' \in [Requests -> {"none", "waiting"}] /\ microtasks' \in Seq(Outcome)
    BY <1>3, SettledOutcome DEF OrphanSettles
  <2> QED BY <1>3, <2>1 DEF TypeOK, OrphanSettles, browser
<1>4. ASSUME NEW c \in Cells, NEW v \in Values, GpuWrites(c, v)
      PROVE  TypeOK'
  BY <1>4 DEF TypeOK, GpuWrites
<1>5. CASE RunMicrotasks
  <2>1. deferred' \in Seq(Outcome) /\ microtasks' \in Seq(Outcome)
    BY <1>5, JoinedOutcomes, NoOutcomes DEF TypeOK, RunMicrotasks, Done
  <2> QED BY <1>5, <2>1 DEF TypeOK, RunMicrotasks, browser
<1>6. ASSUME NEW b \in BOOLEAN, CreateBuffer(b)
      PROVE  TypeOK'
  BY <1>6, MappingAssumption DEF TypeOK, CreateBuffer, NoMapping, Modes
<1>7. ASSUME NEW r \in Requests, NEW m \in Modes, NEW cells \in Ranges, MapAsync(r, m, cells)
      PROVE  TypeOK'
  <2>1. requests' \in [Requests -> Request]
    BY <1>7 DEF TypeOK, MapAsync, Request
  <2>2. CASE buffer.state = "unmapped"
    BY <1>7, <2>1, <2>2 DEF TypeOK, MapAsync
  <2>3. CASE buffer.state # "unmapped"
    <3>1. promise' \in [Requests -> {"none", "waiting"}] /\ microtasks' \in Seq(Outcome)
      BY <1>7, <2>3, SettledOutcome DEF MapAsync
    <3> QED BY <1>7, <2>1, <2>3, <3>1 DEF TypeOK, MapAsync
  <2> QED BY <2>2, <2>3
<1>8. ASSUME NEW r \in Requests, Ready(r)
      PROVE  TypeOK'
  <2>1. ASSUME NEW q \in Requests, Told(q)
        PROVE  Answer(q) \in {"ok", "failed"}
    <3>1. \E o \in ToSet(deferred) : o.req = q
      BY <2>1 DEF Told, ToSet
    <3>2. \A o \in ToSet(deferred) : o \in Outcome
      BY DEF TypeOK, ToSet
    <3> QED BY <3>1, <3>2 DEF Answer, Outcome
  <2>2. NoRequest("none") \in Request
    BY MappingAssumption DEF NoRequest, Request, Modes
  <2>3. requests' \in [Requests -> Request]
    <3>1. ASSUME NEW q \in Requests
          PROVE  requests'[q] \in Request
      BY <1>8, <2>1, <2>2 DEF TypeOK, Ready, Request
    <3> QED BY <1>8, <3>1 DEF Ready
  <2> QED BY <1>8, <2>3, NoOutcomes DEF TypeOK, Ready, browser
<1>9. ASSUME NEW r \in Requests, Drop(r)
      PROVE  TypeOK'
  <2>1. NoRequest("none") \in Request /\ NoRequest("dropped") \in Request
    BY MappingAssumption DEF NoRequest, Request, Modes
  <2>2. requests' \in [Requests -> Request]
    BY <1>9, <2>1 DEF TypeOK, Drop
  <2> QED BY <1>9, <2>2 DEF TypeOK, Drop, browser
<1>10. ASSUME NEW cells \in Ranges, RangeGiven(cells), MappedRange(cells),
              requests' \in [Requests -> Request],
              UNCHANGED <<buffer, data, promise, microtasks, deferred>>
       PROVE  TypeOK'
  <2>1. PICK p \in Pointers :
              /\ p \notin DOMAIN mem
              /\ mapped' = mapped \cup {[ptr |-> p, cells |-> cells]}
              /\ pointers' = pointers \cup {p}
              /\ DOMAIN mem' = DOMAIN mem \cup {p}
              /\ mem'[p] = [c \in cells |-> data[c]]
              /\ \A q \in DOMAIN mem : mem'[q] = mem[q]
    BY <1>10, RangeMirrored
  <2>2. thrown' = thrown /\ got' = got \cup {cells}
    BY <1>10, RangeMirrored
  <2>3. \A q \in DOMAIN mem' :
          DOMAIN mem'[q] \in Ranges /\ \A c \in DOMAIN mem'[q] : mem'[q][c] \in Values
    BY <2>1, MappingAssumption DEF TypeOK
  <2> QED BY <1>10, <2>1, <2>2, <2>3 DEF TypeOK
<1>11. ASSUME NEW r \in Requests, Take(r)
       PROVE  TypeOK'
  <2>1. requests[r].cells \in Ranges /\ requests' \in [Requests -> Request]
    <3>1. requests \in [Requests -> Request]
      BY DEF TypeOK
    <3>2. requests[r].cells \in Ranges /\ [requests[r] EXCEPT !.over = TRUE] \in Request
      BY <3>1 DEF Request
    <3>3. requests' = [requests EXCEPT ![r] = [requests[r] EXCEPT !.over = TRUE]]
      BY <1>11 DEF Take
    <3> QED BY <3>1, <3>2, <3>3
  <2>2. RangeGiven(requests[r].cells)
    BY <1>11 DEF Take, Takes, SuccessInv, Usable, RangeGiven
  <2> QED BY <1>10, <1>11, <2>1, <2>2 DEF Take
<1>12. ASSUME NEW cells \in Ranges, GetMappedRange(cells)
       PROVE  TypeOK'
  BY <1>10, <1>12 DEF GetMappedRange, TypeOK
<1>13. ASSUME NEW p \in pointers, NEW c \in Cells, NEW v \in Values, Write(p, c, v)
       PROVE  TypeOK'
  <2>1. p \in DOMAIN mem
    BY DEF MirrorsMatch
  <2>2. /\ DOMAIN mem' = DOMAIN mem
        /\ \A q \in DOMAIN mem : /\ DOMAIN mem'[q] = DOMAIN mem[q]
                                 /\ \A d \in DOMAIN mem[q] : mem'[q][d] \in {v, mem[q][d]}
    BY <1>13, <2>1 DEF Write
  <2> QED BY <1>13, <2>2 DEF TypeOK, Write, browser
<1>14. CASE Unmap
  <2>1. promise' \in [Requests -> {"none", "waiting"}] /\ microtasks' \in Seq(Outcome)
    <3>1. CASE buffer.state = "pending"
      BY <1>14, <3>1, SettledOutcome DEF Unmap, PendingInv
    <3>2. CASE buffer.state # "pending"
      BY <1>14, <3>2 DEF Unmap, TypeOK
    <3> QED BY <3>1, <3>2
  <2>2. data' \in [Cells -> Values]
    BY <1>14, MirroredCells DEF Unmap, DataAfterUnmap, TypeOK
  <2>3. requests' \in [Requests -> Request]
    <3>1. requests \in [Requests -> Request]
      BY DEF TypeOK
    <3>2. ASSUME NEW r \in Requests
          PROVE  [requests[r] EXCEPT !.over = (@ \/ requests[r].owner = "held")] \in Request
      BY <3>1 DEF Request
    <3> QED BY <1>14, <3>2 DEF Unmap
  <2>4. mapped' = {} /\ DOMAIN mem' = {}
    BY <1>14, MirrorsFreed DEF Unmap
  <2> QED BY <1>14, <2>1, <2>2, <2>3, <2>4, MappingAssumption
          DEF TypeOK, Unmap, NoMapping, Modes
<1>15. CASE Release
  <2>1. mapped' = {} /\ DOMAIN mem' = {}
    BY <1>15, MirrorsFreed DEF Release
  <2>2. Blank \in [Cells -> Values]
    BY MappingAssumption DEF Blank
  <2> QED BY <1>15, <2>1, <2>2, MappingAssumption DEF TypeOK, Release, NoMapping, Modes
<1> QED BY <1>1, <1>2, <1>3, <1>4, <1>5, <1>6, <1>7, <1>8, <1>9, <1>11, <1>12, <1>13,
           <1>14, <1>15 DEF Next, ProgramStep, BrowserStep

-----------------------------------------------------------------------------
(* Every step keeps the mirrors, and what they hold. *)

\* Of take() the mirrors only see the range; the request was told a success.
LEMMA RangeTaken ==
  ASSUME IInv, NEW r \in Requests, Take(r)
  PROVE  /\ requests[r].cells \in Ranges
         /\ RangeGiven(requests[r].cells) /\ MappedRange(requests[r].cells)
         /\ requests[r].cells \subseteq buffer.cells
         /\ UNCHANGED <<buffer, data, promise, microtasks, deferred>>
BY DEF IInv, TypeOK, Request, Take, Takes, SuccessInv, Usable, RangeGiven

LEMMA MirrorsKept ==
  ASSUME IInv, Next
  PROVE  MirrorsMatch'
<1> USE DEF IInv
<1>1. ASSUME UNCHANGED <<got, mapped, mem, pointers>>,
             mapped = {} \/ (buffer'.cells = buffer.cells /\ buffer'.state = buffer.state)
      PROVE  MirrorsMatch'
  BY <1>1 DEF MirrorsMatch
<1>2. mapped # {} => buffer.state = "mapped"
  BY DEF MirrorsMatch
<1>3. ASSUME NEW cells \in Ranges, RangeGiven(cells), MappedRange(cells), UNCHANGED buffer
      PROVE  MirrorsMatch'
  <2>1. PICK p \in Pointers :
              /\ p \notin DOMAIN mem
              /\ mapped' = mapped \cup {[ptr |-> p, cells |-> cells]}
              /\ pointers' = pointers \cup {p}
              /\ DOMAIN mem' = DOMAIN mem \cup {p}
              /\ mem'[p] = [c \in cells |-> data[c]]
              /\ \A q \in DOMAIN mem : mem'[q] = mem[q]
    BY <1>3, RangeMirrored
  <2>2. got' = got \cup {cells}
    BY <1>3, RangeMirrored
  <2>3. \A m \in mapped : m.ptr \in DOMAIN mem /\ m.cells \in got /\ DOMAIN mem[m.ptr] = m.cells
    BY DEF MirrorsMatch
  <2>4. \E n : /\ n.ptr = p /\ n.cells = cells
               /\ n \in mapped' /\ \A m : m \in mapped' <=> m \in mapped \/ m = n
    <3> DEFINE n == [ptr |-> p, cells |-> cells]
    <3>1. n.ptr = p /\ n.cells = cells /\ mapped' = mapped \cup {n}
      BY <2>1
    <3> HIDE DEF n
    <3> QED BY <3>1
  <2>5. pointers' = {m.ptr : m \in mapped'} /\ pointers' = DOMAIN mem'
    <3>1. \A q : q \in pointers <=> \E m \in mapped : m.ptr = q
      BY DEF MirrorsMatch
    <3>2. \A q : q \in pointers' <=> \E m \in mapped' : m.ptr = q
      <4>1. \A q : q \in pointers' <=> q \in pointers \/ q = p
        BY <2>1
      <4> QED BY <2>4, <3>1, <4>1
    <3>3. pointers' = {m.ptr : m \in mapped'}
      BY <3>2
    <3> QED BY <2>1, <3>3 DEF MirrorsMatch
  <2>6. got' = {m.cells : m \in mapped'}
    <3>1. \A s : s \in got <=> \E m \in mapped : m.cells = s
      BY DEF MirrorsMatch
    <3>2. \A s : s \in got' <=> \E m \in mapped' : m.cells = s
      <4>1. \A s : s \in got' <=> s \in got \/ s = cells
        BY <2>2
      <4> QED BY <2>4, <3>1, <4>1
    <3> QED BY <3>2
  <2>7. \A m \in mapped' : DOMAIN mem'[m.ptr] = m.cells /\ m.cells \subseteq buffer'.cells
    BY <1>3, <2>1, <2>3, <2>4 DEF MirrorsMatch, RangeGiven
  <2>8. \A m, n \in mapped' : m # n => m.cells \cap n.cells = {}
    BY <1>3, <2>3, <2>4 DEF MirrorsMatch, RangeGiven
  <2>9. buffer'.state = "mapped"
    BY <1>3 DEF RangeGiven
  <2> QED BY <2>5, <2>6, <2>7, <2>8, <2>9 DEF MirrorsMatch
<1>4. ASSUME mapped' = {}, DOMAIN mem' = {}, got' = {}, pointers' = {}
      PROVE  MirrorsMatch'
  BY <1>4 DEF MirrorsMatch
<1>5. CASE BrowserMaps
  BY <1>1, <1>2, <1>5 DEF BrowserMaps
<1>6. CASE BrowserRefuses
  BY <1>1, <1>2, <1>6 DEF BrowserRefuses
<1>7. ASSUME NEW r \in Requests, NEW s \in {"ok", "failed"}, OrphanSettles(r, s)
      PROVE  MirrorsMatch'
  BY <1>1, <1>7 DEF OrphanSettles, browser
<1>8. ASSUME NEW c \in Cells, NEW v \in Values, GpuWrites(c, v)
      PROVE  MirrorsMatch'
  BY <1>1, <1>8 DEF GpuWrites
<1>9. CASE RunMicrotasks
  BY <1>1, <1>9 DEF RunMicrotasks, browser
<1>10. ASSUME NEW b \in BOOLEAN, CreateBuffer(b)
       PROVE  MirrorsMatch'
  BY <1>1, <1>2, <1>10 DEF CreateBuffer
<1>11. ASSUME NEW r \in Requests, NEW m \in Modes, NEW cells \in Ranges, MapAsync(r, m, cells)
       PROVE  MirrorsMatch'
  <2>1. UNCHANGED <<got, mapped, mem, pointers>>
    BY <1>11 DEF MapAsync
  <2>2. buffer.state = "unmapped" \/ buffer' = buffer
    BY <1>11 DEF MapAsync
  <2> QED BY <1>1, <1>2, <2>1, <2>2
<1>12. ASSUME NEW r \in Requests, Ready(r) \/ Drop(r)
       PROVE  MirrorsMatch'
  BY <1>1, <1>12 DEF Ready, Drop, browser
<1>13. ASSUME NEW r \in Requests, Take(r)
       PROVE  MirrorsMatch'
  BY <1>3, <1>13, RangeTaken
<1>14. ASSUME NEW cells \in Ranges, GetMappedRange(cells)
       PROVE  MirrorsMatch'
  BY <1>3, <1>14 DEF GetMappedRange
<1>15. ASSUME NEW p \in pointers, NEW c \in Cells, NEW v \in Values, Write(p, c, v)
       PROVE  MirrorsMatch'
  <2>1. UNCHANGED <<buffer, got, mapped, pointers>>
    BY <1>15 DEF Write, browser
  <2>2. DOMAIN mem' = DOMAIN mem /\ \A q \in DOMAIN mem : DOMAIN mem'[q] = DOMAIN mem[q]
    BY <1>15 DEF Write
  <2> QED BY <2>1, <2>2 DEF MirrorsMatch
<1>16. CASE Unmap
  BY <1>4, <1>16, MirrorsFreed DEF Unmap
<1>17. CASE Release
  BY <1>4, <1>17, MirrorsFreed DEF Release
<1> QED BY <1>5, <1>6, <1>7, <1>8, <1>9, <1>10, <1>11, <1>12, <1>13, <1>14, <1>15,
           <1>16, <1>17 DEF Next, ProgramStep, BrowserStep

LEMMA ReadKept ==
  ASSUME IInv, Next
  PROVE  ReadInv' /\ FreshInv'
<1> USE DEF IInv
<1>1. mapped # {} => buffer.state = "mapped"
  BY DEF MirrorsMatch
<1>2. ASSUME UNCHANGED <<buffer, data, mapped, mem>>
      PROVE  ReadInv' /\ FreshInv'
  BY <1>2 DEF ReadInv, FreshInv, Blank
<1>3. ASSUME mapped' = {}, buffer'.state # "none" \/ data' = Blank
      PROVE  ReadInv' /\ FreshInv'
  BY <1>3 DEF ReadInv, FreshInv, Blank
<1>4. ASSUME NEW cells \in Ranges, RangeGiven(cells), MappedRange(cells), UNCHANGED <<buffer, data>>
      PROVE  ReadInv' /\ FreshInv'
  <2>1. PICK p \in Pointers :
              /\ p \notin DOMAIN mem
              /\ mapped' = mapped \cup {[ptr |-> p, cells |-> cells]}
              /\ mem'[p] = [c \in cells |-> data[c]]
              /\ \A q \in DOMAIN mem : mem'[q] = mem[q]
    BY <1>4, RangeMirrored
  <2>2. \A m \in mapped : m.ptr \in DOMAIN mem
    BY DEF MirrorsMatch
  <2> QED BY <1>4, <2>1, <2>2 DEF ReadInv, FreshInv, Blank
<1>5. CASE BrowserMaps
  BY <1>1, <1>3, <1>5 DEF BrowserMaps, TypeOK
<1>6. CASE BrowserRefuses
  BY <1>1, <1>3, <1>6 DEF BrowserRefuses, NoMapping
<1>7. ASSUME NEW r \in Requests, NEW s \in {"ok", "failed"}, OrphanSettles(r, s)
      PROVE  ReadInv' /\ FreshInv'
  BY <1>2, <1>7 DEF OrphanSettles, browser
<1>8. ASSUME NEW c \in Cells, NEW v \in Values, GpuWrites(c, v)
      PROVE  ReadInv' /\ FreshInv'
  BY <1>1, <1>3, <1>8 DEF GpuWrites
<1>9. CASE RunMicrotasks
  BY <1>2, <1>9 DEF RunMicrotasks, browser
<1>10. ASSUME NEW b \in BOOLEAN, CreateBuffer(b)
       PROVE  ReadInv' /\ FreshInv'
  BY <1>1, <1>3, <1>10 DEF CreateBuffer, NoMapping
<1>11. ASSUME NEW r \in Requests, NEW m \in Modes, NEW cells \in Ranges, MapAsync(r, m, cells)
       PROVE  ReadInv' /\ FreshInv'
  <2>1. CASE buffer.state = "unmapped"
    BY <1>1, <1>3, <1>11, <2>1 DEF MapAsync
  <2>2. CASE buffer.state # "unmapped"
    BY <1>2, <1>11, <2>2 DEF MapAsync
  <2> QED BY <2>1, <2>2
<1>12. ASSUME NEW r \in Requests, Ready(r) \/ Drop(r)
       PROVE  ReadInv' /\ FreshInv'
  BY <1>2, <1>12 DEF Ready, Drop, browser
<1>13. ASSUME NEW r \in Requests, Take(r)
       PROVE  ReadInv' /\ FreshInv'
  BY <1>4, <1>13, RangeTaken
<1>14. ASSUME NEW cells \in Ranges, GetMappedRange(cells)
       PROVE  ReadInv' /\ FreshInv'
  BY <1>4, <1>14 DEF GetMappedRange
<1>15. ASSUME NEW p \in pointers, NEW c \in Cells, NEW v \in Values, Write(p, c, v)
       PROVE  ReadInv' /\ FreshInv'
  BY <1>15 DEF Write, browser, ReadInv, FreshInv, Blank
<1>16. CASE Unmap
  BY <1>3, <1>16, MirrorsFreed DEF Unmap, NoMapping
<1>17. CASE Release
  BY <1>3, <1>17, MirrorsFreed DEF Release
<1> QED BY <1>5, <1>6, <1>7, <1>8, <1>9, <1>10, <1>11, <1>12, <1>13, <1>14, <1>15,
           <1>16, <1>17 DEF Next, ProgramStep, BrowserStep

\* Only getMappedRange may throw, and it is asked for ranges the browser can give.
LEMMA NothingThrown ==
  ASSUME IInv, Next
  PROVE  NeverThrows'
<1> USE DEF IInv, NeverThrows
<1>1. ASSUME NEW r \in Requests, Take(r)
      PROVE  NeverThrows'
  BY <1>1, RangeTaken, RangeMirrored
<1>2. ASSUME NEW cells \in Ranges, GetMappedRange(cells)
      PROVE  NeverThrows'
  BY <1>2, RangeMirrored DEF GetMappedRange
<1>3. ASSUME NEW r \in Requests, Ready(r) \/ Drop(r)
      PROVE  NeverThrows'
  BY <1>3 DEF Ready, Drop
<1>4. CASE RunMicrotasks \/ Unmap \/ Release \/ BrowserMaps \/ BrowserRefuses
  BY <1>4 DEF RunMicrotasks, Unmap, Release, BrowserMaps, BrowserRefuses
<1>5. ASSUME NEW r \in Requests, NEW m \in Modes, NEW s \in Ranges, MapAsync(r, m, s)
      PROVE  NeverThrows'
  BY <1>5 DEF MapAsync
<1>6. ASSUME NEW p \in pointers, NEW c \in Cells, NEW v \in Values, Write(p, c, v)
      PROVE  NeverThrows'
  BY <1>6 DEF Write
<1>7. ASSUME NEW b \in BOOLEAN, CreateBuffer(b)
      PROVE  NeverThrows'
  BY <1>7 DEF CreateBuffer
<1>8. ASSUME NEW r \in Requests, NEW s \in {"ok", "failed"}, OrphanSettles(r, s)
      PROVE  NeverThrows'
  BY <1>8 DEF OrphanSettles
<1>9. ASSUME NEW c \in Cells, NEW v \in Values, GpuWrites(c, v)
      PROVE  NeverThrows'
  BY <1>9 DEF GpuWrites
<1> QED BY <1>1, <1>2, <1>3, <1>4, <1>5, <1>6, <1>7, <1>8, <1>9
        DEF Next, ProgramStep, BrowserStep

-----------------------------------------------------------------------------
(* Every step keeps one outcome for each awaited request. *)

LEMMA SettledStages ==
  ASSUME IInv, NEW r \in Requests, NEW s \in {"ok", "failed"}, Settled(r, s),
         ~Mentions(microtasks, r), ~Mentions(deferred, r), UNCHANGED deferred,
         \A q \in Requests : Awaited(q)' <=> Awaited(q) \/ q = r,
         Awaited(r)'
  PROVE  StagesInv'
<1>1. /\ \A q \in Requests : promise'[q] = IF q = r THEN "none" ELSE promise[q]
      /\ \A q : Mentions(microtasks', q) <=> Mentions(microtasks, q) \/ q = r
      /\ EachOnce(microtasks')
  BY SettledOutcome DEF IInv, StagesInv
<1>2. \A q : Mentions(deferred', q) <=> Mentions(deferred, q)
  OBVIOUS
<1>3. EachOnce(deferred')
  BY DEF IInv, StagesInv
<1>4. ASSUME NEW q \in Requests
      PROVE  /\ promise'[q] = "waiting" => ~Mentions(microtasks', q)
             /\ promise'[q] = "waiting" => ~Mentions(deferred', q)
             /\ Mentions(microtasks', q) => ~Mentions(deferred', q)
             /\ promise'[q] = "waiting" \/ Mentions(microtasks', q) \/ Mentions(deferred', q)
                  <=> Awaited(q)'
  <2>1. CASE q = r
    BY <1>1, <1>2, <2>1
  <2>2. CASE q # r
    BY <1>1, <1>2, <2>2 DEF IInv, StagesInv
  <2> QED BY <2>1, <2>2
<1> QED BY <1>1, <1>3, <1>4 DEF StagesInv

LEMMA SameStages ==
  ASSUME IInv, UNCHANGED <<promise, microtasks, deferred>>,
         \A q \in Requests : Awaited(q)' <=> Awaited(q)
  PROVE  StagesInv'
BY DEF IInv, StagesInv

LEMMA StagesKept ==
  ASSUME IInv, Next
  PROVE  StagesInv'
<1> USE DEF IInv
<1>1. ASSUME NEW r \in Requests, NEW s \in {"ok", "failed"}, promise[r] = "waiting",
             Settled(r, s), UNCHANGED deferred,
             \A q \in Requests : Awaited(q)' <=> Awaited(q)
      PROVE  StagesInv'
  BY <1>1, SettledStages DEF StagesInv
<1>2. ASSUME UNCHANGED requests
      PROVE  \A q \in Requests : Awaited(q)' <=> Awaited(q)
  BY <1>2 DEF Awaited
<1>3. CASE BrowserMaps
  BY <1>1, <1>2, <1>3 DEF BrowserMaps, PendingInv
<1>4. CASE BrowserRefuses
  BY <1>1, <1>2, <1>4 DEF BrowserRefuses, PendingInv
<1>5. ASSUME NEW r \in Requests, NEW s \in {"ok", "failed"}, OrphanSettles(r, s)
      PROVE  StagesInv'
  BY <1>1, <1>2, <1>5 DEF OrphanSettles
<1>6. ASSUME NEW c \in Cells, NEW v \in Values, GpuWrites(c, v)
      PROVE  StagesInv'
  BY <1>2, <1>6, SameStages DEF GpuWrites
<1>7. CASE RunMicrotasks
  <2>1. microtasks' = <<>> /\ deferred' = deferred \o microtasks /\ UNCHANGED <<promise, requests>>
    BY <1>7 DEF RunMicrotasks, Done
  <2>2. microtasks \in Seq(Outcome) /\ deferred \in Seq(Outcome)
    BY DEF TypeOK
  <2>3. \A q : Mentions(deferred', q) <=> Mentions(deferred, q) \/ Mentions(microtasks, q)
    BY <2>1, <2>2, JoinedOutcomes
  <2>4. EachOnce(deferred')
    <3>1. EachOnce(deferred) /\ EachOnce(microtasks)
          /\ \A q \in Requests : Mentions(deferred, q) => ~Mentions(microtasks, q)
      BY DEF StagesInv
    <3> QED BY <2>1, <2>2, <3>1, JoinedOutcomes
  <2>5. EachOnce(microtasks') /\ \A q : ~Mentions(microtasks', q)
    BY <2>1, NoOutcomes
  <2> QED BY <1>2, <2>1, <2>3, <2>4, <2>5 DEF StagesInv
<1>8. ASSUME NEW b \in BOOLEAN, CreateBuffer(b)
      PROVE  StagesInv'
  BY <1>2, <1>8, SameStages DEF CreateBuffer
<1>9. ASSUME NEW r \in Requests, NEW m \in Modes, NEW cells \in Ranges, MapAsync(r, m, cells)
      PROVE  StagesInv'
  <2>1. ~Awaited(r) /\ Awaited(r)' /\ \A q \in Requests \ {r} : Awaited(q)' <=> Awaited(q)
    BY <1>9 DEF MapAsync, Awaited, TypeOK
  <2>2. promise[r] # "waiting" /\ ~Mentions(microtasks, r) /\ ~Mentions(deferred, r)
    BY <2>1 DEF StagesInv
  <2>3. CASE buffer.state = "unmapped"
    <3>1. /\ UNCHANGED <<microtasks, deferred>>
          /\ \A q \in Requests : promise'[q] = IF q = r THEN "waiting" ELSE promise[q]
      BY <1>9, <2>3 DEF MapAsync, TypeOK
    <3> QED BY <2>1, <2>2, <3>1 DEF StagesInv
  <2>4. CASE buffer.state # "unmapped"
    BY <1>9, <2>1, <2>2, <2>4, SettledStages DEF MapAsync
  <2> QED BY <2>3, <2>4
<1>10. ASSUME NEW r \in Requests, Ready(r)
       PROVE  StagesInv'
  <2>1. deferred' = <<>> /\ UNCHANGED <<promise, microtasks>>
    BY <1>10 DEF Ready
  <2>2. \A q : ~Mentions(deferred', q)
    BY <2>1, NoOutcomes
  <2>3. ASSUME NEW q \in Requests
        PROVE  Awaited(q)' <=> Awaited(q) /\ ~Mentions(deferred, q)
    <3>1. CASE ~Told(q)
      <4>1. requests'[q] = requests[q] /\ ~Mentions(deferred, q)
        BY <1>10, <3>1 DEF Ready, Told, Mentions
      <4> QED BY <4>1 DEF Awaited
    <3>2. CASE Told(q)
      <4>1. Answer(q) # "pending"
        <5>1. \E o \in ToSet(deferred) : o.req = q
          BY <3>2 DEF Told, ToSet
        <5>2. \A o \in ToSet(deferred) : o \in Outcome
          BY DEF TypeOK, ToSet
        <5> QED BY <5>1, <5>2 DEF Answer, Outcome
      <4>2. Mentions(deferred, q)
        BY <3>2 DEF Told, Mentions
      <4>3. ~Awaited(q)'
        <5>1. Awaited(q)
          BY <4>2 DEF StagesInv
        <5>2. CASE requests[q].owner = "dropped"
          BY <1>10, <3>2, <5>2 DEF Ready, Awaited, NoRequest
        <5>3. CASE requests[q].owner # "dropped"
          <6>1. requests'[q] = [requests[q] EXCEPT !.slot = Answer(q)]
            BY <1>10, <3>2, <5>3 DEF Ready
          <6>2. requests'[q].slot = Answer(q) /\ requests'[q].owner = requests[q].owner
            BY <6>1 DEF TypeOK, Request
          <6> QED BY <4>1, <5>3, <6>2 DEF Awaited
        <5> QED BY <5>2, <5>3
      <4> QED BY <4>2, <4>3
    <3> QED BY <3>1, <3>2
  <2>4. EachOnce(deferred') /\ EachOnce(microtasks')
    BY <2>1, NoOutcomes DEF StagesInv
  <2> QED BY <2>1, <2>2, <2>3, <2>4 DEF StagesInv
<1>11. ASSUME NEW r \in Requests, Drop(r)
       PROVE  StagesInv'
  <2>1. \A q \in Requests : Awaited(q)' <=> Awaited(q)
    BY <1>11 DEF Drop, NoRequest, Awaited, TypeOK, Request
  <2> QED BY <1>11, <2>1, SameStages DEF Drop
<1>12. ASSUME NEW r \in Requests, Take(r)
       PROVE  StagesInv'
  <2>1. \A q \in Requests : Awaited(q)' <=> Awaited(q)
    BY <1>12 DEF Take, Takes, Awaited, TypeOK, Request
  <2> QED BY <1>12, <2>1, SameStages DEF Take
<1>13. ASSUME NEW cells \in Ranges, GetMappedRange(cells)
       PROVE  StagesInv'
  BY <1>2, <1>13, SameStages DEF GetMappedRange
<1>14. ASSUME NEW p \in pointers, NEW c \in Cells, NEW v \in Values, Write(p, c, v)
       PROVE  StagesInv'
  BY <1>2, <1>14, SameStages DEF Write
<1>15. CASE Unmap
  <2>1. \A q \in Requests : Awaited(q)' <=> Awaited(q)
    BY <1>15 DEF Unmap, Awaited, TypeOK, Request
  <2>2. CASE buffer.state = "pending"
    BY <1>1, <1>15, <2>1, <2>2 DEF Unmap, PendingInv
  <2>3. CASE buffer.state # "pending"
    BY <1>15, <2>1, <2>3, SameStages DEF Unmap
  <2> QED BY <2>2, <2>3
<1>16. CASE Release
  BY <1>2, <1>16, SameStages DEF Release
<1> QED BY <1>3, <1>4, <1>5, <1>6, <1>7, <1>8, <1>9, <1>10, <1>11, <1>12, <1>13, <1>14,
           <1>15, <1>16 DEF Next, ProgramStep, BrowserStep

-----------------------------------------------------------------------------
(* Every step keeps what a map in progress and a success are about. *)

LEMMA PendingKept ==
  ASSUME IInv, Next
  PROVE  PendingInv'
<1> USE DEF IInv
<1>1. \A r \in Requests : promise[r] = "waiting" => Awaited(r) /\ ~Mentions(deferred, r)
  BY DEF StagesInv
<1>2. ASSUME UNCHANGED <<buffer, promise, requests>>
      PROVE  PendingInv'
  BY <1>2 DEF PendingInv, Usable
<1>3. ASSUME NEW r \in Requests, NEW s \in {"ok", "failed"}, Settled(r, s),
             UNCHANGED requests,
             \/ buffer'.state # "pending" /\ buffer.by = r
             \/ buffer' = buffer /\ buffer.by # r
      PROVE  PendingInv'
  <2>1. \A q \in Requests : promise'[q] = IF q = r THEN "none" ELSE promise[q]
    BY <1>3, SettledOutcome
  <2> QED BY <1>3, <2>1 DEF PendingInv, Usable
<1>4. CASE BrowserMaps
  <2>1. PICK r \in Requests : r = buffer.by /\ Settled(r, "ok") /\ UNCHANGED requests
    BY <1>4 DEF BrowserMaps, PendingInv
  <2>2. buffer'.state # "pending"
    BY <1>4 DEF BrowserMaps, TypeOK
  <2> QED BY <1>3, <2>1, <2>2
<1>5. CASE BrowserRefuses
  <2>1. PICK r \in Requests : r = buffer.by /\ Settled(r, "failed") /\ UNCHANGED requests
    BY <1>5 DEF BrowserRefuses, PendingInv
  <2>2. buffer'.state # "pending"
    BY <1>5 DEF BrowserRefuses, NoMapping
  <2> QED BY <1>3, <2>1, <2>2
<1>6. ASSUME NEW r \in Requests, NEW s \in {"ok", "failed"}, OrphanSettles(r, s)
      PROVE  PendingInv'
  BY <1>3, <1>6 DEF OrphanSettles, browser
<1>7. ASSUME NEW c \in Cells, NEW v \in Values, GpuWrites(c, v)
      PROVE  PendingInv'
  BY <1>2, <1>7 DEF GpuWrites
<1>8. CASE RunMicrotasks
  BY <1>2, <1>8 DEF RunMicrotasks, browser
<1>9. ASSUME NEW b \in BOOLEAN, CreateBuffer(b)
      PROVE  PendingInv'
  BY <1>9 DEF CreateBuffer, NoMapping, PendingInv, Usable
<1>10. ASSUME NEW r \in Requests, NEW m \in Modes, NEW cells \in Ranges, MapAsync(r, m, cells)
       PROVE  PendingInv'
  <2>1. promise[r] # "waiting"
    BY <1>1, <1>10 DEF MapAsync, Awaited
  <2>2. requests[r].owner = "none" /\ \A q \in Requests :
          requests'[q] = IF q = r THEN [owner |-> "held", slot |-> "pending", mode |-> m,
                                        cells |-> cells, over |-> FALSE]
                         ELSE requests[q]
    BY <1>10 DEF MapAsync, TypeOK
  <2>3. CASE buffer.state = "unmapped"
    <3>1. /\ buffer' = [state |-> "pending", mode |-> m, cells |-> cells, by |-> r]
          /\ \A q \in Requests : promise'[q] = IF q = r THEN "waiting" ELSE promise[q]
      BY <1>10, <2>3 DEF MapAsync, TypeOK
    <3>2. \A q \in Requests : promise[q] = "waiting" => ~Usable(q)
      BY <2>3 DEF PendingInv
    <3> QED BY <2>2, <3>1, <3>2 DEF PendingInv, Usable
  <2>4. CASE buffer.state # "unmapped"
    <3>1. buffer' = buffer /\ \A q \in Requests : promise'[q] = promise[q]
      BY <1>10, <2>1, <2>4, SettledOutcome DEF MapAsync, TypeOK
    <3> QED BY <2>1, <2>2, <3>1 DEF PendingInv, Usable
  <2> QED BY <2>3, <2>4
<1>11. ASSUME NEW r \in Requests, Ready(r)
       PROVE  PendingInv'
  <2>1. \A q \in Requests : promise[q] = "waiting" => requests'[q] = requests[q]
    BY <1>1, <1>11 DEF Ready, Told, Mentions
  <2> QED BY <1>11, <2>1 DEF Ready, PendingInv, Usable, browser
<1>12. ASSUME NEW r \in Requests, Drop(r)
       PROVE  PendingInv'
  <2>1. \A q \in Requests : q # r => requests'[q] = requests[q]
    BY <1>12 DEF Drop, TypeOK
  <2>2. ~Usable(r)'
    BY <1>12 DEF Drop, TypeOK, Usable, NoRequest
  <2> QED BY <1>12, <2>1, <2>2 DEF Drop, PendingInv, Usable, browser
<1>13. ASSUME NEW r \in Requests, Take(r)
       PROVE  PendingInv'
  <2>1. \A q \in Requests : q # r => requests'[q] = requests[q]
    BY <1>13 DEF Take, TypeOK
  <2>2. ~Usable(r)'
    BY <1>13 DEF Take, TypeOK, Usable, Request
  <2> QED BY <1>13, <2>1, <2>2 DEF Take, PendingInv, Usable
<1>14. ASSUME NEW cells \in Ranges, GetMappedRange(cells)
       PROVE  PendingInv'
  BY <1>2, <1>14 DEF GetMappedRange
<1>15. ASSUME NEW p \in pointers, NEW c \in Cells, NEW v \in Values, Write(p, c, v)
       PROVE  PendingInv'
  BY <1>2, <1>15 DEF Write, browser
<1>16. CASE Unmap
  <2>1. \A q \in Requests : ~Usable(q)'
    BY <1>16 DEF Unmap, TypeOK, Usable, Request
  <2> QED BY <1>16, <2>1 DEF Unmap, NoMapping, PendingInv
<1>17. CASE Release
  BY <1>17 DEF Release, NoMapping, PendingInv, Usable
<1> QED BY <1>4, <1>5, <1>6, <1>7, <1>8, <1>9, <1>10, <1>11, <1>12, <1>13, <1>14,
           <1>15, <1>16, <1>17 DEF Next, ProgramStep, BrowserStep

Succeeding(r) ==
  \/ requests[r].slot = "ok"
  \/ Successful(microtasks, r)
  \/ Successful(deferred, r)

LEMMA SuccessKept ==
  ASSUME IInv, Next
  PROVE  SuccessInv'
<1> USE DEF IInv
<1>1. \A r \in Requests : Usable(r) /\ Succeeding(r) =>
        /\ buffer = [state |-> "mapped", mode |-> requests[r].mode,
                     cells |-> requests[r].cells, by |-> r]
        /\ got = {}
  BY DEF SuccessInv, Succeeding
<1>2. ASSUME UNCHANGED <<buffer, got>>,
             \A r \in Requests : Usable(r)' /\ Succeeding(r)' =>
               /\ Usable(r) /\ Succeeding(r)
               /\ requests'[r].mode = requests[r].mode
               /\ requests'[r].cells = requests[r].cells
      PROVE  SuccessInv'
  BY <1>1, <1>2 DEF SuccessInv, Succeeding
<1>3. ASSUME \A r \in Requests : Usable(r)' => ~Succeeding(r)'
      PROVE  SuccessInv'
  BY <1>3 DEF SuccessInv, Succeeding
<1>4. ASSUME UNCHANGED <<requests, microtasks, deferred>>, NEW r
      PROVE  (Usable(r)' <=> Usable(r)) /\ (Succeeding(r)' <=> Succeeding(r))
  BY <1>4 DEF Usable, Succeeding
<1>5. ASSUME NEW r \in Requests, NEW s \in {"ok", "failed"}, Settled(r, s),
             UNCHANGED <<requests, deferred>>, NEW q
      PROVE  /\ Usable(q)' <=> Usable(q)
             /\ Succeeding(q)' <=> Succeeding(q) \/ (q = r /\ s = "ok")
  BY <1>5, SettledOutcome DEF Usable, Succeeding
<1>6. CASE BrowserMaps
  <2>1. buffer.by \in Requests /\ buffer.state = "pending" /\ Settled(buffer.by, "ok")
    BY <1>6 DEF BrowserMaps, PendingInv
  <2>2. got = {} /\ got' = {}
    BY <1>6, <2>1 DEF BrowserMaps, MirrorsMatch
  <2>3. ASSUME NEW q \in Requests, Usable(q)', Succeeding(q)'
        PROVE  buffer' = [state |-> "mapped", mode |-> requests'[q].mode,
                          cells |-> requests'[q].cells, by |-> q]
    <3>1. q = buffer.by /\ Usable(q)
      BY <1>1, <1>5, <1>6, <2>1, <2>3 DEF BrowserMaps
    <3>2. buffer = [state |-> "pending", mode |-> requests[q].mode,
                    cells |-> requests[q].cells, by |-> q]
      BY <2>1, <3>1 DEF PendingInv
    <3> QED BY <1>6, <3>2 DEF BrowserMaps
  <2> QED BY <2>2, <2>3 DEF SuccessInv, Succeeding
<1>7. CASE BrowserRefuses
  <2>1. buffer.by \in Requests /\ buffer.state = "pending" /\ Settled(buffer.by, "failed")
    BY <1>7 DEF BrowserRefuses, PendingInv
  <2> QED BY <1>1, <1>3, <1>5, <1>7, <2>1 DEF BrowserRefuses
<1>8. ASSUME NEW r \in Requests, NEW s \in {"ok", "failed"}, OrphanSettles(r, s)
      PROVE  SuccessInv'
  <2>1. ~Usable(r)
    BY <1>8 DEF OrphanSettles, PendingInv
  <2> QED BY <1>2, <1>5, <1>8, <2>1 DEF OrphanSettles, browser
<1>9. ASSUME NEW c \in Cells, NEW v \in Values, GpuWrites(c, v)
      PROVE  SuccessInv'
  BY <1>2, <1>4, <1>9 DEF GpuWrites
<1>10. CASE RunMicrotasks
  <2>1. microtasks' = <<>> /\ deferred' = deferred \o microtasks /\ UNCHANGED <<buffer, got, requests>>
    BY <1>10 DEF RunMicrotasks, Done, browser
  <2>2. microtasks \in Seq(Outcome) /\ deferred \in Seq(Outcome)
    BY DEF TypeOK
  <2>3. \A q : Successful(deferred', q) <=> Successful(deferred, q) \/ Successful(microtasks, q)
    BY <2>1, <2>2, JoinedOutcomes
  <2>4. \A q : ~Successful(microtasks', q)
    BY <2>1, NoOutcomes
  <2> QED BY <1>2, <2>1, <2>3, <2>4 DEF Usable, Succeeding
<1>11. ASSUME NEW b \in BOOLEAN, CreateBuffer(b)
       PROVE  SuccessInv'
  BY <1>1, <1>3, <1>4, <1>11 DEF CreateBuffer
<1>12. ASSUME NEW r \in Requests, NEW m \in Modes, NEW cells \in Ranges, MapAsync(r, m, cells)
       PROVE  SuccessInv'
  <2>1. requests[r].owner = "none" /\ \A q \in Requests :
          requests'[q] = IF q = r THEN [owner |-> "held", slot |-> "pending", mode |-> m,
                                        cells |-> cells, over |-> FALSE]
                         ELSE requests[q]
    BY <1>12 DEF MapAsync, TypeOK
  <2>2. ~Mentions(microtasks, r) /\ ~Mentions(deferred, r)
    BY <2>1 DEF StagesInv, Awaited
  <2>3. ~Successful(microtasks, r) /\ ~Successful(deferred, r)
    BY <2>2 DEF Mentions, Successful
  <2>4. UNCHANGED <<got, deferred>>
    BY <1>12 DEF MapAsync
  <2>5. CASE buffer.state = "unmapped"
    <3>1. UNCHANGED microtasks
      BY <1>12, <2>5 DEF MapAsync
    <3>2. ASSUME NEW q \in Requests, Usable(q)'
          PROVE  ~Succeeding(q)'
      <4>1. CASE q = r
        BY <2>1, <2>3, <2>4, <3>1, <4>1 DEF Succeeding
      <4>2. CASE q # r
        BY <1>1, <2>1, <2>4, <2>5, <3>1, <3>2, <4>2 DEF Succeeding, Usable
      <4> QED BY <4>1, <4>2
    <3> QED BY <1>3, <3>2
  <2>6. CASE buffer.state # "unmapped"
    <3>1. buffer' = buffer /\ \A q : Successful(microtasks', q) <=> Successful(microtasks, q)
      BY <1>12, <2>6, SettledOutcome DEF MapAsync
    <3>2. ASSUME NEW q \in Requests, Usable(q)', Succeeding(q)'
          PROVE  q # r /\ Usable(q) /\ Succeeding(q) /\ requests'[q] = requests[q]
      BY <2>1, <2>3, <2>4, <3>1, <3>2 DEF Succeeding, Usable
    <3> QED BY <1>2, <2>4, <3>1, <3>2
  <2> QED BY <2>5, <2>6
<1>13. ASSUME NEW r \in Requests, Ready(r)
       PROVE  SuccessInv'
  <2>1. deferred' = <<>> /\ UNCHANGED <<buffer, got, microtasks>>
    BY <1>13 DEF Ready, browser
  <2>2. ASSUME NEW q \in Requests, Usable(q)', Succeeding(q)'
        PROVE  /\ Usable(q) /\ Succeeding(q)
               /\ requests'[q].mode = requests[q].mode
               /\ requests'[q].cells = requests[q].cells
    <3>1. CASE ~Told(q)
      <4>1. requests'[q] = requests[q]
        BY <1>13, <3>1 DEF Ready
      <4> QED BY <2>1, <2>2, <4>1, NoOutcomes DEF Usable, Succeeding
    <3>2. CASE Told(q)
      <4>1. requests[q].owner # "dropped"
        BY <1>13, <2>2, <3>2 DEF Ready, Usable, NoRequest
      <4>2. requests'[q] = [requests[q] EXCEPT !.slot = Answer(q)]
        BY <1>13, <3>2, <4>1 DEF Ready
      <4>3. /\ requests'[q].slot = Answer(q) /\ requests'[q].owner = requests[q].owner
            /\ requests'[q].mode = requests[q].mode /\ requests'[q].over = requests[q].over
            /\ requests'[q].cells = requests[q].cells
        BY <4>2 DEF TypeOK, Request
      <4>4. Answer(q) = "ok" => Successful(deferred, q)
        <5>1. \E o \in ToSet(deferred) : o.req = q
          BY <3>2 DEF Told, ToSet
        <5> QED BY <5>1 DEF Answer, Successful, ToSet
      <4>5. Succeeding(q)
        BY <2>1, <2>2, <4>3, <4>4, NoOutcomes DEF Succeeding
      <4> QED BY <2>2, <4>3, <4>5 DEF Usable
    <3> QED BY <3>1, <3>2
  <2> QED BY <1>2, <2>1, <2>2
<1>14. ASSUME NEW r \in Requests, Drop(r)
       PROVE  SuccessInv'
  <2>1. \A q \in Requests : q # r => requests'[q] = requests[q]
    BY <1>14 DEF Drop, TypeOK
  <2>2. ~Usable(r)'
    BY <1>14 DEF Drop, TypeOK, Usable, NoRequest
  <2> QED BY <1>2, <1>14, <2>1, <2>2 DEF Drop, Usable, Succeeding, browser
<1>15. ASSUME NEW r \in Requests, Take(r)
       PROVE  SuccessInv'
  <2>1. \A q \in Requests : q # r => requests'[q] = requests[q]
    BY <1>15 DEF Take, TypeOK
  <2>2. ~Usable(r)'
    BY <1>15 DEF Take, TypeOK, Usable, Request
  <2>3. buffer.by = r
    BY <1>1, <1>15 DEF Take, Takes, Usable, Succeeding
  <2>4. \A q \in Requests : Usable(q) /\ Succeeding(q) => q = r
    BY <1>1, <2>3
  <2> QED BY <1>3, <1>15, <2>1, <2>2, <2>4 DEF Take, Usable, Succeeding
<1>16. ASSUME NEW cells \in Ranges, GetMappedRange(cells)
       PROVE  SuccessInv'
  <2>1. \A q \in Requests : ~(Usable(q) /\ Succeeding(q))
    BY <1>1, <1>16, MappingAssumption DEF GetMappedRange
  <2> QED BY <1>3, <1>4, <1>16, <2>1 DEF GetMappedRange
<1>17. ASSUME NEW p \in pointers, NEW c \in Cells, NEW v \in Values, Write(p, c, v)
       PROVE  SuccessInv'
  BY <1>2, <1>4, <1>17 DEF Write, browser
<1>18. CASE Unmap
  <2>1. \A q \in Requests : ~Usable(q)'
    BY <1>18 DEF Unmap, TypeOK, Usable, Request
  <2> QED BY <1>3, <2>1
<1>19. CASE Release
  BY <1>3, <1>19 DEF Release, Usable
<1> QED BY <1>6, <1>7, <1>8, <1>9, <1>10, <1>11, <1>12, <1>13, <1>14, <1>15, <1>16,
           <1>17, <1>18, <1>19 DEF Next, ProgramStep, BrowserStep

-----------------------------------------------------------------------------
(* The invariant *)

LEMMA InitInv ==
  ASSUME Init
  PROVE  IInv
<1>1. Blank \in [Cells -> Values]
  BY MappingAssumption DEF Blank
<1>2. NoMapping("none") \in [state : {"none", "unmapped", "pending", "mapped"}, mode : Modes,
                             cells : Ranges, by : Requests \cup {Nobody}]
  BY MappingAssumption DEF NoMapping, Modes
<1>3. requests \in [Requests -> Request] /\ \A r \in Requests : requests[r] = NoRequest("none")
  BY MappingAssumption DEF Init, NoRequest, Request, Modes
<1>4. TypeOK
  BY <1>1, <1>2, <1>3, NoOutcomes DEF Init, TypeOK
<1>5. MirrorsMatch /\ ReadInv /\ FreshInv /\ NeverThrows
  BY DEF Init, MirrorsMatch, ReadInv, FreshInv, NeverThrows, NoMapping
<1>6. \A r \in Requests : ~Awaited(r) /\ ~Usable(r) /\ promise[r] # "waiting"
  BY <1>3 DEF Init, NoRequest, Awaited, Usable
<1>7. StagesInv /\ PendingInv /\ SuccessInv
  BY <1>6, NoOutcomes DEF Init, StagesInv, PendingInv, SuccessInv, NoMapping
<1> QED BY <1>4, <1>5, <1>7 DEF IInv

LEMMA StepInv ==
  ASSUME IInv, [Next]_vars
  PROVE  IInv'
<1>1. CASE Next
  BY <1>1, TypeKept, MirrorsKept, StagesKept, PendingKept, SuccessKept, ReadKept, NothingThrown
     DEF IInv
<1>2. CASE UNCHANGED vars
  <2>1. TypeOK' /\ MirrorsMatch' /\ NeverThrows'
    BY <1>2 DEF IInv, vars, TypeOK, MirrorsMatch, NeverThrows
  <2>2. ReadInv' /\ FreshInv'
    BY <1>2 DEF IInv, vars, ReadInv, FreshInv, Blank
  <2>3. StagesInv' /\ PendingInv' /\ SuccessInv'
    BY <1>2 DEF IInv, vars, StagesInv, PendingInv, SuccessInv, Awaited, Usable
  <2> QED BY <2>1, <2>2, <2>3 DEF IInv
<1> QED BY <1>1, <1>2

LEMMA InvHolds == Spec => []IInv
BY InitInv, StepInv, PTL DEF Spec

\* The variables keep their types: what is deferred is always a callback with
\* one of the two statuses the program understands (webgpu_impl.mjs 12-22).
THEOREM TypeCorrect == Spec => []TypeOK
<1>1. IInv => TypeOK
  BY DEF IInv
<1> QED BY <1>1, InvHolds, PTL

\* The mirrors of a buffer, the memory allocated for them and the ranges the
\* browser gave out are the same ranges in every state (releaseMapped).
THEOREM MirrorsAgree == Spec => []MirrorsMatch
<1>1. IInv => MirrorsMatch
  BY DEF IInv
<1> QED BY <1>1, InvHolds, PTL

\* A success that take() reads, however late, is of the mapping there is
\* (MapRequest.take).
THEOREM SuccessesHold == Spec => []SuccessIsOwn
<1>1. IInv => SuccessIsOwn
  BY DEF IInv, SuccessInv, SuccessIsOwn, Usable
<1> QED BY <1>1, InvHolds, PTL

\* No call that keeps to the documented use throws into wasm (mappedRange).
THEOREM NothingThrows == Spec => []NeverThrows
<1>1. IInv => NeverThrows
  BY DEF IInv
<1> QED BY <1>1, InvHolds, PTL

LEMMA CountedOnce ==
  ASSUME NEW s, EachOnce(s), NEW r
  PROVE  Cardinality({i \in DOMAIN s : s[i].req = r}) = IF Mentions(s, r) THEN 1 ELSE 0
<1>1. CASE Mentions(s, r)
  <2>1. PICK i \in DOMAIN s : s[i].req = r
    BY <1>1 DEF Mentions
  <2>2. {j \in DOMAIN s : s[j].req = r} = {i}
    BY <2>1 DEF EachOnce
  <2> QED BY <1>1, <2>2, FS_Singleton
<1>2. CASE ~Mentions(s, r)
  <2>1. {j \in DOMAIN s : s[j].req = r} = {}
    BY <1>2 DEF Mentions
  <2> QED BY <1>2, <2>1, FS_EmptySet
<1> QED BY <1>1, <1>2

\* Each request that is awaited, by its owner or by nobody any more, has exactly
\* one outcome on its way, any other none (completion).
THEOREM OutcomesAreOne == Spec => []OneOutcome
<1>1. ASSUME IInv
      PROVE  OneOutcome
  <2>1. ASSUME NEW r \in Requests
        PROVE  InFlight(r) = IF Awaited(r) THEN 1 ELSE 0
    <3> DEFINE noticed == Cardinality({i \in DOMAIN microtasks : microtasks[i].req = r})
               told    == Cardinality({i \in DOMAIN deferred : deferred[i].req = r})
    <3>1. EachOnce(microtasks) /\ EachOnce(deferred)
      BY <1>1 DEF IInv, StagesInv
    <3>2. noticed = IF Mentions(microtasks, r) THEN 1 ELSE 0
      BY <3>1, CountedOnce
    <3>3. told = IF Mentions(deferred, r) THEN 1 ELSE 0
      BY <3>1, CountedOnce
    <3>4. InFlight(r) = (IF promise[r] = "waiting" THEN 1 ELSE 0) + noticed + told
      BY DEF InFlight
    <3> HIDE DEF noticed, told
    <3> QED BY <1>1, <3>2, <3>3, <3>4 DEF IInv, StagesInv
  <2> QED BY <2>1 DEF OneOutcome, Awaited
<1> QED BY <1>1, InvHolds, PTL

-----------------------------------------------------------------------------
(* The refinement: what the sides see of the buffer is SharedBuffer. *)

LEMMA UnmirroredIsData ==
  ASSUME IInv, IInv'
  PROVE  /\ mapped = {} => Mirrored = data
         /\ mapped' = {} => Mirrored' = data'
<1>1. data \in [Cells -> Values] /\ data' \in [Cells -> Values]
  BY DEF IInv, TypeOK
<1>2. ASSUME NEW mm, NEW d \in [Cells -> Values]
      PROVE  Shown({}, mm, d) = d
  BY DEF Shown
<1> QED BY <1>1, <1>2, MirroredIsShown

\* While a buffer is mapped for reading, its mirrors show what the GPU left.
LEMMA ReadingShowsData ==
  ASSUME IInv, buffer.state = "mapped", buffer.mode = "read"
  PROVE  Mirrored = data
<1>1. \A c \in Cells : Mirrored[c] = data[c]
  BY MirroredCells DEF IInv, ReadInv
<1>2. Mirrored \in [Cells -> Values] /\ data \in [Cells -> Values]
  BY MirroredCells DEF IInv, TypeOK
<1> QED BY <1>1, <1>2

\* A new mirror shows what the buffer showed.
LEMMA MirroringShowsSame ==
  ASSUME IInv, IInv', NEW cells \in Ranges, RangeGiven(cells), MappedRange(cells),
         UNCHANGED data
  PROVE  UNCHANGED Mirrored
<1>1. PICK p \in Pointers :
            /\ p \notin DOMAIN mem
            /\ mapped' = mapped \cup {[ptr |-> p, cells |-> cells]}
            /\ mem'[p] = [c \in cells |-> data[c]]
            /\ \A q \in DOMAIN mem : mem'[q] = mem[q]
  BY RangeMirrored DEF IInv
<1>2. \A m \in mapped : m.ptr \in DOMAIN mem /\ m.cells \in got
  BY DEF IInv, MirrorsMatch
<1>3. \A m \in mapped : m.cells \cap cells = {}
  BY <1>2 DEF RangeGiven
<1>4. /\ \A m \in mapped' : \A c \in m.cells : c \in Cells => Mirrored'[c] = mem'[m.ptr][c]
      /\ \A c \in Cells : (\A m \in mapped' : c \notin m.cells) => Mirrored'[c] = data'[c]
  <2>1. \A m, n \in mapped' : m # n => m.cells \cap n.cells = {}
    BY DEF IInv, MirrorsMatch
  <2> QED BY <2>1, ShownCells, MirroredIsShown
<1>5. ASSUME NEW c \in Cells
      PROVE  Mirrored'[c] = Mirrored[c]
  <2>1. CASE c \in cells
    <3>1. Mirrored[c] = data[c]
      BY <1>3, <2>1, MirroredCells DEF IInv
    <3> DEFINE n == [ptr |-> p, cells |-> cells]
    <3>2. n \in mapped' /\ n.ptr = p /\ n.cells = cells
      BY <1>1
    <3> HIDE DEF n
    <3>3. Mirrored'[c] = mem'[p][c]
      BY <1>4, <2>1, <3>2
    <3> QED BY <1>1, <2>1, <3>1, <3>3
  <2>2. CASE \E m \in mapped : c \in m.cells
    <3>1. PICK m \in mapped : c \in m.cells
      BY <2>2
    <3>2. Mirrored[c] = mem[m.ptr][c]
      BY <3>1, MirroredCells DEF IInv
    <3>3. Mirrored'[c] = mem'[m.ptr][c]
      BY <1>1, <1>4, <3>1
    <3> QED BY <1>1, <1>2, <3>2, <3>3
  <2>3. CASE c \notin cells /\ \A m \in mapped : c \notin m.cells
    <3>1. \A m \in mapped' : c \notin m.cells
      BY <1>1, <2>3
    <3> QED BY <1>4, <2>3, <3>1, MirroredCells DEF IInv
  <2> QED BY <2>1, <2>2, <2>3
<1>6. /\ Mirrored = [c \in Cells |-> Mirrored[c]]
      /\ Mirrored' = [c \in Cells |-> Mirrored'[c]]
  BY DEF Mirrored
<1> QED BY <1>5, <1>6

\* A write through a pointer is a write of one cell of the buffer.
LEMMA WritingShowsWrite ==
  ASSUME IInv, IInv', NEW p \in pointers, NEW c \in Cells, NEW v \in Values, Write(p, c, v)
  PROVE  Mirrored' = [Mirrored EXCEPT ![c] = v]
<1>1. PICK m \in mapped : m.ptr = p
  BY DEF IInv, MirrorsMatch
<1>2. c \in m.cells
  BY <1>1 DEF IInv, MirrorsMatch, Write
<1>3. mapped' = mapped /\ data' = data
  BY DEF Write, browser
<1>4. /\ DOMAIN mem' = DOMAIN mem
      /\ p \in DOMAIN mem /\ c \in DOMAIN mem[p] /\ mem'[p][c] = v
      /\ \A q \in DOMAIN mem : \A d \in DOMAIN mem[q] : q # p \/ d # c => mem'[q][d] = mem[q][d]
  BY DEF Write, IInv, MirrorsMatch
<1>5. /\ \A n \in mapped : \A d \in n.cells : d \in Cells => Mirrored'[d] = mem'[n.ptr][d]
      /\ \A d \in Cells : (\A n \in mapped : d \notin n.cells) => Mirrored'[d] = data[d]
  <2>1. \A n, o \in mapped' : n # o => n.cells \cap o.cells = {}
    BY DEF IInv, MirrorsMatch
  <2> QED BY <1>3, <2>1, ShownCells, MirroredIsShown
<1>6. Mirrored'[c] = v
  BY <1>1, <1>2, <1>4, <1>5
<1>7. ASSUME NEW d \in Cells, d # c
      PROVE  Mirrored'[d] = Mirrored[d]
  <2>1. CASE \E n \in mapped : d \in n.cells
    <3>1. PICK n \in mapped : d \in n.cells
      BY <2>1
    <3>2. n.ptr \in DOMAIN mem /\ d \in DOMAIN mem[n.ptr]
      BY <3>1 DEF IInv, MirrorsMatch
    <3>3. Mirrored'[d] = mem'[n.ptr][d] /\ Mirrored[d] = mem[n.ptr][d]
      BY <1>5, <3>1, MirroredCells DEF IInv
    <3> QED BY <1>4, <1>7, <3>2, <3>3
  <2>2. CASE \A n \in mapped : d \notin n.cells
    BY <1>5, <2>2, MirroredCells DEF IInv
  <2> QED BY <2>1, <2>2
<1>8. /\ Mirrored = [d \in Cells |-> Mirrored[d]]
      /\ Mirrored' = [d \in Cells |-> Mirrored'[d]]
  BY DEF Mirrored
<1> QED BY <1>6, <1>7, <1>8

LEMMA InitShared ==
  ASSUME Init
  PROVE  Shared!Init
<1>1. Mirrored = Shown({}, mem, Blank)
  BY MirroredIsShown DEF Init
<1>2. Shown({}, mem, Blank) = [c \in Cells |-> Zero]
  BY DEF Shown, Blank
<1>3. Holder = "nobody"
  BY DEF Init, NoMapping, Holder
<1> QED BY <1>1, <1>2, <1>3 DEF Shared!Init, Shared!Blank

LEMMA StepShared ==
  ASSUME IInv, IInv', [Next]_vars
  PROVE  [Shared!Next]_<<Mirrored, Holder>>
<1>1. buffer.state # "mapped" => Mirrored = data
  BY UnmirroredIsData DEF IInv, MirrorsMatch
<1>2. buffer'.state # "mapped" => Mirrored' = data'
  BY UnmirroredIsData DEF IInv, MirrorsMatch
<1>3. /\ Holder = "nobody" <=> buffer.state = "none"
      /\ Holder = "gpu" <=> buffer.state = "unmapped"
      /\ Holder = "between" <=> buffer.state = "pending"
      /\ Holder = "program" <=> buffer.state = "mapped"
  BY DEF Holder, IInv, TypeOK
<1>4. /\ Holder' = "nobody" <=> buffer'.state = "none"
      /\ Holder' = "gpu" <=> buffer'.state = "unmapped"
      /\ Holder' = "between" <=> buffer'.state = "pending"
      /\ Holder' = "program" <=> buffer'.state = "mapped"
  BY DEF Holder, IInv, TypeOK
<1>5. ASSUME UNCHANGED <<buffer, data, mapped, mem>>
      PROVE  UNCHANGED <<Mirrored, Holder>>
  BY <1>5 DEF Mirrored, Holder
<1>6. ASSUME buffer' = buffer, UNCHANGED Mirrored
      PROVE  UNCHANGED <<Mirrored, Holder>>
  BY <1>6 DEF Holder
<1>7. ASSUME <<Holder, Holder'>> \in {<<"gpu", "between">>, <<"between", "program">>,
                                      <<"between", "gpu">>, <<"program", "gpu">>},
             Mirrored' = Mirrored
      PROVE  Shared!Next
  BY <1>7 DEF Shared!Next, Shared!ChangeHands
<1>8. CASE BrowserMaps
  <2>1. buffer.state = "pending" /\ buffer'.state = "mapped" /\ mapped' = {} /\ data' = data
    BY <1>8 DEF BrowserMaps, IInv, TypeOK, MirrorsMatch
  <2>2. Mirrored' = Mirrored
    BY <1>1, <2>1, UnmirroredIsData
  <2> QED BY <1>3, <1>4, <1>7, <2>1, <2>2
<1>9. CASE BrowserRefuses
  <2>1. buffer.state = "pending" /\ buffer'.state = "unmapped" /\ data' = data
    BY <1>9 DEF BrowserRefuses, NoMapping
  <2> QED BY <1>1, <1>2, <1>3, <1>4, <1>7, <2>1
<1>10. ASSUME NEW r \in Requests, NEW s \in {"ok", "failed"}, OrphanSettles(r, s)
       PROVE  UNCHANGED <<Mirrored, Holder>>
  BY <1>5, <1>10 DEF OrphanSettles, browser
<1>11. ASSUME NEW c \in Cells, NEW v \in Values, GpuWrites(c, v)
       PROVE  Shared!Next
  <2>1. buffer.state = "unmapped" /\ buffer' = buffer /\ data' = [data EXCEPT ![c] = v]
    BY <1>11 DEF GpuWrites
  <2>2. Holder = "gpu" /\ Holder' = Holder /\ Mirrored' = [Mirrored EXCEPT ![c] = v]
    BY <1>1, <1>2, <1>3, <1>4, <2>1
  <2> QED BY <2>2 DEF Shared!Next, Shared!Write
<1>12. CASE RunMicrotasks
  BY <1>5, <1>12 DEF RunMicrotasks, browser
<1>13. ASSUME NEW b \in BOOLEAN, CreateBuffer(b)
       PROVE  Shared!Next
  <2>1. buffer.state = "none" /\ buffer'.state \in {"mapped", "unmapped"}
    BY <1>13 DEF CreateBuffer, NoMapping
  <2>2. mapped' = {} /\ data' = data
    BY <1>13, <2>1 DEF CreateBuffer, IInv, MirrorsMatch
  <2>3. Mirrored' = Mirrored
    BY <1>1, <2>1, <2>2, UnmirroredIsData
  <2> QED BY <1>3, <1>4, <2>1, <2>3 DEF Shared!Next, Shared!Create
<1>14. ASSUME NEW r \in Requests, NEW m \in Modes, NEW cells \in Ranges, MapAsync(r, m, cells)
       PROVE  [Shared!Next]_<<Mirrored, Holder>>
  <2>1. CASE buffer.state = "unmapped"
    <3>1. buffer'.state = "pending" /\ data' = data
      BY <1>14, <2>1 DEF MapAsync
    <3> QED BY <1>1, <1>2, <1>3, <1>4, <1>7, <2>1, <3>1
  <2>2. CASE buffer.state # "unmapped"
    BY <1>5, <1>14, <2>2 DEF MapAsync
  <2> QED BY <2>1, <2>2
<1>15. ASSUME NEW r \in Requests, Ready(r) \/ Drop(r)
       PROVE  UNCHANGED <<Mirrored, Holder>>
  BY <1>5, <1>15 DEF Ready, Drop, browser
<1>16. ASSUME NEW r \in Requests, Take(r)
       PROVE  UNCHANGED <<Mirrored, Holder>>
  BY <1>6, <1>16, RangeTaken, MirroringShowsSame
<1>17. ASSUME NEW cells \in Ranges, GetMappedRange(cells)
       PROVE  UNCHANGED <<Mirrored, Holder>>
  BY <1>6, <1>17, MirroringShowsSame DEF GetMappedRange
<1>18. ASSUME NEW p \in pointers, NEW c \in Cells, NEW v \in Values, Write(p, c, v)
       PROVE  Shared!Next
  <2>1. buffer.state = "mapped" /\ buffer' = buffer
    BY <1>18 DEF Write, browser, IInv, MirrorsMatch
  <2>2. Holder = "program" /\ Holder' = Holder
    BY <1>3, <1>4, <2>1
  <2>3. Mirrored' = [Mirrored EXCEPT ![c] = v]
    BY <1>18, WritingShowsWrite
  <2> QED BY <2>2, <2>3 DEF Shared!Next, Shared!Write
<1>19. CASE Unmap
  <2>1. buffer.state # "none" /\ buffer'.state = "unmapped" /\ data' = DataAfterUnmap
    BY <1>19 DEF Unmap, NoMapping
  <2>2. DataAfterUnmap = Mirrored
    <3>1. CASE buffer.state # "mapped"
      BY <1>1, <3>1 DEF DataAfterUnmap
    <3>2. CASE buffer.state = "mapped" /\ buffer.mode = "write"
      BY <3>2 DEF DataAfterUnmap
    <3>3. CASE buffer.state = "mapped" /\ buffer.mode = "read"
      BY <3>3, ReadingShowsData DEF DataAfterUnmap
    <3> QED BY <3>1, <3>2, <3>3 DEF IInv, TypeOK, Modes
  <2>3. Mirrored' = Mirrored
    BY <1>2, <2>1, <2>2
  <2>4. CASE buffer.state = "unmapped"
    BY <1>3, <1>4, <2>1, <2>3, <2>4
  <2>5. CASE buffer.state \in {"pending", "mapped"}
    BY <1>3, <1>4, <1>7, <2>1, <2>3, <2>5
  <2> QED BY <2>1, <2>4, <2>5 DEF IInv, TypeOK
<1>20. CASE Release
  <2>1. buffer.state # "none" /\ buffer'.state = "none" /\ data' = Blank
    BY <1>20 DEF Release, NoMapping
  <2>2. Holder # "nobody" /\ Holder' = "nobody" /\ Mirrored' = Shared!Blank
    BY <1>2, <1>3, <1>4, <2>1 DEF Blank, Shared!Blank
  <2> QED BY <2>2 DEF Shared!Next, Shared!Destroy
<1>21. CASE UNCHANGED vars
  BY <1>5, <1>21 DEF vars
<1> QED BY <1>8, <1>9, <1>10, <1>11, <1>12, <1>13, <1>14, <1>15, <1>16, <1>17, <1>18, <1>19,
           <1>20, <1>21 DEF Next, ProgramStep, BrowserStep

\* Mapping shares the buffer as promised: one side writes at a time, and neither a
\* mirror nor its way back changes or loses a cell (mappedRange, releaseMapped).
THEOREM MappingShares == Spec => ImplementsSharedBuffer
BY InitShared, StepShared, InvHolds, PTL DEF Spec, ImplementsSharedBuffer, Shared!Spec
=============================================================================
