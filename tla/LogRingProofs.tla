--------------------------- MODULE LogRingProofs ---------------------------
(***************************************************************************)
(* Proofs about LogRing for every number of threads and messages and every  *)
(* size of the ring (the code's is 256).                                    *)
(***************************************************************************)
EXTENDS LogRing, TLAPS

WritePlaces   == {"level", "level_evicted", "length", "length_evicted", "text",
                  "text_evicted", "publish", "publish_evicted"}
EvictPlaces   == {"level_evicted", "length_evicted", "text_evicted", "publish_evicted"}
LogPlaces     == {"idle", "enter", "room", "leave"} \cup WritePlaces
DrainPlaces   == {"idle", "enter", "take", "copy_text", "copy_level", "advance", "leave"}

\* The mutex: exactly the thread between Acquire and Release holds it.
LockInv ==
  /\ \A t \in Loggers : pc[t] \in LogPlaces
  /\ \A t \in Drainers : pc[t] \in DrainPlaces
  /\ \A t \in Threads : pc[t] \notin {"idle", "enter"} <=> lock = t

\* Slot i holds a published message.
InRing(i) ==
  IF head >= tail THEN tail <= i /\ i < head ELSE tail <= i \/ i < head

\* What a logging thread may count on while it holds the lock.
WriterInv ==
  \A t \in Loggers :
    /\ pc[t] # "idle" => msg[t] \in Messages
    /\ pc[t] \in WritePlaces => Succ(head) # tail
    /\ pc[t] \in WritePlaces \ {"level", "level_evicted"} => level[head] = msg[t]
    /\ pc[t] \in {"text", "text_evicted", "publish", "publish_evicted"} => length[head] = msg[t]
    /\ pc[t] \in {"publish", "publish_evicted"} => text[head] = msg[t]
    /\ pc[t] \in EvictPlaces => Succ(Succ(head)) = tail /\ dropped > 0

\* What a draining thread may count on while it holds the lock.
ReaderInv ==
  \A t \in Drainers :
    /\ pc[t] \in {"copy_text", "copy_level", "advance"} =>
         tail # head /\ copied[t].length = length[tail]
    /\ pc[t] \in {"copy_level", "advance"} => copied[t].text = text[tail]
    /\ pc[t] = "advance" => copied[t].level = level[tail]

\* A published slot holds one whole message.
SlotsWhole ==
  \A i \in Index : InRing(i) => level[i] = text[i] /\ length[i] = text[i]

IInv ==
  /\ TypeOK
  /\ LockInv
  /\ WriterInv
  /\ ReaderInv
  /\ SlotsWhole
  /\ NothingTorn
  /\ Accounted

-----------------------------------------------------------------------------
(* Arithmetic on the ring *)

LEMMA SuccIs ==
  ASSUME NEW i \in Index
  PROVE  Succ(i) \in Index /\ Succ(i) = IF i = Slots - 1 THEN 0 ELSE i + 1
BY RingAssumption DEF Succ, Index

LEMMA PlusIs ==
  ASSUME NEW i \in Index, NEW k \in Index
  PROVE  (i + k) % Slots = IF i + k < Slots THEN i + k ELSE i + k - Slots
BY RingAssumption DEF Index

\* The thread that holds the lock is the only one past it.
LEMMA OneInside ==
  ASSUME LockInv, NEW t \in Threads, pc[t] \notin {"idle", "enter"}
  PROVE  lock = t /\ \A u \in Threads : u # t => pc[u] \in {"idle", "enter"}
BY DEF LockInv
-----------------------------------------------------------------------------
(* The inductive invariant *)

LEMMA InitInvariant == Init => IInv
<1>. SUFFICES ASSUME Init PROVE IInv
  OBVIOUS
<1>. USE RingAssumption DEF Part
<1>1. TypeOK
  BY DEF Init, TypeOK, Index, Places, Part, Entry, NoEntry, Threads
<1>2. LockInv
  BY DEF Init, LockInv, LogPlaces, DrainPlaces, Threads
<1>3. WriterInv /\ ReaderInv
  BY DEF Init, WriterInv, ReaderInv, Threads, WritePlaces, EvictPlaces
<1>4. SlotsWhole /\ NothingTorn /\ Accounted
  BY DEF Init, SlotsWhole, NothingTorn, Accounted, Used, InRing, Index
<1>. QED BY <1>1, <1>2, <1>3, <1>4 DEF IInv

\* A step of a thread that owns the lock leaves every other thread outside.
LEMMA GotoInside ==
  ASSUME TypeOK, LockInv, NEW t \in Threads, lock = t, lock' = lock, NEW p \in Places \ {"idle", "enter"},
         t \in Loggers => p \in LogPlaces, t \in Drainers => p \in DrainPlaces,
         Goto(t, p)
  PROVE  /\ LockInv'
         /\ pc' \in [Threads -> Places]
         /\ pc'[t] = p
         /\ \A u \in Threads : u # t => pc'[u] \in {"idle", "enter"} /\ pc'[u] = pc[u]
BY RingAssumption DEF LockInv, Goto, TypeOK, Threads

\* Taking and releasing the lock keep LockInv.
LEMMA AcquireKeepsLock ==
  ASSUME TypeOK, LockInv, NEW t \in Threads,
         NEW p \in Places \ {"idle", "enter"},
         t \in Loggers => p \in LogPlaces, t \in Drainers => p \in DrainPlaces,
         Acquire(t, "enter", p)
  PROVE  /\ LockInv'
         /\ lock' \in Threads \cup {Nothing} /\ pc' \in [Threads -> Places]
         /\ pc'[t] = p
         /\ \A u \in Threads : u # t => pc'[u] \in {"idle", "enter"} /\ pc'[u] = pc[u]
BY RingAssumption DEF LockInv, Acquire, Goto, TypeOK, Threads

LEMMA ReleaseKeepsLock ==
  ASSUME TypeOK, LockInv, NEW t \in Threads,
         NEW from \in Places \ {"idle", "enter"}, NEW p \in {"idle", "enter"},
         Release(t, from, p)
  PROVE  /\ LockInv'
         /\ lock' \in Threads \cup {Nothing} /\ pc' \in [Threads -> Places]
         /\ \A u \in Threads : pc'[u] \in {"idle", "enter"} /\ (u # t => pc'[u] = pc[u])
BY RingAssumption DEF LockInv, Release, Goto, TypeOK, Threads, LogPlaces, DrainPlaces, Places

LEMMA NextInvariant == IInv /\ [Next]_vars => IInv'
<1>. SUFFICES ASSUME IInv, [Next]_vars PROVE IInv'
  OBVIOUS
<1>. USE RingAssumption DEF IInv, Part
<1>. Loggers \subseteq Threads /\ Drainers \subseteq Threads
  BY DEF Threads
<1>1. ASSUME NEW t \in Loggers, Call(t) PROVE IInv'
  <2>1. /\ TypeOK' /\ LockInv'
    BY <1>1 DEF Call, Goto, ring, TypeOK, LockInv, LogPlaces, WritePlaces, Places, Threads
  <2>2. WriterInv' /\ ReaderInv'
    BY <1>1 DEF Call, Goto, ring, TypeOK, WriterInv, ReaderInv, WritePlaces, EvictPlaces, Threads
  <2>3. SlotsWhole' /\ NothingTorn' /\ Accounted'
    BY <1>1 DEF Call, ring, SlotsWhole, NothingTorn, Accounted, Used, InRing
  <2>. QED BY <2>1, <2>2, <2>3
<1>2. ASSUME NEW t \in Loggers, Enter(t) PROVE IInv'
  <2>1. /\ LockInv' /\ lock' \in Threads \cup {Nothing} /\ pc' \in [Threads -> Places]
        /\ pc'[t] = "room" /\ pc[t] = "enter"
        /\ \A u \in Threads : u # t => pc'[u] \in {"idle", "enter"} /\ pc'[u] = pc[u]
    BY <1>2, AcquireKeepsLock DEF Enter, Acquire, LogPlaces, Places
  <2>2. UNCHANGED <<level, length, text, head, tail, dropped, msg, copied, logged, drained>>
    BY <1>2 DEF Enter, ring
  <2>3. TypeOK'
    BY <2>1, <2>2 DEF TypeOK
  <2>4. WriterInv' /\ ReaderInv'
    BY <2>1, <2>2 DEF WriterInv, ReaderInv, WritePlaces, EvictPlaces
  <2>5. SlotsWhole' /\ NothingTorn' /\ Accounted'
    BY <2>2 DEF SlotsWhole, NothingTorn, Accounted, Used, InRing
  <2>. QED BY <2>1, <2>3, <2>4, <2>5
<1>3. ASSUME NEW t \in Loggers, MakeRoom(t) PROVE IInv'
  <2>1. /\ pc[t] = "room" /\ lock = t
        /\ UNCHANGED <<level, length, text, head, lock, msg, copied, logged, drained>>
        /\ IF Full THEN tail' = Succ(tail) /\ dropped' = dropped + 1
                   ELSE UNCHANGED <<tail, dropped>>
        /\ Goto(t, IF Full THEN "level_evicted" ELSE "level")
    BY <1>3 DEF MakeRoom, LockInv
  <2>2. /\ LockInv' /\ pc' \in [Threads -> Places]
        /\ pc'[t] = IF Full THEN "level_evicted" ELSE "level"
        /\ \A u \in Threads : u # t => pc'[u] \in {"idle", "enter"} /\ pc'[u] = pc[u]
    BY <2>1, GotoInside DEF LogPlaces, WritePlaces, Places
  <2>3. head \in Index /\ tail \in Index /\ dropped \in Nat /\ Succ(tail) \in Index
    BY SuccIs DEF TypeOK
  <2>4. TypeOK'
    BY <2>1, <2>2, <2>3 DEF TypeOK
  <2>5. CASE Full
    <3>1. Succ(head) = tail /\ Succ(head) # Succ(tail)
      BY <2>3, <2>5, SuccIs DEF Full, Index
    <3>2. WriterInv' /\ ReaderInv'
      BY <2>1, <2>2, <2>3, <2>5, <3>1 DEF WriterInv, ReaderInv, WritePlaces, EvictPlaces, Succ
    <3>3. SlotsWhole'
      <4>1. \A i \in Index : InRing(i)' => InRing(i)
        BY <2>1, <2>3, <2>5, <3>1, SuccIs DEF InRing, Index
      <4>. QED BY <4>1, <2>1 DEF SlotsWhole
    <3>4. Used' = Used - 1
      BY <2>1, <2>3, <2>5, <3>1, SuccIs DEF Used, Index
    <3>5. Accounted'
      <4>1. Used \in Int /\ dropped' = dropped + 1 /\ UNCHANGED <<logged, drained>>
        BY <2>1, <2>3, <2>5 DEF Used, Index
      <4>. QED BY <3>4, <4>1, <2>3 DEF Accounted, TypeOK
    <3>. QED BY <2>1, <2>2, <2>4, <3>2, <3>3, <3>5 DEF NothingTorn
  <2>6. CASE ~Full
    <3>1. WriterInv' /\ ReaderInv'
      BY <2>1, <2>2, <2>6 DEF WriterInv, ReaderInv, WritePlaces, EvictPlaces, Succ, Full
    <3>. QED BY <2>1, <2>2, <2>4, <2>6, <3>1 DEF SlotsWhole, NothingTorn, Accounted, Used, InRing
  <2>. QED BY <2>5, <2>6
<1>4. ASSUME NEW t \in Loggers, WriteLevel(t) PROVE IInv'
  <2>1. /\ pc[t] \in {"level", "level_evicted"} /\ lock = t
        /\ level' = [level EXCEPT ![head] = msg[t]]
        /\ Goto(t, IF pc[t] = "level" THEN "length" ELSE "length_evicted")
        /\ UNCHANGED <<length, text, head, tail, dropped, lock, msg, copied, logged, drained>>
    BY <1>4 DEF WriteLevel, LockInv
  <2>2. /\ LockInv' /\ pc' \in [Threads -> Places]
        /\ pc'[t] = IF pc[t] = "level" THEN "length" ELSE "length_evicted"
        /\ \A u \in Threads : u # t => pc'[u] \in {"idle", "enter"} /\ pc'[u] = pc[u]
    BY <2>1, GotoInside DEF LogPlaces, WritePlaces, Places
  <2>3. head \in Index /\ tail \in Index /\ ~InRing(head)
    BY DEF TypeOK, InRing, Index
  <2>4. TypeOK'
    BY <2>1, <2>2 DEF TypeOK
  <2>5. WriterInv' /\ ReaderInv'
    BY <2>1, <2>2, <2>3 DEF WriterInv, ReaderInv, WritePlaces, EvictPlaces, Succ, TypeOK
  <2>6. SlotsWhole'
    BY <2>1, <2>3 DEF SlotsWhole, TypeOK, InRing
  <2>. QED BY <2>1, <2>2, <2>4, <2>5, <2>6 DEF NothingTorn, Accounted, Used
<1>5. ASSUME NEW t \in Loggers, WriteLength(t) PROVE IInv'
  <2>1. /\ pc[t] \in {"length", "length_evicted"} /\ lock = t
        /\ length' = [length EXCEPT ![head] = msg[t]]
        /\ Goto(t, IF pc[t] = "length" THEN "text" ELSE "text_evicted")
        /\ UNCHANGED <<level, text, head, tail, dropped, lock, msg, copied, logged, drained>>
    BY <1>5 DEF WriteLength, LockInv
  <2>2. /\ LockInv' /\ pc' \in [Threads -> Places]
        /\ pc'[t] = IF pc[t] = "length" THEN "text" ELSE "text_evicted"
        /\ \A u \in Threads : u # t => pc'[u] \in {"idle", "enter"} /\ pc'[u] = pc[u]
    BY <2>1, GotoInside DEF LogPlaces, WritePlaces, Places
  <2>3. head \in Index /\ tail \in Index /\ ~InRing(head)
    BY DEF TypeOK, InRing, Index
  <2>4. TypeOK'
    BY <2>1, <2>2 DEF TypeOK
  <2>5. WriterInv' /\ ReaderInv'
    BY <2>1, <2>2, <2>3 DEF WriterInv, ReaderInv, WritePlaces, EvictPlaces, Succ, TypeOK
  <2>6. SlotsWhole'
    BY <2>1, <2>3 DEF SlotsWhole, TypeOK, InRing
  <2>. QED BY <2>1, <2>2, <2>4, <2>5, <2>6 DEF NothingTorn, Accounted, Used
<1>6. ASSUME NEW t \in Loggers, WriteText(t) PROVE IInv'
  <2>1. /\ pc[t] \in {"text", "text_evicted"} /\ lock = t
        /\ text' = [text EXCEPT ![head] = msg[t]]
        /\ Goto(t, IF pc[t] = "text" THEN "publish" ELSE "publish_evicted")
        /\ UNCHANGED <<level, length, head, tail, dropped, lock, msg, copied, logged, drained>>
    BY <1>6 DEF WriteText, LockInv
  <2>2. /\ LockInv' /\ pc' \in [Threads -> Places]
        /\ pc'[t] = IF pc[t] = "text" THEN "publish" ELSE "publish_evicted"
        /\ \A u \in Threads : u # t => pc'[u] \in {"idle", "enter"} /\ pc'[u] = pc[u]
    BY <2>1, GotoInside DEF LogPlaces, WritePlaces, Places
  <2>3. head \in Index /\ tail \in Index /\ ~InRing(head)
    BY DEF TypeOK, InRing, Index
  <2>4. TypeOK'
    BY <2>1, <2>2 DEF TypeOK
  <2>5. WriterInv' /\ ReaderInv'
    BY <2>1, <2>2, <2>3 DEF WriterInv, ReaderInv, WritePlaces, EvictPlaces, Succ, TypeOK
  <2>6. SlotsWhole'
    BY <2>1, <2>3 DEF SlotsWhole, TypeOK, InRing
  <2>. QED BY <2>1, <2>2, <2>4, <2>5, <2>6 DEF NothingTorn, Accounted, Used
<1>7. ASSUME NEW t \in Loggers, Publish(t) PROVE IInv'
  <2>1. /\ pc[t] \in {"publish", "publish_evicted"} /\ lock = t
        /\ head' = Succ(head)
        /\ logged' = Append(logged, msg[t])
        /\ Goto(t, "leave")
        /\ UNCHANGED <<level, length, text, tail, dropped, lock, msg, copied, drained>>
    BY <1>7 DEF Publish, LockInv
  <2>2. /\ LockInv' /\ pc' \in [Threads -> Places]
        /\ pc'[t] = "leave"
        /\ \A u \in Threads : u # t => pc'[u] \in {"idle", "enter"} /\ pc'[u] = pc[u]
    BY <2>1, GotoInside DEF LogPlaces, WritePlaces, Places
  <2>3. /\ head \in Index /\ tail \in Index /\ Succ(head) \in Index /\ Succ(head) # tail
        /\ msg[t] \in Messages /\ level[head] = text[head] /\ length[head] = text[head]
    BY <2>1, SuccIs DEF TypeOK, WriterInv, WritePlaces
  <2>4. TypeOK'
    BY <2>1, <2>2, <2>3 DEF TypeOK
  <2>5. WriterInv' /\ ReaderInv'
    BY <2>1, <2>2 DEF WriterInv, ReaderInv, WritePlaces, EvictPlaces
  <2>9. /\ head' = IF head = Slots - 1 THEN 0 ELSE head + 1
        /\ tail' = tail /\ head' # tail
        /\ head \in 0 .. Slots - 1 /\ tail \in 0 .. Slots - 1
    BY <2>1, <2>3, SuccIs DEF Index
  <2>6. SlotsWhole'
    <3>1. \A i \in Index : InRing(i)' => InRing(i) \/ i = head
      BY <2>9 DEF InRing, Index
    <3>. QED BY <3>1, <2>1, <2>3 DEF SlotsWhole
  <2>7. Used' = Used + 1 /\ Used \in Int
    BY <2>9 DEF Used
  <2>8. Accounted'
    <3>1. Len(logged') = Len(logged) + 1 /\ Len(logged) \in Nat
      BY <2>1, <2>3 DEF TypeOK
    <3>2. Len(drained) \in Nat /\ dropped \in Nat
      BY DEF TypeOK
    <3>. QED BY <2>1, <2>7, <3>1, <3>2 DEF Accounted
  <2>. QED BY <2>1, <2>2, <2>4, <2>5, <2>6, <2>8 DEF NothingTorn
<1>8. ASSUME NEW t \in Loggers, Leave(t) PROVE IInv'
  <2>1. /\ LockInv' /\ lock' \in Threads \cup {Nothing} /\ pc' \in [Threads -> Places]
        /\ pc'[t] = "idle"
        /\ \A u \in Threads : pc'[u] \in {"idle", "enter"} /\ (u # t => pc'[u] = pc[u])
    BY <1>8, ReleaseKeepsLock DEF Leave, Release, Goto, Places, TypeOK
  <2>2. /\ UNCHANGED <<level, length, text, head, tail, dropped, copied, logged, drained>>
        /\ msg' = [msg EXCEPT ![t] = Nothing]
    BY <1>8 DEF Leave, ring
  <2>3. TypeOK'
    BY <2>1, <2>2 DEF TypeOK
  <2>4. WriterInv' /\ ReaderInv'
    BY <2>1, <2>2 DEF WriterInv, ReaderInv, WritePlaces, EvictPlaces, TypeOK
  <2>. QED BY <2>1, <2>2, <2>3, <2>4 DEF SlotsWhole, NothingTorn, Accounted, Used, InRing
<1>9. ASSUME NEW t \in Drainers, BeginDrain(t) PROVE IInv'
  <2>1. /\ TypeOK' /\ LockInv'
    BY <1>9 DEF BeginDrain, Goto, ring, TypeOK, LockInv, DrainPlaces, Places, Threads
  <2>2. WriterInv' /\ ReaderInv'
    BY <1>9 DEF BeginDrain, Goto, ring, TypeOK, WriterInv, ReaderInv, WritePlaces, EvictPlaces, Threads
  <2>3. SlotsWhole' /\ NothingTorn' /\ Accounted'
    BY <1>9 DEF BeginDrain, ring, SlotsWhole, NothingTorn, Accounted, Used, InRing
  <2>. QED BY <2>1, <2>2, <2>3
<1>10. ASSUME NEW t \in Drainers, EnterTake(t) PROVE IInv'
  <2>1. /\ LockInv' /\ lock' \in Threads \cup {Nothing} /\ pc' \in [Threads -> Places]
        /\ pc'[t] = "take"
        /\ \A u \in Threads : u # t => pc'[u] \in {"idle", "enter"} /\ pc'[u] = pc[u]
    BY <1>10, AcquireKeepsLock DEF EnterTake, DrainPlaces, Places
  <2>2. UNCHANGED <<level, length, text, head, tail, dropped, msg, copied, logged, drained>>
    BY <1>10 DEF EnterTake, ring
  <2>3. TypeOK'
    BY <2>1, <2>2 DEF TypeOK
  <2>4. WriterInv' /\ ReaderInv'
    BY <2>1, <2>2 DEF WriterInv, ReaderInv, WritePlaces, EvictPlaces
  <2>. QED BY <2>1, <2>2, <2>3, <2>4 DEF SlotsWhole, NothingTorn, Accounted, Used, InRing
<1>11. ASSUME NEW t \in Drainers, CopyLength(t) PROVE IInv'
  <2>1. /\ pc[t] = "take" /\ lock = t /\ tail # head
        /\ copied' = [copied EXCEPT ![t].length = length[tail]]
        /\ Goto(t, "copy_text")
        /\ UNCHANGED <<level, length, text, head, tail, dropped, lock, msg, logged, drained>>
    BY <1>11 DEF CopyLength, ring, LockInv
  <2>2. /\ LockInv' /\ pc' \in [Threads -> Places]
        /\ pc'[t] = "copy_text"
        /\ \A u \in Threads : u # t => pc'[u] \in {"idle", "enter"} /\ pc'[u] = pc[u]
    BY <2>1, GotoInside DEF DrainPlaces, Places
  <2>3. copied' \in [Drainers -> Entry]
    BY <2>1 DEF TypeOK, Entry
  <2>4. TypeOK'
    BY <2>1, <2>2, <2>3 DEF TypeOK
  <2>5. WriterInv'
    BY <2>1, <2>2 DEF WriterInv, WritePlaces, EvictPlaces
  <2>6. ReaderInv'
    <3>1. /\ copied'[t] = [copied[t] EXCEPT !.length = length[tail]] /\ copied[t] \in Entry
      BY <2>1 DEF TypeOK
    <3>. QED BY <2>1, <2>2, <3>1 DEF ReaderInv, Entry
  <2>. QED BY <2>1, <2>2, <2>4, <2>5, <2>6 DEF SlotsWhole, NothingTorn, Accounted, Used, InRing
<1>12. ASSUME NEW t \in Drainers, CopyText(t) PROVE IInv'
  <2>1. /\ pc[t] = "copy_text" /\ lock = t
        /\ copied' = [copied EXCEPT ![t].text = text[tail]]
        /\ Goto(t, "copy_level")
        /\ UNCHANGED <<level, length, text, head, tail, dropped, lock, msg, logged, drained>>
    BY <1>12 DEF CopyText, ring, LockInv
  <2>2. /\ LockInv' /\ pc' \in [Threads -> Places]
        /\ pc'[t] = "copy_level"
        /\ \A u \in Threads : u # t => pc'[u] \in {"idle", "enter"} /\ pc'[u] = pc[u]
    BY <2>1, GotoInside DEF DrainPlaces, Places
  <2>3. copied' \in [Drainers -> Entry]
    BY <2>1 DEF TypeOK, Entry
  <2>4. TypeOK'
    BY <2>1, <2>2, <2>3 DEF TypeOK
  <2>5. WriterInv'
    BY <2>1, <2>2 DEF WriterInv, WritePlaces, EvictPlaces
  <2>6. ReaderInv'
    <3>1. /\ copied'[t] = [copied[t] EXCEPT !.text = text[tail]] /\ copied[t] \in Entry
      BY <2>1 DEF TypeOK
    <3>. QED BY <2>1, <2>2, <3>1 DEF ReaderInv, Entry
  <2>. QED BY <2>1, <2>2, <2>4, <2>5, <2>6 DEF SlotsWhole, NothingTorn, Accounted, Used, InRing
<1>13. ASSUME NEW t \in Drainers, CopyLevel(t) PROVE IInv'
  <2>1. /\ pc[t] = "copy_level" /\ lock = t
        /\ copied' = [copied EXCEPT ![t].level = level[tail]]
        /\ Goto(t, "advance")
        /\ UNCHANGED <<level, length, text, head, tail, dropped, lock, msg, logged, drained>>
    BY <1>13 DEF CopyLevel, ring, LockInv
  <2>2. /\ LockInv' /\ pc' \in [Threads -> Places]
        /\ pc'[t] = "advance"
        /\ \A u \in Threads : u # t => pc'[u] \in {"idle", "enter"} /\ pc'[u] = pc[u]
    BY <2>1, GotoInside DEF DrainPlaces, Places
  <2>3. copied' \in [Drainers -> Entry]
    BY <2>1 DEF TypeOK, Entry
  <2>4. TypeOK'
    BY <2>1, <2>2, <2>3 DEF TypeOK
  <2>5. WriterInv'
    BY <2>1, <2>2 DEF WriterInv, WritePlaces, EvictPlaces
  <2>6. ReaderInv'
    <3>1. /\ copied'[t] = [copied[t] EXCEPT !.level = level[tail]] /\ copied[t] \in Entry
      BY <2>1 DEF TypeOK
    <3>. QED BY <2>1, <2>2, <3>1 DEF ReaderInv, Entry
  <2>. QED BY <2>1, <2>2, <2>4, <2>5, <2>6 DEF SlotsWhole, NothingTorn, Accounted, Used, InRing
<1>14. ASSUME NEW t \in Drainers, Advance(t) PROVE IInv'
  <2>1. /\ pc[t] = "advance" /\ lock = t
        /\ tail' = Succ(tail)
        /\ drained' = Append(drained, copied[t])
        /\ Goto(t, "leave")
        /\ UNCHANGED <<level, length, text, head, dropped, lock, msg, copied, logged>>
    BY <1>14 DEF Advance, LockInv
  <2>2. /\ LockInv' /\ pc' \in [Threads -> Places]
        /\ pc'[t] = "leave"
        /\ \A u \in Threads : u # t => pc'[u] \in {"idle", "enter"} /\ pc'[u] = pc[u]
    BY <2>1, GotoInside DEF DrainPlaces, Places
  <2>3. /\ head \in Index /\ tail \in Index /\ Succ(tail) \in Index /\ tail # head
        /\ copied[t] \in Entry
        /\ copied[t].level = copied[t].text /\ copied[t].length = copied[t].text
    <3>1. head \in Index /\ tail \in Index /\ Succ(tail) \in Index /\ copied[t] \in Entry
      BY SuccIs DEF TypeOK
    <3>2. /\ tail # head
          /\ copied[t].level = level[tail] /\ copied[t].length = length[tail]
          /\ copied[t].text = text[tail]
      BY <2>1 DEF ReaderInv
    <3>3. InRing(tail)
      BY <3>1, <3>2 DEF InRing, Index
    <3>. QED BY <3>1, <3>2, <3>3 DEF SlotsWhole
  <2>4. TypeOK'
    BY <2>1, <2>2, <2>3 DEF TypeOK
  <2>5. WriterInv' /\ ReaderInv'
    BY <2>1, <2>2 DEF WriterInv, ReaderInv, WritePlaces, EvictPlaces
  <2>10. /\ tail' = IF tail = Slots - 1 THEN 0 ELSE tail + 1
         /\ head' = head /\ tail # head
         /\ head \in 0 .. Slots - 1 /\ tail \in 0 .. Slots - 1
    BY <2>1, <2>3, SuccIs DEF Index
  <2>6. SlotsWhole'
    <3>1. \A i \in Index : InRing(i)' => InRing(i)
      BY <2>10 DEF InRing, Index
    <3>. QED BY <3>1, <2>1 DEF SlotsWhole
  <2>7. NothingTorn'
    BY <2>1, <2>3 DEF NothingTorn, TypeOK
  <2>8. Used' = Used - 1 /\ Used \in Int
    BY <2>10 DEF Used
  <2>9. Accounted'
    BY <2>1, <2>3, <2>8 DEF Accounted, TypeOK
  <2>. QED BY <2>2, <2>4, <2>5, <2>6, <2>7, <2>9
<1>15. ASSUME NEW t \in Drainers, LeaveTake(t) \/ TakeNothing(t) PROVE IInv'
  <2>1. PICK from \in {"leave", "take"}, p \in {"idle", "enter"} :
          /\ Release(t, from, p)
          /\ UNCHANGED <<level, length, text, head, tail, dropped, msg, copied, logged, drained>>
    BY <1>15 DEF LeaveTake, TakeNothing, ring
  <2>2. /\ LockInv' /\ lock' \in Threads \cup {Nothing} /\ pc' \in [Threads -> Places]
        /\ \A u \in Threads : pc'[u] \in {"idle", "enter"} /\ (u # t => pc'[u] = pc[u])
    BY <2>1, ReleaseKeepsLock DEF Places
  <2>3. TypeOK'
    BY <2>1, <2>2 DEF TypeOK
  <2>4. WriterInv' /\ ReaderInv'
    BY <2>1, <2>2 DEF WriterInv, ReaderInv, WritePlaces, EvictPlaces, Threads
  <2>. QED BY <2>1, <2>2, <2>3, <2>4 DEF SlotsWhole, NothingTorn, Accounted, Used, InRing
<1>16. CASE UNCHANGED vars
  <2>1. TypeOK' /\ LockInv' /\ WriterInv'
    BY <1>16 DEF vars, TypeOK, LockInv, WriterInv
  <2>. QED BY <1>16, <2>1 DEF vars, ReaderInv, SlotsWhole, NothingTorn, Accounted, Used, InRing
<1>. QED
  BY <1>1, <1>2, <1>3, <1>4, <1>5, <1>6, <1>7, <1>8, <1>9, <1>10, <1>11, <1>12, <1>13,
     <1>14, <1>15, <1>16
  DEF Next, LogStep, DrainStep

LEMMA SpecInvariant == Spec => []IInv
<1>. QED BY InitInvariant, NextInvariant, PTL DEF Spec
-----------------------------------------------------------------------------
(* Safety *)

\* Both cursors stay on the ring and every thread in its code.
THEOREM TypeCorrect == Spec => []TypeOK
<1>1. IInv => TypeOK
  BY DEF IInv
<1>. QED BY <1>1, SpecInvariant, PTL

\* No message is lost uncounted, whatever the threads' interleaving.
THEOREM AllAccounted == Spec => []Accounted
<1>1. IInv => Accounted
  BY DEF IInv
<1>. QED BY <1>1, SpecInvariant, PTL

\* drain_log never returns the level or the length of one message with the text of
\* another.
THEOREM NoneTorn == Spec => []NothingTorn
<1>1. IInv => NothingTorn
  BY DEF IInv
<1>. QED BY <1>1, SpecInvariant, PTL

-----------------------------------------------------------------------------
(* The ring implements the queue *)

\* Sequences that agree where Append and Tail say they should are equal.
LEMMA FunctionIsSeq ==
  ASSUME NEW S, NEW n \in Nat, NEW f \in [1 .. n -> S]
  PROVE  f \in Seq(S) /\ Len(f) = n
OBVIOUS

LEMMA IsAppend ==
  ASSUME NEW S, NEW s \in Seq(S), NEW e \in S, NEW t \in Seq(S), Len(t) = Len(s) + 1,
         \A i \in 1 .. Len(s) : t[i] = s[i], t[Len(t)] = e
  PROVE  t = Append(s, e)
OBVIOUS

LEMMA IsTail ==
  ASSUME NEW S, NEW s \in Seq(S), s # <<>>, NEW t \in Seq(S), Len(t) = Len(s) - 1,
         \A i \in 1 .. Len(t) : t[i] = s[i + 1]
  PROVE  t = Tail(s)
OBVIOUS

LEMMA IsTailAppend ==
  ASSUME NEW S, NEW s \in Seq(S), NEW e \in S, s # <<>>, NEW t \in Seq(S), Len(t) = Len(s),
         \A i \in 1 .. Len(s) - 1 : t[i] = s[i + 1], t[Len(t)] = e
  PROVE  t = Append(Tail(s), e)
OBVIOUS

\* Where the k-th oldest message is.
Place(base, k) == IF base + k - 1 < Slots THEN base + k - 1 ELSE base + k - 1 - Slots

\* Size and Oldest without and with an eviction in progress.
WindowInv ==
  /\ Size \in 0 .. Slots - 1 /\ Oldest \in Index
  /\ ~Evicting => Oldest = tail /\ Size = Used
  /\ Evicting => Oldest = Succ(head) /\ Size = Slots - 1 /\ dropped > 0

\* The queue the ring stands for, as a sequence.
QueuedInv ==
  /\ Queued \in Seq(Part) /\ Len(Queued) = Size
  /\ \A k \in 1 .. Size : Place(Oldest, k) \in Index /\ Queued[k] = text[Place(Oldest, k)]

\* What drain_log received, as a sequence.
DrainedInv ==
  /\ DrainedTexts \in Seq(Part)
  /\ Len(DrainedTexts) = Len(drained)
  /\ \A i \in 1 .. Len(drained) : DrainedTexts[i] = drained[i].text

LEMMA QueuedIs == TypeOK /\ WindowInv => QueuedInv
<1>. SUFFICES ASSUME TypeOK, WindowInv PROVE QueuedInv
  OBVIOUS
<1>. Size \in 0 .. Slots - 1 /\ Oldest \in Index
  BY DEF WindowInv
<1>. USE RingAssumption DEF Part
<1>1. ASSUME NEW k \in 1 .. Size
      PROVE  Place(Oldest, k) \in Index /\ Queued[k] = text[Place(Oldest, k)]
  <2>1. k - 1 \in Index
    BY DEF Index
  <2>2. (Oldest + (k - 1)) % Slots = IF Oldest + (k - 1) < Slots THEN Oldest + (k - 1) ELSE Oldest + (k - 1) - Slots
    BY <2>1, PlusIs
  <2>3. Place(Oldest, k) = (Oldest + (k - 1)) % Slots /\ Place(Oldest, k) \in Index
    BY <2>2 DEF Place, Index
  <2>. QED BY <2>3 DEF Queued
<1>2. \A k \in 1 .. Size : Queued[k] \in Part
  BY <1>1 DEF TypeOK
<1>3. Queued \in [1 .. Size -> Part]
  BY <1>2 DEF Queued
<1>4. Size \in Nat
  OBVIOUS
<1>. QED BY <1>1, <1>3, <1>4, FunctionIsSeq DEF QueuedInv

LEMMA Window == IInv => WindowInv
<1>. SUFFICES ASSUME IInv PROVE WindowInv
  OBVIOUS
<1>. USE RingAssumption DEF IInv, Part
<1>1. head \in 0 .. Slots - 1 /\ tail \in 0 .. Slots - 1
  BY DEF TypeOK, Index
<1>2. CASE ~Evicting
  <2>1. Oldest = tail /\ Size = Used /\ Used \in 0 .. Slots - 1 /\ tail \in Index
    BY <1>1, <1>2 DEF Size, Oldest, Used, Index
  <2>. QED BY <1>2, <2>1 DEF WindowInv
<1>3. CASE Evicting
  <2>1. Succ(Succ(head)) = tail /\ dropped > 0
    BY <1>3 DEF Evicting, WriterInv, EvictPlaces
  <2>2. Succ(head) \in 0 .. Slots - 1 /\ Succ(head) = IF head = Slots - 1 THEN 0 ELSE head + 1
    BY <1>1, SuccIs DEF Index
  <2>3. tail = IF Succ(head) = Slots - 1 THEN 0 ELSE Succ(head) + 1
    BY <2>1, <2>2, SuccIs DEF Index
  <2>4. (tail + (Slots - 1)) % Slots = IF tail = 0 THEN Slots - 1 ELSE tail - 1
    <3>1. tail \in Index /\ Slots - 1 \in Index
      BY <1>1 DEF Index
    <3>. QED BY <1>1, <3>1, PlusIs
  <2>5. Oldest = Succ(head)
    BY <1>1, <1>3, <2>2, <2>3, <2>4 DEF Oldest
  <2>6. Used = Slots - 2
    BY <1>1, <2>2, <2>3 DEF Used
  <2>7. Size = Slots - 1 /\ Slots - 1 \in 0 .. Slots - 1
    BY <1>3, <2>6 DEF Size
  <2>8. Oldest \in Index
    BY <2>2, <2>5 DEF Index
  <2>. QED BY <1>3, <2>1, <2>5, <2>7, <2>8 DEF WindowInv
<1>. QED BY <1>2, <1>3

LEMMA DrainedIs == TypeOK => DrainedInv
<1>. SUFFICES ASSUME TypeOK PROVE DrainedInv
  OBVIOUS
<1>1. \A i \in 1 .. Len(drained) : drained[i] \in Entry
  BY DEF TypeOK
<1>2. DrainedTexts \in [1 .. Len(drained) -> Part]
  BY <1>1 DEF DrainedTexts, Entry
<1>3. Len(drained) \in Nat
  BY DEF TypeOK
<1>. QED BY <1>2, <1>3, FunctionIsSeq DEF DrainedTexts, DrainedInv

\* Every reachable state can be viewed as a queue.
View == WindowInv /\ QueuedInv /\ DrainedInv

LEMMA InvariantGivesView == IInv => View
BY Window, QueuedIs, DrainedIs DEF IInv, View

\* The ring starts as an empty queue.
LEMMA InitImplements == Init => Promise!Init
<1>. SUFFICES ASSUME Init PROVE Promise!Init
  OBVIOUS
<1>1. IInv
  BY InitInvariant
<1>2. ~Evicting
  BY DEF Init, Evicting, Threads
<1>3. Size = 0 /\ CountedDrops = 0
  BY <1>2 DEF Init, Size, Used, CountedDrops
<1>4. Queued = <<>>
  BY <1>1, <1>3, InvariantGivesView DEF View, QueuedInv
<1>5. DrainedTexts = <<>>
  BY <1>1, InvariantGivesView DEF Init, View, DrainedInv
<1>. QED BY <1>3, <1>4, <1>5 DEF Promise!Init
\* A step that moves neither the text of the queue, its ends, nor the history is
\* no step of the queue.
LEMMA QueueUnmoved ==
  ASSUME UNCHANGED <<text, head, tail, dropped, drained>>, Evicting' <=> Evicting
  PROVE  UNCHANGED Promise!vars
<1>1. Oldest' = Oldest /\ Size' = Size
  BY DEF Oldest, Size, Used
<1>2. Queued' = Queued
  BY <1>1 DEF Queued
<1>. QED BY <1>2 DEF Promise!vars, DrainedTexts, CountedDrops

\* Every step of a thread is a Log, a Drain or no step of the queue.
LEMMA StepImplements == IInv /\ IInv' /\ [Next]_vars => [Promise!Next]_(Promise!vars)
<1>. SUFFICES ASSUME IInv, IInv', View, View', [Next]_vars
              PROVE  Promise!Next \/ UNCHANGED Promise!vars
  BY InvariantGivesView, PTL
<1>. USE RingAssumption DEF Part
<1>. Loggers \subseteq Threads /\ Drainers \subseteq Threads
  BY DEF Threads
<1>0. TypeOK /\ LockInv /\ WriterInv /\ ReaderInv /\ TypeOK' /\ LockInv'
  BY DEF IInv
<1>00. WindowInv /\ QueuedInv /\ DrainedInv /\ WindowInv' /\ QueuedInv' /\ DrainedInv'
  BY DEF View
<1>1. ASSUME NEW t \in Loggers, Call(t) \/ Enter(t) \/ WriteLevel(t) \/ WriteLength(t) \/ Leave(t)
      PROVE  UNCHANGED Promise!vars
  <2>1. UNCHANGED <<text, head, tail, dropped, drained>>
    BY <1>1 DEF Call, Enter, WriteLevel, WriteLength, Leave, ring
  <2>2. Evicting' <=> Evicting
    BY <1>0, <1>1 DEF Call, Enter, WriteLevel, WriteLength, Leave, Goto, Acquire, Release, Evicting, TypeOK
  <2>. QED BY <2>1, <2>2, QueueUnmoved
<1>2. ASSUME NEW t \in Drainers,
             \/ BeginDrain(t) \/ EnterTake(t) \/ LeaveTake(t) \/ TakeNothing(t)
             \/ CopyLength(t) \/ CopyText(t) \/ CopyLevel(t)
      PROVE  UNCHANGED Promise!vars
  <2>1. UNCHANGED <<text, head, tail, dropped, drained>>
    BY <1>2 DEF BeginDrain, EnterTake, CopyLength, CopyText, CopyLevel, LeaveTake, TakeNothing, ring
  <2>2. Evicting' <=> Evicting
    BY <1>0, <1>2 DEF BeginDrain, EnterTake, CopyLength, CopyText, CopyLevel, LeaveTake, TakeNothing, Goto, Acquire,
       Release, Evicting, TypeOK
  <2>. QED BY <2>1, <2>2, QueueUnmoved
<1>3. ASSUME NEW t \in Loggers, MakeRoom(t) PROVE UNCHANGED Promise!vars
  <2>1. /\ pc[t] = "room" /\ lock = t /\ lock' = lock
        /\ UNCHANGED <<text, head, drained>>
        /\ pc' = [pc EXCEPT ![t] = IF Full THEN "level_evicted" ELSE "level"]
    BY <1>0, <1>3 DEF MakeRoom, Goto, LockInv
  <2>2. ~Evicting
    BY <1>0, <2>1 DEF Evicting, LockInv
  <2>3. CASE ~Full
    <3>1. ~Evicting' /\ UNCHANGED <<tail, dropped>>
      BY <1>0, <1>3, <2>1, <2>2, <2>3 DEF Evicting, TypeOK, MakeRoom
    <3>2. UNCHANGED <<text, head, tail, dropped, drained>> /\ (Evicting' <=> Evicting)
      BY <2>1, <2>2, <3>1
    <3>. QED BY <3>2, QueueUnmoved
  <2>4. CASE Full
    <3>1. Evicting' /\ tail' = Succ(tail) /\ dropped' = dropped + 1 /\ dropped \in Nat
      BY <1>0, <1>3, <2>1, <2>4 DEF Evicting, TypeOK, MakeRoom
    <3>2. Oldest' = Succ(head)
      BY <2>1, <3>1, <1>00 DEF WindowInv, Succ
    <3>3. Oldest = Succ(head)
      BY <2>2, <2>4, <1>00 DEF WindowInv, Full
    <3>4. Size' = Slots - 1
      BY <3>1, <1>00 DEF WindowInv
    <3>5. Size = Slots - 1
      <4>1. head \in 0 .. Slots - 1 /\ tail = IF head = Slots - 1 THEN 0 ELSE head + 1
        BY <1>0, <2>4, SuccIs DEF Full, Index, TypeOK
      <4>2. Size = Used
        BY <2>2, <1>00 DEF WindowInv
      <4>. QED BY <4>1, <4>2 DEF Used
    <3>6. Queued' = Queued
      BY <2>1, <3>2, <3>3, <3>4, <3>5 DEF Queued
    <3>7. CountedDrops' = CountedDrops
      BY <2>2, <3>1 DEF CountedDrops
    <3>. QED BY <2>1, <3>6, <3>7 DEF Promise!vars, DrainedTexts
  <2>. QED BY <2>3, <2>4
<1>4. ASSUME NEW t \in Loggers, WriteText(t) PROVE UNCHANGED Promise!vars
  <2>1. /\ pc[t] \in {"text", "text_evicted"}
        /\ text' = [text EXCEPT ![head] = msg[t]]
        /\ UNCHANGED <<head, tail, dropped, drained>>
    BY <1>4 DEF WriteText
  <2>2. Evicting' <=> Evicting
    BY <1>0, <1>4 DEF WriteText, Goto, Evicting, TypeOK
  <2>3. Oldest' = Oldest /\ Size' = Size
    BY <2>1, <2>2 DEF Oldest, Size, Used
  <2>4. head \in 0 .. Slots - 1 /\ tail \in 0 .. Slots - 1
    BY <1>0 DEF TypeOK, Index
  <2>5. \A k \in 1 .. Size : Place(Oldest, k) # head
    <3>1. CASE Evicting
      <4>1. Oldest = (IF head = Slots - 1 THEN 0 ELSE head + 1) /\ Size = Slots - 1
        BY <3>1, <2>4, <1>00, SuccIs DEF WindowInv, Index
      <4>. QED BY <4>1, <2>4 DEF Place
    <3>2. CASE ~Evicting
      <4>1. Oldest = tail /\ Size = IF head >= tail THEN head - tail ELSE head - tail + Slots
        BY <3>2, <1>00 DEF WindowInv, Used
      <4>. QED BY <4>1, <2>4 DEF Place
    <3>. QED BY <3>1, <3>2
  <2>6. /\ Queued \in Seq(Part) /\ Len(Queued) = Size
        /\ \A k \in 1 .. Size : Place(Oldest, k) \in Index /\ Queued[k] = text[Place(Oldest, k)]
    BY <1>00 DEF QueuedInv
  <2>7. /\ Queued' \in Seq(Part) /\ Len(Queued') = Size
        /\ \A k \in 1 .. Size : Queued'[k] = text'[Place(Oldest, k)]
    <3>1. /\ Queued' \in Seq(Part) /\ Len(Queued') = Size'
          /\ \A k \in 1 .. Size' : Place(Oldest, k)' \in Index /\ Queued'[k] = text'[Place(Oldest, k)']
      BY <1>00 DEF QueuedInv
    <3>. QED BY <2>3, <3>1 DEF Place
  <2>8. \A k \in 1 .. Size : text'[Place(Oldest, k)] = text[Place(Oldest, k)]
    BY <1>0, <2>1, <2>5, <2>6 DEF TypeOK
  <2>9. Queued' = Queued
    BY <2>6, <2>7, <2>8
  <2>. QED BY <2>1, <2>2, <2>9 DEF Promise!vars, DrainedTexts, CountedDrops
<1>5. ASSUME NEW t \in Loggers, Publish(t) PROVE Promise!Next
  <2>1. /\ pc[t] \in {"publish", "publish_evicted"} /\ lock = t
        /\ head' = Succ(head)
        /\ pc' = [pc EXCEPT ![t] = "leave"]
        /\ UNCHANGED <<text, tail, dropped, drained>>
    BY <1>0, <1>5 DEF Publish, Goto, LockInv
  <2>2. ~Evicting'
    BY <1>0, <2>1 DEF Evicting, LockInv, TypeOK
  <2>3. Evicting <=> pc[t] = "publish_evicted"
    BY <1>0, <2>1 DEF Evicting, LockInv
  <2>4. /\ head \in 0 .. Slots - 1 /\ tail \in 0 .. Slots - 1
        /\ head' = IF head = Slots - 1 THEN 0 ELSE head + 1
        /\ head' # tail /\ dropped \in Nat
        /\ msg[t] \in Messages /\ text[head] = msg[t]
    BY <1>0, <2>1, SuccIs DEF TypeOK, Index, WriterInv, WritePlaces
  <2>5. Used' = Used + 1 /\ Used \in 0 .. Slots - 2
    BY <2>1, <2>4 DEF Used
  <2>6. /\ Queued' \in Seq(Part) /\ Len(Queued') = Used + 1
        /\ \A k \in 1 .. Used + 1 : Queued'[k] = text[Place(tail, k)]
    <3>1. Oldest' = tail /\ Size' = Used + 1
      BY <1>00, <2>1, <2>2, <2>5 DEF WindowInv
    <3>. QED BY <1>00, <2>1, <3>1 DEF QueuedInv, Place
  <2>7. Place(tail, Used + 1) = head
    BY <2>4 DEF Place, Used
  <2>8. Queued \in Seq(Part) /\ Len(Queued) = Size
    BY <1>00 DEF QueuedInv
  <2>9. Queued'[Len(Queued')] = msg[t]
    BY <2>4, <2>5, <2>6, <2>7
  <2>10. CASE ~Evicting
    <3>1. Oldest = tail /\ Size = Used
      BY <1>00, <2>10 DEF WindowInv
    <3>2. \A k \in 1 .. Len(Queued) : Queued[k] = text[Place(tail, k)]
      BY <1>00, <2>8, <3>1 DEF QueuedInv
    <3>3. \A k \in 1 .. Len(Queued) : Queued'[k] = Queued[k]
      BY <2>5, <2>6, <2>8, <3>1, <3>2
    <3>4. Queued' = Append(Queued, msg[t])
      BY <2>4, <2>6, <2>8, <2>9, <3>1, <3>3, IsAppend
    <3>5. Len(Queued) < Slots - 1
      BY <2>5, <2>8, <3>1
    <3>6. CountedDrops' = CountedDrops
      BY <2>1, <2>2, <2>10 DEF CountedDrops
    <3>. QED BY <2>1, <2>4, <3>4, <3>5, <3>6 DEF Promise!Next, Promise!Log, DrainedTexts
  <2>11. CASE Evicting
    <3>1. Oldest = Succ(head) /\ Size = Slots - 1 /\ Succ(Succ(head)) = tail
      BY <1>0, <1>00, <2>1, <2>3, <2>11 DEF WindowInv, WriterInv, EvictPlaces
    <3>2. tail = IF Oldest = Slots - 1 THEN 0 ELSE Oldest + 1
      <4>1. Succ(head) \in Index
        BY <2>4, SuccIs DEF Index
      <4>. QED BY <3>1, <4>1, SuccIs
    <3>3. Used = Slots - 2 /\ Oldest \in 0 .. Slots - 1
      BY <1>00, <2>1, <2>4, <3>1, <3>2 DEF Used, Index, WindowInv
    <3>4. \A k \in 1 .. Slots - 2 : Place(tail, k) = Place(Oldest, k + 1)
      BY <2>4, <3>2, <3>3 DEF Place
    <3>5. \A k \in 1 .. Slots - 2 : Queued[k + 1] = text[Place(Oldest, k + 1)]
      BY <1>00, <3>1 DEF QueuedInv
    <3>6. \A k \in 1 .. Len(Queued) - 1 : Queued'[k] = Queued[k + 1]
      BY <2>6, <2>8, <3>1, <3>3, <3>4, <3>5
    <3>7. Queued # <<>> /\ Len(Queued') = Len(Queued) /\ ~(Len(Queued) < Slots - 1)
      BY <2>6, <2>8, <3>1, <3>3
    <3>8. Queued' = Append(Tail(Queued), msg[t])
      BY <2>4, <2>6, <2>8, <2>9, <3>6, <3>7, IsTailAppend
    <3>9. CountedDrops' = CountedDrops + 1
      BY <2>1, <2>2, <2>4, <2>11 DEF CountedDrops
    <3>. QED BY <2>1, <2>4, <3>7, <3>8, <3>9 DEF Promise!Next, Promise!Log, DrainedTexts
  <2>. QED BY <2>10, <2>11
<1>6. ASSUME NEW t \in Drainers, Advance(t) PROVE Promise!Next
  <2>1. /\ pc[t] = "advance" /\ lock = t
        /\ tail' = Succ(tail)
        /\ drained' = Append(drained, copied[t])
        /\ pc' = [pc EXCEPT ![t] = "leave"]
        /\ UNCHANGED <<text, head, dropped>>
    BY <1>0, <1>6 DEF Advance, Goto, LockInv
  <2>2. ~Evicting /\ ~Evicting'
    BY <1>0, <2>1 DEF Evicting, LockInv, TypeOK
  <2>3. /\ head \in 0 .. Slots - 1 /\ tail \in 0 .. Slots - 1 /\ tail # head
        /\ tail' = IF tail = Slots - 1 THEN 0 ELSE tail + 1
        /\ copied[t] \in Entry /\ copied[t].text = text[tail]
    BY <1>0, <2>1, SuccIs DEF TypeOK, Index, ReaderInv
  <2>4. Used' = Used - 1 /\ Used \in 1 .. Slots - 1
    BY <2>1, <2>3 DEF Used
  <2>5. /\ Oldest = tail /\ Size = Used /\ Oldest' = tail' /\ Size' = Used - 1
    BY <1>00, <2>2, <2>4 DEF WindowInv
  <2>6. /\ Queued \in Seq(Part) /\ Len(Queued) = Used
        /\ \A k \in 1 .. Used : Queued[k] = text[Place(tail, k)]
    BY <1>00, <2>5 DEF QueuedInv
  <2>7. /\ Queued' \in Seq(Part) /\ Len(Queued') = Used - 1
        /\ \A k \in 1 .. Used - 1 : Queued'[k] = text[Place(tail', k)]
    BY <1>00, <2>1, <2>5 DEF QueuedInv, Place
  <2>8. \A k \in 1 .. Used - 1 : Place(tail', k) = Place(tail, k + 1)
    BY <2>3, <2>4 DEF Place
  <2>9. Queued # <<>> /\ Queued' = Tail(Queued)
    BY <2>4, <2>6, <2>7, <2>8, IsTail
  <2>10. Place(tail, 1) = tail
    BY <2>3 DEF Place
  <2>11. Head(Queued) = copied[t].text
    BY <2>3, <2>4, <2>6, <2>10
  <2>12. DrainedTexts' = Append(DrainedTexts, copied[t].text)
    <3>1. Len(drained') = Len(drained) + 1 /\ Len(drained) \in Nat
          /\ drained'[Len(drained) + 1] = copied[t]
          /\ \A i \in 1 .. Len(drained) : drained'[i] = drained[i]
      BY <1>0, <2>1, <2>3 DEF TypeOK
    <3>2. copied[t].text \in Part
      BY <2>3 DEF Entry
    <3>. QED BY <1>00, <3>1, <3>2, IsAppend DEF DrainedInv
  <2>13. CountedDrops' = CountedDrops
    BY <2>1, <2>2 DEF CountedDrops
  <2>. QED BY <2>9, <2>11, <2>12, <2>13 DEF Promise!Next, Promise!Drain
<1>7. CASE UNCHANGED vars
  <2>1. UNCHANGED <<text, head, tail, dropped, drained>> /\ (Evicting' <=> Evicting)
    BY <1>7 DEF vars, Evicting
  <2>. QED BY <2>1, QueueUnmoved
<1>. QED
  BY <1>1, <1>2, <1>3, <1>4, <1>5, <1>6, <1>7 DEF Next, LogStep, DrainStep

\* The ring, its mutex and drain_log are a bounded queue that drops its oldest
\* message when full: for every number of threads and every ring size.
THEOREM RingIsQueue == Spec => ImplementsLogQueue
<1>. QED BY InitImplements, StepImplements, SpecInvariant, PTL
     DEF Spec, ImplementsLogQueue, Promise!Spec
=============================================================================
