------------------------- MODULE AsyncRequestsProofs -------------------------
(***************************************************************************)
(* Proofs about AsyncRequests for every set of requests, every kind of      *)
(* request, any heap, either target, any wait bound and a wgpu that may or  *)
(* may not lose callbacks.                                                  *)
(***************************************************************************)
EXTENDS AsyncRequests, TLAPS

\* The slot of r as its caller sees it.
OwnSlot(r) ==
  /\ slot[r] \in Addrs
  /\ slot[r] = userdata[r]
  /\ alloc[slot[r]] = r
  /\ writer[slot[r]] = IF cb[r] = "fired" THEN r ELSE Nil

\* What ties a request, its slot and the address wgpu holds together.  The
\* safety properties are about a callback that has not run and a caller that
\* has an answer; this adds what the two of them see of each other.
SlotInv ==
  \A r \in Requests :
    /\ pc[r] = "idle" <=> cb[r] = "none"
    /\ pc[r] \in {"held", "sync"} => OwnSlot(r)
    /\ cb[r] = "resolved" => Target = "web"

\* The thread blocks only natively, on a request whose slot somebody holds; and
\* a request with a device has its callback behind it, or lost, after one pump.
BlockedInv ==
  blocked # Nil =>
    /\ Target = "native"
    /\ pc[blocked] \in {"held", "sync"}
    /\ DeviceBound(blocked) /\ pumps < MaxPumps => cb[blocked] \in {"fired", "lost"}
    /\ DeviceBound(blocked) /\ pumps = 0 => cb[blocked] = "lost"

\* Where the native references of a request are: nowhere before its callback,
\* with the result until it is taken or returned, with the caller and the objects
\* take() built after.
RefInv ==
  \A r \in Requests :
    /\ outcome[r] \in Outcomes(r)
    /\ cb[r] # "fired" => refs[r] = 0
    /\ cb[r] = "fired" /\ answer[r] = Nil => refs[r] = IF outcome[r].owned THEN 1 ELSE 0
    /\ answer[r] # Nil => wrappers[r] <= refs[r]
    /\ answer[r] = Nil \/ DeviceBound(r) => wrappers[r] = 0

IInv ==
  /\ TypeOK
  /\ CallbackHitsOwnSlot
  /\ SlotInv
  /\ AnswerIsOwn
  /\ BlockedInv
  /\ RefInv
  /\ DeviceWaitExpiresOnlyIfLost

-----------------------------------------------------------------------------
(* Running callbacks *)

Unrun(S) == \A r \in S : cb[r] \in {"inflight", "resolved"}

\* Callbacks that have not run yet each complete their own slot and touch no
\* other cell of the heap.
LEMMA CallbacksWriteOwnSlots ==
  ASSUME TypeOK, CallbackHitsOwnSlot, NEW S \in SUBSET Requests, Unrun(S)
  PROVE  /\ \A r \in S : Written(S)[userdata[r]] = r
         /\ \A a \in Addrs : (\A r \in S : userdata[r] # a) => Written(S)[a] = writer[a]
         /\ Written(S) \in [Addrs -> Requests \cup {Nil}]
<1>1. \A r \in S : userdata[r] \in Addrs /\ alloc[userdata[r]] = r
  BY DEF CallbackHitsOwnSlot, Unrun
<1>2. \A r, q \in S : userdata[q] = userdata[r] => q = r
  BY <1>1
<1>3. ASSUME NEW r \in S
      PROVE  Written(S)[userdata[r]] = r
  <2>1. (CHOOSE q \in S : userdata[q] = userdata[r]) = r
    BY <1>2
  <2>. QED BY <1>1, <2>1 DEF Written
<1>4. ASSUME NEW a \in Addrs, \A r \in S : userdata[r] # a
      PROVE  Written(S)[a] = writer[a]
  BY <1>4 DEF Written
<1>5. ASSUME NEW a \in Addrs
      PROVE  Written(S)[a] \in Requests \cup {Nil}
  <2>1. CASE \E r \in S : userdata[r] = a
    BY <2>1, <1>3
  <2>2. CASE \A r \in S : userdata[r] # a
    BY <2>2, <1>4 DEF TypeOK
  <2>. QED BY <2>1, <2>2
<1>6. Written(S) = [a \in Addrs |-> Written(S)[a]]
  BY DEF Written
<1>. QED BY <1>3, <1>4, <1>5, <1>6

\* Running callbacks that have not run, with the callers standing still,
\* preserves everything but what a blocking wait counts on.
LEMMA CallbacksPreserve ==
  ASSUME IInv, NEW S \in SUBSET Requests, Unrun(S), RunCallbacks(S),
         UNCHANGED <<alloc, userdata, outcome, pc, slot, blocked, expired, answer, wrappers>>,
         pumps' \in 0 .. MaxPumps
  PROVE  /\ TypeOK' /\ CallbackHitsOwnSlot' /\ SlotInv' /\ AnswerIsOwn' /\ RefInv'
         /\ DeviceWaitExpiresOnlyIfLost'
<1>1. /\ \A r \in S : writer'[userdata[r]] = r
      /\ \A a \in Addrs : (\A r \in S : userdata[r] # a) => writer'[a] = writer[a]
      /\ writer' \in [Addrs -> Requests \cup {Nil}]
  BY CallbacksWriteOwnSlots DEF RunCallbacks, IInv
<1>2. \A r \in S : userdata[r] \in Addrs /\ alloc[userdata[r]] = r
  BY DEF IInv, CallbackHitsOwnSlot, Unrun
<1>3. ASSUME NEW r \in Requests, userdata[r] \in Addrs, alloc[userdata[r]] = r, r \notin S
      PROVE  writer'[userdata[r]] = writer[userdata[r]]
  BY <1>1, <1>2, <1>3
<1>4. \A r \in Requests : cb'[r] = IF r \in S THEN "fired" ELSE cb[r]
  BY DEF RunCallbacks
<1>5. TypeOK'
  BY <1>1 DEF RunCallbacks, TypeOK, IInv
<1>6. CallbackHitsOwnSlot'
  BY <1>3, <1>4 DEF CallbackHitsOwnSlot, IInv
<1>7. SlotInv'
  <2> SUFFICES ASSUME NEW r \in Requests
               PROVE  /\ pc[r] = "idle" <=> cb'[r] = "none"
                      /\ pc[r] \in {"held", "sync"} => OwnSlot(r)'
                      /\ cb'[r] = "resolved" => Target = "web"
    BY DEF SlotInv
  <2>1. CASE r \in S
    BY <2>1, <1>1, <1>4 DEF SlotInv, OwnSlot, Unrun, IInv
  <2>2. CASE r \notin S
    BY <2>2, <1>3, <1>4 DEF SlotInv, OwnSlot, IInv
  <2>. QED BY <2>1, <2>2
<1>8. AnswerIsOwn'
  BY <1>4 DEF AnswerIsOwn, IInv
<1>9. RefInv'
  <2> SUFFICES ASSUME NEW r \in Requests
               PROVE  /\ cb'[r] # "fired" => refs'[r] = 0
                      /\ cb'[r] = "fired" /\ answer[r] = Nil =>
                           refs'[r] = IF outcome[r].owned THEN 1 ELSE 0
                      /\ answer[r] # Nil => wrappers[r] <= refs'[r]
    BY DEF RefInv, IInv
  <2>1. refs'[r] = IF r \in S /\ outcome[r].owned THEN refs[r] + 1 ELSE refs[r]
    BY DEF RunCallbacks
  <2>2. CASE r \in S
    BY <2>1, <2>2, <1>4 DEF RefInv, AnswerIsOwn, Unrun, IInv
  <2>3. CASE r \notin S
    BY <2>1, <2>3, <1>4 DEF RefInv, IInv
  <2>. QED BY <2>2, <2>3
<1>10. DeviceWaitExpiresOnlyIfLost'
  BY <1>4 DEF DeviceWaitExpiresOnlyIfLost, Unrun, TypeOK, IInv
<1>. QED BY <1>5, <1>6, <1>7, <1>8, <1>9, <1>10

\* One pump runs only callbacks that have not run, and a waiting pump of a device
\* leaves none of the device's callbacks in flight.
LEMMA PumpRunsCallbacks ==
  ASSUME TypeOK, NEW r \in Requests, NEW wait \in BOOLEAN, Pump(r, wait)
  PROVE  \E S \in SUBSET Requests :
           /\ Unrun(S)
           /\ RunCallbacks(S)
           /\ Target = "native" /\ wait /\ DeviceBound(r) /\ cb[r] = "inflight" => r \in S
<1>1. PICK S \in (SUBSET InFlight) \cup {Resolved} :
        /\ Target = "web" => S = Resolved
        /\ Target = "native" =>
             /\ S \subseteq InFlight
             /\ wait /\ DeviceBound(r) => {q \in InFlight : DeviceBound(q)} \subseteq S
        /\ RunCallbacks(S)
  BY DEF Pump
<1>2. S \in SUBSET Requests /\ Unrun(S)
  BY DEF InFlight, Resolved, Unrun
<1>3. Target = "native" /\ wait /\ DeviceBound(r) /\ cb[r] = "inflight" => r \in S
  BY <1>1 DEF InFlight
<1>. QED BY <1>1, <1>2, <1>3

-----------------------------------------------------------------------------
(* Allocating and freeing *)

\* A request that starts in a free cell disturbs no other request.
LEMMA StartPreserves ==
  ASSUME IInv, NEW r \in Requests, NEW a \in Addrs,
         pc[r] = "idle", StartSlot(r, a), blocked = Nil,
         NEW p \in {"held", "sync"}, pc' = [pc EXCEPT ![r] = p],
         blocked' \in Requests \cup {Nil}, pumps' \in 0 .. MaxPumps,
         UNCHANGED <<expired, answer, wrappers>>
  PROVE  /\ TypeOK' /\ CallbackHitsOwnSlot' /\ SlotInv' /\ AnswerIsOwn' /\ RefInv'
         /\ DeviceWaitExpiresOnlyIfLost'
<1>. USE RequestsAssumption
<1>1. PICK o \in Outcomes(r) :
        /\ outcome' = [outcome EXCEPT ![r] = o]
        /\ \/ /\ writer' = [writer EXCEPT ![a] = Nil]
              /\ cb'     = [cb EXCEPT ![r] = "inflight"]
              /\ UNCHANGED refs
           \/ /\ Target = "native"
              /\ writer' = [writer EXCEPT ![a] = r]
              /\ cb'     = [cb EXCEPT ![r] = "fired"]
              /\ refs'   = [refs EXCEPT ![r] = IF o.owned THEN @ + 1 ELSE @]
  BY DEF StartSlot
<1>2. /\ alloc[a] = Nil
      /\ alloc' = [alloc EXCEPT ![a] = r]
      /\ userdata' = [userdata EXCEPT ![r] = a]
      /\ slot' = [slot EXCEPT ![r] = a]
  BY DEF StartSlot
<1>3. cb[r] = "none" /\ answer[r] = Nil
  BY DEF IInv, SlotInv, AnswerIsOwn, TypeOK
<1>4. o \in [ok : BOOLEAN, owned : BOOLEAN]
  BY DEF Outcomes
<1>5. TypeOK'
  <2>1. /\ alloc' \in [Addrs -> Requests \cup {Nil}]
        /\ userdata' \in [Requests -> Addrs \cup {Nil}]
        /\ slot' \in [Requests -> Addrs \cup {Nil}]
    BY <1>2 DEF TypeOK, IInv
  <2>2. writer' \in [Addrs -> Requests \cup {Nil}]
    <3>1. writer' = [writer EXCEPT ![a] = Nil] \/ writer' = [writer EXCEPT ![a] = r]
      BY <1>1
    <3>. QED BY <3>1 DEF TypeOK, IInv
  <2>6. cb' \in [Requests -> {"none", "inflight", "resolved", "fired", "lost"}]
    <3>1. cb' = [cb EXCEPT ![r] = "inflight"] \/ cb' = [cb EXCEPT ![r] = "fired"]
      BY <1>1
    <3>. QED BY <3>1 DEF TypeOK, IInv
  <2>5. refs' \in [Requests -> Int]
    <3>1. refs \in [Requests -> Int] /\ refs[r] + 1 \in Int
      BY DEF TypeOK, IInv
    <3>2. refs' = refs \/ refs' = [refs EXCEPT ![r] = refs[r] + 1]
      BY <1>1, <3>1
    <3>. QED BY <3>1, <3>2
  <2>3. outcome' \in [Requests -> [ok : BOOLEAN, owned : BOOLEAN]]
    BY <1>1, <1>4 DEF TypeOK, IInv
  <2>4. pc' \in [Requests -> {"idle", "held", "sync", "gone"}]
    BY DEF TypeOK, IInv
  <2>. QED BY <2>1, <2>2, <2>3, <2>4, <2>5, <2>6 DEF TypeOK, IInv
<1>6. CallbackHitsOwnSlot'
  BY <1>1, <1>2 DEF CallbackHitsOwnSlot, TypeOK, IInv
<1>7. SlotInv'
  <2> SUFFICES ASSUME NEW q \in Requests
               PROVE  /\ pc'[q] = "idle" <=> cb'[q] = "none"
                      /\ pc'[q] \in {"held", "sync"} => OwnSlot(q)'
                      /\ cb'[q] = "resolved" => Target = "web"
    BY DEF SlotInv
  <2>1. CASE q = r
    BY <2>1, <1>1, <1>2 DEF OwnSlot, TypeOK, IInv
  <2>2. CASE q # r
    BY <2>2, <1>1, <1>2 DEF SlotInv, OwnSlot, TypeOK, IInv
  <2>. QED BY <2>1, <2>2
<1>8. AnswerIsOwn'
  BY <1>1, <1>3 DEF AnswerIsOwn, TypeOK, IInv
<1>9. RefInv'
  BY <1>1, <1>3 DEF RefInv, TypeOK, IInv
<1>10. DeviceWaitExpiresOnlyIfLost'
  BY <1>1, <1>3 DEF DeviceWaitExpiresOnlyIfLost, TypeOK, IInv
<1>. QED BY <1>5, <1>6, <1>7, <1>8, <1>9, <1>10
\* A done slot is its caller's alone: freeing it disturbs no other request.
LEMMA FreePreserves ==
  ASSUME IInv, NEW r \in Requests, pc[r] \in {"held", "sync"}, Done(r),
         Free(slot[r]), pc' = [pc EXCEPT ![r] = "gone"],
         UNCHANGED <<userdata, cb, slot>>
  PROVE  /\ cb[r] = "fired"
         /\ writer[slot[r]] = r
         /\ alloc' \in [Addrs -> Requests \cup {Nil}]
         /\ writer' \in [Addrs -> Requests \cup {Nil}]
         /\ pc' \in [Requests -> {"idle", "held", "sync", "gone"}]
         /\ CallbackHitsOwnSlot' /\ SlotInv'
<1>. USE RequestsAssumption
<1>1. slot[r] \in Addrs /\ alloc[slot[r]] = r
  BY DEF IInv, SlotInv, OwnSlot
<1>2. cb[r] = "fired" /\ writer[slot[r]] = r
  BY DEF IInv, SlotInv, OwnSlot, Done
<1>3. \A a \in Addrs : a # slot[r] => alloc'[a] = alloc[a] /\ writer'[a] = writer[a]
  BY DEF Free, IInv, TypeOK
<1>4. CallbackHitsOwnSlot'
  BY <1>1, <1>2, <1>3 DEF CallbackHitsOwnSlot, IInv
<1>5. SlotInv'
  <2> SUFFICES ASSUME NEW q \in Requests
               PROVE  /\ pc'[q] = "idle" <=> cb[q] = "none"
                      /\ pc'[q] \in {"held", "sync"} => OwnSlot(q)'
                      /\ cb[q] = "resolved" => Target = "web"
    BY DEF SlotInv
  <2>1. CASE q = r
    BY <2>1, <1>2 DEF IInv, TypeOK
  <2>2. CASE q # r
    BY <2>2, <1>1, <1>3 DEF SlotInv, OwnSlot, IInv, TypeOK
  <2>. QED BY <2>1, <2>2
<1>. QED BY <1>2, <1>4, <1>5 DEF Free, IInv, TypeOK

-----------------------------------------------------------------------------
(* The inductive invariant *)

LEMMA InitInvariant == Init => IInv
<1>. USE RequestsAssumption
<1>1. ASSUME Init PROVE TypeOK
  BY <1>1 DEF Init, TypeOK, NoReply
<1>2. ASSUME Init, NEW r \in Requests PROVE outcome[r] \in Outcomes(r)
  BY <1>2 DEF Init, NoReply, Outcomes
<1>. QED BY <1>1, <1>2 DEF Init, IInv, CallbackHitsOwnSlot, SlotInv, AnswerIsOwn,
            BlockedInv, RefInv, DeviceWaitExpiresOnlyIfLost

LEMMA NextInvariant == IInv /\ [Next]_vars => IInv'
<1>. SUFFICES ASSUME IInv, [Next]_vars PROVE IInv'
  OBVIOUS
<1>. USE RequestsAssumption
<1>1. ASSUME NEW r \in Requests, NEW a \in Addrs, Start(r, a) PROVE IInv'
  <2>1. /\ pc' = [pc EXCEPT ![r] = "held"]
        /\ pc[r] = "idle" /\ StartSlot(r, a) /\ blocked = Nil
        /\ UNCHANGED <<blocked, pumps, expired, answer, wrappers>>
    BY <1>1 DEF Start
  <2>2. /\ TypeOK' /\ CallbackHitsOwnSlot' /\ SlotInv' /\ AnswerIsOwn' /\ RefInv'
        /\ DeviceWaitExpiresOnlyIfLost'
    BY <2>1, StartPreserves DEF IInv, TypeOK
  <2>3. BlockedInv'
    BY <2>1 DEF BlockedInv
  <2>. QED BY <2>2, <2>3 DEF IInv
<1>2. ASSUME NEW r \in Requests, NEW a \in Addrs, StartSync(r, a) PROVE IInv'
  <2>1. /\ pc' = [pc EXCEPT ![r] = "sync"]
        /\ Target = "native"
        /\ pc[r] = "idle" /\ StartSlot(r, a) /\ blocked = Nil
        /\ blocked' = r /\ pumps' = MaxPumps
        /\ UNCHANGED <<expired, answer, wrappers>>
    BY <1>2 DEF StartSync
  <2>4. blocked' \in Requests \cup {Nil} /\ pumps' \in 0 .. MaxPumps
    BY <2>1
  <2>2. /\ TypeOK' /\ CallbackHitsOwnSlot' /\ SlotInv' /\ AnswerIsOwn' /\ RefInv'
        /\ DeviceWaitExpiresOnlyIfLost'
    BY <2>1, <2>4, StartPreserves
  <2>3. BlockedInv'
    BY <2>1 DEF BlockedInv, IInv, TypeOK
  <2>. QED BY <2>2, <2>3 DEF IInv
<1>3. ASSUME NEW r \in Requests, Fire(r) PROVE IInv'
  <2>1. /\ RunCallbacks({r}) /\ Unrun({r})
        /\ UNCHANGED <<alloc, userdata, outcome, callers>>
    BY <1>3 DEF Fire, InFlight, Unrun
  <2>2. /\ TypeOK' /\ CallbackHitsOwnSlot' /\ SlotInv' /\ AnswerIsOwn' /\ RefInv'
        /\ DeviceWaitExpiresOnlyIfLost'
    BY <2>1, CallbacksPreserve DEF callers, IInv, TypeOK
  <2>3. \A q \in Requests : cb[q] \in {"fired", "lost"} => cb'[q] = cb[q]
    BY <2>1 DEF RunCallbacks, Unrun
  <2>4. BlockedInv'
    BY <2>1, <2>3 DEF BlockedInv, callers, IInv, TypeOK
  <2>. QED BY <2>2, <2>4 DEF IInv
<1>4. ASSUME NEW r \in Requests, Settle(r) PROVE IInv'
  BY <1>4 DEF Settle, InFlight, heap, callers, IInv, TypeOK, CallbackHitsOwnSlot, SlotInv,
     OwnSlot, AnswerIsOwn, BlockedInv, RefInv, DeviceWaitExpiresOnlyIfLost
<1>5. ASSUME NEW r \in Requests, Lose(r) PROVE IInv'
  BY <1>5 DEF Lose, InFlight, heap, callers, IInv, TypeOK, CallbackHitsOwnSlot, SlotInv,
     OwnSlot, AnswerIsOwn, BlockedInv, RefInv, DeviceWaitExpiresOnlyIfLost
<1>6. ASSUME NEW r \in Requests, Poll(r) PROVE IInv'
  <2>1. PICK S \in SUBSET Requests : Unrun(S) /\ RunCallbacks(S)
    BY <1>6, PumpRunsCallbacks DEF Poll, IInv
  <2>2. UNCHANGED <<alloc, userdata, outcome, callers>> /\ blocked = Nil
    BY <1>6 DEF Poll
  <2>3. /\ TypeOK' /\ CallbackHitsOwnSlot' /\ SlotInv' /\ AnswerIsOwn' /\ RefInv'
        /\ DeviceWaitExpiresOnlyIfLost'
    BY <2>1, <2>2, CallbacksPreserve DEF callers, IInv, TypeOK
  <2>4. BlockedInv'
    BY <2>2 DEF BlockedInv, callers
  <2>. QED BY <2>3, <2>4 DEF IInv
<1>7. ASSUME NEW r \in Requests, BeginWait(r) PROVE IInv'
  BY <1>7 DEF BeginWait, heap, IInv, TypeOK, CallbackHitsOwnSlot, SlotInv,
     OwnSlot, AnswerIsOwn, BlockedInv, RefInv, DeviceWaitExpiresOnlyIfLost
<1>8. ASSUME WaitPump PROVE IInv'
  <2>1. /\ blocked \in Requests /\ pumps > 0 /\ pumps' = pumps - 1 /\ ~Done(blocked)
        /\ UNCHANGED <<alloc, userdata, outcome, pc, slot, blocked, expired, answer, wrappers>>
    BY <1>8 DEF WaitPump, IInv, TypeOK
  <2>2. PICK S \in SUBSET Requests :
          /\ Unrun(S) /\ RunCallbacks(S)
          /\ Target = "native" /\ DeviceBound(blocked) /\ cb[blocked] = "inflight" =>
               blocked \in S
    BY <1>8, <2>1, PumpRunsCallbacks DEF WaitPump, IInv
  <2>3. pumps' \in 0 .. MaxPumps /\ pumps \in 0 .. MaxPumps
    BY <2>1 DEF IInv, TypeOK
  <2>4. /\ TypeOK' /\ CallbackHitsOwnSlot' /\ SlotInv' /\ AnswerIsOwn' /\ RefInv'
        /\ DeviceWaitExpiresOnlyIfLost'
    BY <2>1, <2>2, <2>3, CallbacksPreserve
  <2>5. \A q \in Requests : cb'[q] = IF q \in S THEN "fired" ELSE cb[q]
    BY <2>2 DEF RunCallbacks
  <2>6. Target = "native" /\ pc[blocked] \in {"held", "sync"} /\ blocked # Nil
    BY <2>1 DEF BlockedInv, IInv
  <2>7. cb[blocked] \in {"inflight", "lost"}
    BY <2>1, <2>6 DEF IInv, TypeOK, SlotInv, OwnSlot, Done
  <2>8. CASE pumps = MaxPumps
    <3>1. DeviceBound(blocked) => cb'[blocked] \in {"fired", "lost"}
      BY <2>1, <2>2, <2>5, <2>6, <2>7
    <3>. QED BY <2>8, <3>1, <2>1, <2>4, <2>6 DEF BlockedInv, IInv
  <2>9. CASE pumps < MaxPumps
    <3>1. DeviceBound(blocked) => cb[blocked] = "lost"
      BY <2>9, <2>6, <2>7 DEF BlockedInv, IInv
    <3>2. DeviceBound(blocked) => cb'[blocked] = "lost"
      BY <3>1, <2>1, <2>2, <2>5 DEF Unrun
    <3>. QED BY <3>2, <2>1, <2>4, <2>6 DEF BlockedInv, IInv
  <2>. QED BY <2>3, <2>8, <2>9
<1>9. ASSUME WaitDone PROVE IInv'
  <2>1. /\ blocked \in Requests /\ Done(blocked) /\ blocked' = Nil
        /\ pc[blocked] \in {"held", "sync"}
        /\ UNCHANGED <<userdata, cb, outcome, refs, slot, pumps, expired, wrappers>>
    BY <1>9 DEF WaitDone, IInv, TypeOK, BlockedInv
  <2>2. CASE pc[blocked] = "sync"
    <3>1. CloseSync(blocked)
      BY <1>9, <2>2 DEF WaitDone
    <3>3. /\ cb[blocked] = "fired" /\ writer[slot[blocked]] = blocked
          /\ alloc' \in [Addrs -> Requests \cup {Nil}]
          /\ writer' \in [Addrs -> Requests \cup {Nil}]
          /\ pc' \in [Requests -> {"idle", "held", "sync", "gone"}]
          /\ CallbackHitsOwnSlot' /\ SlotInv'
      BY <2>1, <3>1, FreePreserves DEF CloseSync
    <3>4. answer' = [answer EXCEPT ![blocked] = blocked]
      BY <3>1, <3>3 DEF CloseSync
    <3>5. /\ wrappers[blocked] <= refs[blocked]
          /\ DeviceBound(blocked) => wrappers[blocked] = 0
      BY <2>1, <3>3 DEF RefInv, IInv, TypeOK
    <3>6. TypeOK' /\ AnswerIsOwn' /\ BlockedInv' /\ DeviceWaitExpiresOnlyIfLost'
      BY <2>1, <3>3, <3>4 DEF IInv, TypeOK, AnswerIsOwn, BlockedInv, DeviceWaitExpiresOnlyIfLost
    <3>7. RefInv'
      BY <2>1, <3>3, <3>4, <3>5 DEF IInv, TypeOK, RefInv
    <3>. QED BY <3>3, <3>6, <3>7 DEF IInv
  <2>3. CASE pc[blocked] = "held"
    <3>1. UNCHANGED <<heap, pc, answer>>
      BY <1>9, <2>3 DEF WaitDone
    <3>. QED BY <2>1, <3>1 DEF heap, IInv, TypeOK, CallbackHitsOwnSlot, SlotInv,
         OwnSlot, AnswerIsOwn, BlockedInv, RefInv, DeviceWaitExpiresOnlyIfLost
  <2>. QED BY <2>1, <2>2, <2>3
<1>10. ASSUME WaitGiveUp PROVE IInv'
  <2>1. DeviceBound(blocked) => cb[blocked] = "lost"
    BY <1>10 DEF WaitGiveUp, BlockedInv, IInv
  <2>. QED BY <1>10, <2>1 DEF WaitGiveUp, heap, IInv, TypeOK, CallbackHitsOwnSlot, SlotInv,
       OwnSlot, AnswerIsOwn, BlockedInv, RefInv, DeviceWaitExpiresOnlyIfLost
<1>11. ASSUME NEW r \in Requests, Take(r) PROVE IInv'
  <2>1. /\ pc[r] = "held" /\ Done(r) /\ answer[r] = Nil
        /\ UNCHANGED <<alloc, writer, userdata, cb, outcome, pc, slot, blocked, pumps, expired>>
    BY <1>11 DEF Take, heap
  <2>2. cb[r] = "fired" /\ writer[slot[r]] = r
    BY <2>1 DEF IInv, SlotInv, OwnSlot, Done
  <2>3. answer' = [answer EXCEPT ![r] = r]
    BY <1>11, <2>2 DEF Take
  <2>4. CASE ~DeviceBound(r)
    <3>1. wrappers' = [wrappers EXCEPT ![r] = IF outcome[r].ok THEN @ + 1 ELSE @]
          /\ refs' = refs
      BY <1>11, <2>2, <2>4 DEF Take, DeviceBound
    <3>2. outcome[r].owned = outcome[r].ok
      BY <2>4 DEF DeviceBound, RefInv, IInv, Outcomes
    <3>. QED BY <2>1, <2>2, <2>3, <2>4, <3>1, <3>2 DEF IInv, TypeOK, CallbackHitsOwnSlot, SlotInv,
         OwnSlot, AnswerIsOwn, BlockedInv, RefInv, DeviceWaitExpiresOnlyIfLost
  <2>5. CASE DeviceBound(r)
    <3>1. refs' = [refs EXCEPT ![r] = IF outcome[r].owned THEN @ - 1 ELSE @]
          /\ wrappers' = wrappers
      BY <1>11, <2>2, <2>5 DEF Take, DeviceBound
    <3>. QED BY <2>1, <2>2, <2>3, <2>5, <3>1 DEF IInv, TypeOK, CallbackHitsOwnSlot, SlotInv,
         OwnSlot, AnswerIsOwn, BlockedInv, RefInv, DeviceWaitExpiresOnlyIfLost
  <2>. QED BY <2>4, <2>5
<1>12. ASSUME NEW r \in Requests, DropWrapper(r) PROVE IInv'
  BY <1>12 DEF DropWrapper, heap, IInv, TypeOK, CallbackHitsOwnSlot, SlotInv,
     OwnSlot, AnswerIsOwn, BlockedInv, RefInv, DeviceWaitExpiresOnlyIfLost
<1>13. ASSUME NEW r \in Requests, Drop(r) PROVE IInv'
  <2>1. /\ pc[r] = "held" /\ blocked = Nil /\ FreeOnDrop(r)
        /\ pc' = [pc EXCEPT ![r] = "gone"]
        /\ UNCHANGED <<userdata, cb, outcome, refs, slot, blocked, pumps, expired, answer, wrappers>>
    BY <1>13 DEF Drop
  <2>2. CASE Done(r)
    <3>1. Free(slot[r])
      BY <2>1, <2>2 DEF FreeOnDrop
    <3>2. /\ alloc' \in [Addrs -> Requests \cup {Nil}]
          /\ writer' \in [Addrs -> Requests \cup {Nil}]
          /\ pc' \in [Requests -> {"idle", "held", "sync", "gone"}]
          /\ CallbackHitsOwnSlot' /\ SlotInv'
      BY <2>1, <2>2, <3>1, FreePreserves
    <3>. QED BY <2>1, <3>2 DEF IInv, TypeOK, AnswerIsOwn, BlockedInv, RefInv,
         DeviceWaitExpiresOnlyIfLost
  <2>3. CASE ~Done(r)
    <3>1. UNCHANGED heap
      BY <2>1, <2>3 DEF FreeOnDrop
    <3>. QED BY <2>1, <3>1 DEF heap, IInv, TypeOK, CallbackHitsOwnSlot, SlotInv,
         OwnSlot, AnswerIsOwn, BlockedInv, RefInv, DeviceWaitExpiresOnlyIfLost
  <2>. QED BY <2>2, <2>3
<1>14. CASE UNCHANGED vars
  BY <1>14 DEF vars, IInv, TypeOK, CallbackHitsOwnSlot, SlotInv,
     OwnSlot, AnswerIsOwn, BlockedInv, RefInv, DeviceWaitExpiresOnlyIfLost, Done
<1>. QED
  BY <1>1, <1>2, <1>3, <1>4, <1>5, <1>6, <1>7, <1>8, <1>9, <1>10, <1>11, <1>12, <1>13, <1>14
  DEF Next
LEMMA SpecInvariant == Spec => []IInv
<1>. QED BY InitInvariant, NextInvariant, PTL DEF Spec

-----------------------------------------------------------------------------
(* What follows *)

\* Every reachable state is well typed; in particular no wait pumps more often
\* than wait_for's bound (loader.mojo, wait_for).
THEOREM TypeCorrect == Spec => []TypeOK
<1>1. IInv => TypeOK
  BY DEF IInv
<1>. QED BY <1>1, SpecInvariant, PTL

\* However requests are started, polled, waited for and dropped, and whenever
\* wgpu calls back, a callback writes into the slot of its own request, still
\* allocated (pending.mojo frees it only when it is done).
THEOREM NoStrayCallback == Spec => []CallbackHitsOwnSlot
<1>1. IInv => CallbackHitsOwnSlot
  BY DEF IInv
<1>. QED BY <1>1, SpecInvariant, PTL

\* A request is only ever answered with what wgpu reported for it.
THEOREM OwnAnswers == Spec => []AnswerIsOwn
<1>1. IInv => AnswerIsOwn
  BY DEF IInv
<1>. QED BY <1>1, SpecInvariant, PTL

\* No handle or message is released twice, and every Adapter or Device object
\* has a native reference behind it.
THEOREM Balanced == Spec => []ReferencesBalanced
<1>1. IInv => ReferencesBalanced
  <2> SUFFICES ASSUME IInv, NEW r \in Requests
               PROVE  refs[r] >= 0 /\ wrappers[r] <= refs[r]
    BY DEF ReferencesBalanced
  <2>1. wrappers[r] \in Nat /\ refs[r] \in Int
    BY DEF IInv, TypeOK
  <2>2. CASE answer[r] # Nil
    BY <2>1, <2>2 DEF IInv, RefInv
  <2>3. CASE answer[r] = Nil
    BY <2>3 DEF IInv, RefInv
  <2>. QED BY <2>2, <2>3
<1>. QED BY <1>1, SpecInvariant, PTL

\* A blocking wait on a request that has a device gives up only if wgpu lost its
\* callback, for every bound of at least two pumps (the code's is 10_000).
THEOREM DeviceWaits == Spec => []DeviceWaitExpiresOnlyIfLost
<1>1. IInv => DeviceWaitExpiresOnlyIfLost
  BY DEF IInv
<1>. QED BY <1>1, SpecInvariant, PTL

\* Whoever lets go of a slot whose callback has run frees it, unless it is wait_for
\* that raises, on behalf of a *_sync function that has no device.
THEOREM DoneSlotsAreFreed == Spec => DoneSlotIsFreed
<1>. USE RequestsAssumption
<1>1. ASSUME IInv, [Next]_vars,
             NEW r \in Requests, pc[r] \in {"held", "sync"}, Done(r), pc'[r] = "gone"
      PROVE  \/ alloc'[slot[r]] = Nil
             \/ pc[r] = "sync" /\ r \in expired' /\ ~DeviceBound(r)
  <2>1. slot[r] \in Addrs /\ cb[r] = "fired"
    BY <1>1 DEF IInv, SlotInv, OwnSlot, Done
  <2>2. \A q \in Requests : pc[q] \in {"held", "sync"} /\ slot[q] = slot[r] => q = r
    BY <1>1 DEF IInv, SlotInv, OwnSlot
  <2>3. ASSUME NEW q \in Requests, NEW a \in Addrs, Start(q, a) \/ StartSync(q, a) PROVE FALSE
    BY <1>1, <2>3 DEF Start, StartSync, IInv, TypeOK
  <2>4. ASSUME NEW q \in Requests, Fire(q) \/ Settle(q) \/ Lose(q) PROVE FALSE
    BY <1>1, <2>4 DEF Fire, Settle, Lose, callers
  <2>5. ASSUME NEW q \in Requests, Poll(q) \/ BeginWait(q) \/ Take(q) \/ DropWrapper(q) PROVE FALSE
    BY <1>1, <2>5 DEF Poll, BeginWait, Take, DropWrapper, callers
  <2>6. ASSUME NEW q \in Requests, Drop(q) PROVE alloc'[slot[r]] = Nil
    <3>1. q = r
      BY <1>1, <2>6 DEF Drop, IInv, TypeOK
    <3>. QED BY <1>1, <2>1, <2>6, <3>1 DEF Drop, FreeOnDrop, Free, IInv, TypeOK
  <2>7. ASSUME WaitPump PROVE FALSE
    BY <1>1, <2>7 DEF WaitPump
  <2>8. ASSUME WaitDone PROVE alloc'[slot[r]] = Nil
    <3>1. pc[blocked] = "sync" /\ CloseSync(blocked)
      BY <1>1, <2>8 DEF WaitDone
    <3>2. blocked = r
      BY <1>1, <3>1 DEF CloseSync, IInv, TypeOK
    <3>. QED BY <1>1, <2>1, <3>1, <3>2 DEF CloseSync, Free, IInv, TypeOK
  <2>9. ASSUME WaitGiveUp PROVE pc[r] = "sync" /\ r \in expired' /\ ~DeviceBound(r)
    \* With a device, a wait that gives up is on a slot nobody has written.
    <3>1. blocked = r /\ pc[r] = "sync" /\ r \in expired'
      BY <1>1, <2>9 DEF WaitGiveUp, IInv, TypeOK
    <3>2. DeviceBound(r) => cb[r] = "lost"
      BY <2>9, <3>1, <1>1 DEF WaitGiveUp, IInv, BlockedInv
    <3>. QED BY <2>1, <3>1, <3>2
  <2>10. ASSUME UNCHANGED vars PROVE FALSE
    BY <1>1, <2>10 DEF vars
  <2>. QED BY <1>1, <2>3, <2>4, <2>5, <2>6, <2>7, <2>8, <2>9, <2>10 DEF Next
<1>2. IInv /\ [Next]_vars =>
        [\A r \in Requests :
           pc[r] \in {"held", "sync"} /\ Done(r) /\ pc'[r] = "gone" =>
             \/ alloc'[slot[r]] = Nil
             \/ pc[r] = "sync" /\ r \in expired' /\ ~DeviceBound(r)]_vars
  BY <1>1
<1>. QED BY <1>2, SpecInvariant, PTL DEF Spec, DoneSlotIsFreed
=============================================================================
