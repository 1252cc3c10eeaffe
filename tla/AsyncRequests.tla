---------------------------- MODULE AsyncRequests ----------------------------
(***************************************************************************)
(* The asynchronous requests of wgpu-mojo: wgpu/pending.mojo, the *_start   *)
(* and *_sync functions of the loader, and the completion callbacks.        *)
(*                                                                         *)
(* Every request allocates a heap slot, marks it pending and hands its      *)
(* address to wgpu as `userdata1`.  wgpu (external code) calls the callback *)
(* at some later point; the callback writes through that address, whatever  *)
(* the cell holds by then.  The slot is freed by the Mojo side.  The heap   *)
(* reuses freed cells, so a slot freed too early shows up here as a callback *)
(* writing into another request's slot, or into free memory.                *)
(*                                                                         *)
(* Mojo runs on one thread: while a blocking wait is in progress (`blocked` *)
(* is a request) the program makes no other call.  Callbacks of a native    *)
(* build are AllowSpontaneous and may run between any two steps; in a       *)
(* browser they run only while wgpuInstanceProcessEvents drains the queue.  *)
(***************************************************************************)
EXTENDS Integers

CONSTANTS
  Requests,   \* request identities; each is issued at most once
  Kind,       \* Kind[r]: what r asks for
  Addrs,      \* the addresses raw_alloc can return
  Nil,        \* a null pointer, or "no request"
  Target,     \* "native" or "web" (WGPU_TARGET)
  MaxPumps,   \* the 10_000 iterations of wait_for
  Lossy       \* TRUE when wgpu may never call a callback

Handles == {"adapter", "device"}
Kinds   == Handles \cup {"map", "work", "scope"}

ASSUME RequestsAssumption ==
  /\ Kind \in [Requests -> Kinds]
  /\ Nil \notin Requests
  /\ Nil \notin Addrs
  /\ Target \in {"native", "web"}
  /\ MaxPumps \in Nat /\ MaxPumps >= 2
  /\ Lossy \in BOOLEAN

\* The pump of an adapter or device request has a null device, so it never
\* polls; map, work-done and error-scope requests carry their device.
DeviceBound(r) == Kind[r] \notin Handles

\* What the callback of r may report: a status, and whether the result is a
\* resource the receiver owns (an adapter or device handle comes with success,
\* an error-scope message with any status, map and work-done carry nothing).
Outcomes(r) ==
  {o \in [ok : BOOLEAN, owned : BOOLEAN] :
     /\ Kind[r] \in Handles => o.owned = o.ok
     /\ Kind[r] \in {"map", "work"} => ~o.owned}

VARIABLES
  alloc,     \* [Addrs -> the request a heap cell is allocated for; Nil: free]
  writer,    \* [Addrs -> the request whose callback wrote the cell last; Nil:
             \* nobody has, its status is 0, the pending() value]
  userdata,  \* [Requests -> address wgpu holds for r's callback, or Nil]
  cb,        \* the callback of r: "none", "inflight", "resolved" (a settled
             \* promise queued by defer), "fired" or "lost"
  outcome,   \* what wgpu reports for r; nobody reads it before cb[r] = "fired"
  pc,        \* the caller: "idle", "held" (a Pending owns the slot), "sync"
             \* (a *_sync function owns it), "gone"
  slot,      \* [Requests -> the caller's pointer to its slot, or Nil]
  blocked,   \* the request a blocking wait is waiting for, or Nil
  pumps,     \* iterations left to that wait
  expired,   \* requests on which a blocking wait gave up
  answer,    \* the request whose result was handed to the caller of r, or Nil
  refs,      \* native references (or message copies) delivered and not released
  wrappers   \* Adapter / Device objects take() built from r's result

vars == <<alloc, writer, userdata, cb, outcome, pc, slot, blocked, pumps, expired,
          answer, refs, wrappers>>

callers == <<pc, slot, blocked, pumps, expired, answer, wrappers>>

heap == <<alloc, writer>>

NoReply == [ok |-> FALSE, owned |-> FALSE]

InFlight == {r \in Requests : cb[r] = "inflight"}
Resolved == {r \in Requests : cb[r] = "resolved"}

\* slot[].done(): the status is no longer 0.
Done(r) == writer[slot[r]] # Nil

Init ==
  /\ alloc    = [a \in Addrs |-> Nil]
  /\ writer   = [a \in Addrs |-> Nil]
  /\ userdata = [r \in Requests |-> Nil]
  /\ cb       = [r \in Requests |-> "none"]
  /\ outcome  = [r \in Requests |-> NoReply]
  /\ pc       = [r \in Requests |-> "idle"]
  /\ slot     = [r \in Requests |-> Nil]
  /\ blocked  = Nil
  /\ pumps    = 0
  /\ expired  = {}
  /\ answer   = [r \in Requests |-> Nil]
  /\ refs     = [r \in Requests |-> 0]
  /\ wrappers = [r \in Requests |-> 0]

-----------------------------------------------------------------------------
(* Callbacks *)

\* The _on_* callbacks of the requests in S: each writes its result through the
\* userdata1 it was given, whoever the cell belongs to by now.
Written(S) ==
  [a \in Addrs |->
     IF \E r \in S : userdata[r] = a THEN CHOOSE r \in S : userdata[r] = a ELSE writer[a]]

RunCallbacks(S) ==
  /\ writer' = Written(S)
  /\ cb'   = [r \in Requests |-> IF r \in S THEN "fired" ELSE cb[r]]
  /\ refs' = [r \in Requests |-> IF r \in S /\ outcome[r].owned THEN refs[r] + 1 ELSE refs[r]]

\* A native callback wgpu makes on its own (AllowSpontaneous).
Fire(r) ==
  /\ Target = "native"
  /\ r \in InFlight
  /\ RunCallbacks({r})
  /\ UNCHANGED <<alloc, userdata, outcome, callers>>

\* A browser promise settles: its completion is queued for the next drain.
Settle(r) ==
  /\ Target = "web"
  /\ r \in InFlight
  /\ cb' = [cb EXCEPT ![r] = "resolved"]
  /\ UNCHANGED <<heap, userdata, outcome, refs, callers>>

\* wgpu never calls back.
Lose(r) ==
  /\ Lossy
  /\ r \in InFlight
  /\ cb' = [cb EXCEPT ![r] = "lost"]
  /\ UNCHANGED <<heap, userdata, outcome, refs, callers>>

\* WGPULib.pump(instance, device, wait) on behalf of r.  In a browser it drains
\* what has settled.  Natively ProcessEvents may run any callbacks, and a
\* blocking wgpuDevicePoll runs every callback of the device's work.
PumpNeverWaits(r, wait) ==   \* mutant: polls the device without waiting
  \E S \in (SUBSET InFlight) \cup {Resolved} :
    /\ Target = "web" => S = Resolved
    /\ Target = "native" => S \subseteq InFlight
    /\ RunCallbacks(S)

Pump(r, wait) ==
  \E S \in (SUBSET InFlight) \cup {Resolved} :
    /\ Target = "web" => S = Resolved
    /\ Target = "native" =>
         /\ S \subseteq InFlight
         /\ wait /\ DeviceBound(r) => {q \in InFlight : DeviceBound(q)} \subseteq S
    /\ RunCallbacks(S)

-----------------------------------------------------------------------------
(* Issuing a request *)

\* The *_start functions: allocate a slot, mark it pending, then call wgpu,
\* which natively may run the callback before it returns.
StartSlot(r, a) ==
  /\ alloc[a] = Nil
  /\ alloc'    = [alloc EXCEPT ![a] = r]
  /\ userdata' = [userdata EXCEPT ![r] = a]
  /\ slot'     = [slot EXCEPT ![r] = a]
  /\ \E o \in Outcomes(r) :
       /\ outcome' = [outcome EXCEPT ![r] = o]
       /\ \/ /\ writer' = [writer EXCEPT ![a] = Nil]
             /\ cb'     = [cb EXCEPT ![r] = "inflight"]
             /\ UNCHANGED refs
          \/ /\ Target = "native"
             /\ writer' = [writer EXCEPT ![a] = r]
             /\ cb'     = [cb EXCEPT ![r] = "fired"]
             /\ refs'   = [refs EXCEPT ![r] = IF o.owned THEN @ + 1 ELSE @]

\* request_adapter_async, request_device_async, map_async,
\* on_submitted_work_done_async, pop_error_scope_async: a typed request is built
\* around a Pending.
Start(r, a) ==
  /\ blocked = Nil
  /\ pc[r] = "idle"
  /\ StartSlot(r, a)
  /\ pc' = [pc EXCEPT ![r] = "held"]
  /\ UNCHANGED <<blocked, pumps, expired, answer, wrappers>>

\* The loader has a *_sync function for every request but an error scope's.
HasSyncForm(r) == Kind[r] # "scope"

\* instance_request_adapter_sync, adapter_request_device_sync, buffer_map_async and
\* queue_on_submitted_work_done_sync: start and wait in one call, holding the raw
\* slot.  The first two wait with a null device.
StartSync(r, a) ==
  /\ Target = "native"
  /\ HasSyncForm(r)
  /\ blocked = Nil
  /\ pc[r] = "idle"
  /\ StartSlot(r, a)
  /\ pc'      = [pc EXCEPT ![r] = "sync"]
  /\ blocked' = r
  /\ pumps'   = MaxPumps
  /\ UNCHANGED <<expired, answer, wrappers>>

-----------------------------------------------------------------------------
(* Waiting *)

\* Pending.ready(): a non-blocking pump when the callback has not run yet.
PollPeeks(r) ==   \* mutant: looks at the slot but never pumps
  /\ blocked = Nil
  /\ pc[r] = "held"
  /\ ~Done(r)
  /\ UNCHANGED vars

Poll(r) ==
  /\ blocked = Nil
  /\ pc[r] = "held"
  /\ ~Done(r)
  /\ Pump(r, FALSE)
  /\ UNCHANGED <<alloc, userdata, outcome, callers>>

\* Pending.wait() enters wait_for, which exists natively only.
BeginWait(r) ==
  /\ Target = "native"
  /\ blocked = Nil
  /\ pc[r] = "held"
  /\ blocked' = r
  /\ pumps'   = MaxPumps
  /\ UNCHANGED <<heap, userdata, cb, outcome, refs, pc, slot, expired, answer, wrappers>>

\* One iteration of wait_for's loop: the check found nothing, so pump.
WaitPumpUncounted ==   \* mutant: loops for as long as the slot is pending
  /\ blocked # Nil
  /\ pumps > 0
  /\ ~Done(blocked)
  /\ pumps' = pumps
  /\ Pump(blocked, TRUE)
  /\ UNCHANGED <<alloc, userdata, outcome, pc, slot, blocked, expired, answer, wrappers>>

WaitPumpPastEnd ==   \* mutant: one pump more than the loop has iterations
  /\ blocked # Nil
  /\ ~Done(blocked)
  /\ pumps' = pumps - 1
  /\ Pump(blocked, TRUE)
  /\ UNCHANGED <<alloc, userdata, outcome, pc, slot, blocked, expired, answer, wrappers>>

WaitPump ==
  /\ blocked # Nil
  /\ pumps > 0
  /\ ~Done(blocked)
  /\ pumps' = pumps - 1
  /\ Pump(blocked, TRUE)
  /\ UNCHANGED <<alloc, userdata, outcome, pc, slot, blocked, expired, answer, wrappers>>

\* raw_free: the cell is nobody's and its content is gone.
Free(a) ==
  /\ alloc'  = [alloc EXCEPT ![a] = Nil]
  /\ writer' = [writer EXCEPT ![a] = Nil]

\* The *_sync functions copy the result and free the slot.  A handle in it is the
\* caller's, who gets it raw: no Adapter or Device stands for it.
CloseSyncKeepsSlot(r) ==   \* mutant: returns without freeing the slot
  /\ answer' = [answer EXCEPT ![r] = writer[slot[r]]]
  /\ pc'     = [pc EXCEPT ![r] = "gone"]
  /\ UNCHANGED heap

CloseSync(r) ==
  /\ answer' = [answer EXCEPT ![r] = writer[slot[r]]]
  /\ Free(slot[r])
  /\ pc'     = [pc EXCEPT ![r] = "gone"]

\* wait_for returns: the check at the top of the loop found the slot done.
WaitDone ==
  /\ blocked # Nil
  /\ pumps > 0
  /\ Done(blocked)
  /\ blocked' = Nil
  /\ IF pc[blocked] = "sync" THEN CloseSync(blocked) ELSE UNCHANGED <<heap, pc, answer>>
  /\ UNCHANGED <<userdata, cb, outcome, refs, slot, pumps, expired, wrappers>>

\* wait_for raises after its last pump, without looking at the slot again: a
\* callback that ran in that pump, or since, goes unnoticed.  A *_sync function
\* unwinds and leaves its slot, and what is in it, behind.
WaitGiveUp ==
  /\ blocked # Nil
  /\ pumps = 0
  /\ expired' = expired \cup {blocked}
  /\ blocked' = Nil
  /\ pc' = [pc EXCEPT ![blocked] = IF @ = "sync" THEN "gone" ELSE @]
  /\ UNCHANGED <<heap, userdata, cb, outcome, refs, slot, pumps, answer, wrappers>>

-----------------------------------------------------------------------------
(* Using and dropping the result *)

\* take() of the typed requests, on a slot that is done: a successful handle is
\* wrapped, an error-scope message is copied out and freed.  (On a pending slot
\* it raises and changes nothing.)  take() only borrows the request and could be
\* called again; callers take once (ErrorScopeRequest: "Call once").
Take(r) ==
  LET by == writer[slot[r]]
  IN  /\ blocked = Nil
      /\ pc[r] = "held"
      /\ Done(r)
      /\ answer[r] = Nil
      /\ answer' = [answer EXCEPT ![r] = by]
      /\ IF Kind[r] \in Handles
         THEN /\ wrappers' = [wrappers EXCEPT ![r] = IF outcome[by].ok THEN @ + 1 ELSE @]
              /\ UNCHANGED refs
         ELSE /\ refs' = [refs EXCEPT ![r] = IF outcome[by].owned THEN @ - 1 ELSE @]
              /\ UNCHANGED wrappers
      /\ UNCHANGED <<heap, userdata, cb, outcome, pc, slot, blocked, pumps, expired>>

\* Adapter.__deinit__ and Device.__deinit__ on an object take() built.
DropWrapper(r) ==
  /\ blocked = Nil
  /\ wrappers[r] > 0
  /\ wrappers' = [wrappers EXCEPT ![r] = @ - 1]
  /\ refs'     = [refs EXCEPT ![r] = @ - 1]
  /\ UNCHANGED <<heap, userdata, cb, outcome, pc, slot, blocked, pumps, expired, answer>>

\* Pending.__deinit__: free the slot only if its callback has run.
FreeOnDropAlways(r) == Free(slot[r])   \* mutant: unguarded free

FreeOnDrop(r) == IF Done(r) THEN Free(slot[r]) ELSE UNCHANGED heap

DropReleasingResult(r) ==   \* mutant: releases a handle that take() may have given away
  /\ blocked = Nil
  /\ pc[r] = "held"
  /\ FreeOnDrop(r)
  /\ pc'   = [pc EXCEPT ![r] = "gone"]
  /\ refs' = [refs EXCEPT ![r] = IF Done(r) /\ outcome[r].owned THEN @ - 1 ELSE @]
  /\ UNCHANGED <<userdata, cb, outcome, slot, blocked, pumps, expired, answer, wrappers>>

Drop(r) ==
  /\ blocked = Nil
  /\ pc[r] = "held"
  /\ FreeOnDrop(r)
  /\ pc'   = [pc EXCEPT ![r] = "gone"]
  /\ UNCHANGED <<userdata, cb, outcome, refs, slot, blocked, pumps, expired, answer, wrappers>>

Next ==
  \/ \E r \in Requests, a \in Addrs : Start(r, a) \/ StartSync(r, a)
  \/ \E r \in Requests : Fire(r) \/ Settle(r) \/ Lose(r)
  \/ \E r \in Requests : Poll(r) \/ BeginWait(r) \/ Take(r) \/ DropWrapper(r) \/ Drop(r)
  \/ WaitPump \/ WaitDone \/ WaitGiveUp

Spec == Init /\ [][Next]_vars

\* wgpu completes what it was asked (a browser promise settles, a native
\* callback is called), and a program that polls its requests does so once per
\* frame.
CompletionFairness == \A r \in Requests : WF_vars(Fire(r)) /\ WF_vars(Settle(r))
PollFairness       == \A r \in Requests : WF_vars(Poll(r))
\* The thread inside wait_for keeps running its loop; nothing is asked of wgpu.
WaitFairness       == WF_vars(WaitPump \/ WaitDone \/ WaitGiveUp)

PollingSpec == Spec /\ CompletionFairness /\ PollFairness
WaitingSpec == Spec /\ WaitFairness

-----------------------------------------------------------------------------
(* Properties *)

\* Every variable has its type; in particular a wait never runs past its bound.
TypeOK ==
  /\ alloc    \in [Addrs -> Requests \cup {Nil}]
  /\ writer   \in [Addrs -> Requests \cup {Nil}]
  /\ userdata \in [Requests -> Addrs \cup {Nil}]
  /\ cb       \in [Requests -> {"none", "inflight", "resolved", "fired", "lost"}]
  /\ outcome  \in [Requests -> [ok : BOOLEAN, owned : BOOLEAN]]
  /\ pc       \in [Requests -> {"idle", "held", "sync", "gone"}]
  /\ slot     \in [Requests -> Addrs \cup {Nil}]
  /\ blocked  \in Requests \cup {Nil}
  /\ pumps    \in 0 .. MaxPumps
  /\ expired  \subseteq Requests
  /\ answer   \in [Requests -> Requests \cup {Nil}]
  /\ refs     \in [Requests -> Int]
  /\ wrappers \in [Requests -> Nat]

\* A callback wgpu has not made yet will write into a cell that is still
\* allocated to its own request and that nobody wrote: never into freed memory,
\* never into a slot raw_alloc gave to someone else (pending.mojo's reason to
\* leak, loader.mojo's note on freeing after a non-blocking pump).
CallbackHitsOwnSlot ==
  \A r \in Requests : cb[r] \in {"inflight", "resolved", "lost"} =>
     /\ userdata[r] \in Addrs
     /\ alloc[userdata[r]] = r
     /\ writer[userdata[r]] = Nil

\* Whatever take() or a *_sync function hands out is the result wgpu reported for
\* that very request, and only after it was reported.
AnswerIsOwn ==
  \A r \in Requests : answer[r] # Nil => answer[r] = r /\ cb[r] = "fired"

\* A delivered adapter, device or message is released at most once, and every
\* live Adapter or Device object stands for a reference of its own.
ReferencesBalanced ==
  \A r \in Requests : refs[r] >= 0 /\ wrappers[r] <= refs[r]

\* "A blocking poll returns once the queue is idle, by which point the callback
\* has fired; the bound only turns a lost callback into an error": a wait on a
\* request that has a device gives up only when wgpu lost the callback.
DeviceWaitExpiresOnlyIfLost ==
  \A r \in expired : DeviceBound(r) => cb[r] = "lost"

\* A slot whose callback has run is freed by whoever lets go of it: a dropped
\* Pending, or a *_sync function, also one that raises, since with a device
\* wait_for raises only while the callback is outstanding.  The exception is a
\* *_sync function without a device that raises; see RaiseMeansNotFired.
DoneSlotIsFreed ==
  [][\A r \in Requests :
       pc[r] \in {"held", "sync"} /\ Done(r) /\ pc'[r] = "gone" =>
         \/ alloc'[slot[r]] = Nil
         \/ pc[r] = "sync" /\ r \in expired' /\ ~DeviceBound(r)]_vars

\* "wgpu request never completed (callback did not fire)": when wait_for raises
\* this (loader.mojo:353), the slot is still pending.
RaiseMeansNotFired ==
  [][\A r \in Requests : blocked = r /\ r \in expired' \ expired => ~Done(r)]_vars

\* Polling is enough: a request somebody keeps holding is eventually answered.
HeldRequestCompletes ==
  \A r \in Requests :
    pc[r] = "held" ~> (pc[r] = "held" /\ Done(r)) \/ pc[r] = "gone"

\* A blocking wait ends, with a result or an error, even if wgpu loses callbacks.
WaitReturns == blocked # Nil ~> blocked = Nil

=============================================================================
