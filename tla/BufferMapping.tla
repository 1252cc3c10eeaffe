--------------------------- MODULE BufferMapping ---------------------------
(***************************************************************************)
(* Mapping a buffer in a browser: MapRequest and Buffer of wgpu/buffer.mojo *)
(* over completion, mappedRange and releaseMapped of web/webgpu_impl.mjs.   *)
(* The browser maps a buffer into ArrayBuffers of its own; the program only *)
(* reaches its linear memory, so every range it asks for is mirrored there  *)
(* and copied back before the buffer is unmapped.  Promises are settled by  *)
(* the browser, noticed by microtasks, and told to the program by the drain *)
(* of a later ready().                                                      *)
(* The program keeps to what MapRequest and FrameCapture document: the      *)
(* Buffer lives until take(), the range is taken once, it is not used after *)
(* unmap(), nor is a request taken that was mapped before an unmap().       *)
(***************************************************************************)
EXTENDS Integers, FiniteSets, Sequences, SequencesExt

CONSTANTS
  Cells,     \* the cells of the buffer
  Ranges,    \* ranges of cells that are mapped or asked for
  Values,    \* contents of a cell
  Zero,      \* the content of a cell of a new buffer
  Requests,  \* MapRequests, each reused once its callback has run
  Pointers,  \* addresses rt.alloc may return
  Nobody     \* no request

ASSUME MappingAssumption ==
  /\ Ranges \subseteq SUBSET Cells /\ {} \notin Ranges /\ Cells \in Ranges
  /\ Zero \in Values /\ Nobody \notin Requests
  /\ IsFiniteSet(Cells)

VARIABLES
  buffer,      \* the browser: state, and mode, cells and request of the mapping
  got,         \* the browser: ranges handed out by getMappedRange
  data,        \* the browser: what the GPU sees
  promise,     \* [Requests -> "none" | "waiting"]: mapAsync not settled yet
  microtasks,  \* reactions of settled promises that have yet to run
  deferred,    \* host.defer: callbacks for the next drain
  mapped,      \* rt.mapped of the buffer's handle: the mirrors, {ptr, size}
  mem,         \* allocated mirrors: [pointer -> [cell -> value]]
  requests,    \* the MapRequests and their slots
  pointers,    \* pointers the program got and may still use
  thrown       \* a JavaScript exception has left a wgpu call

browser == <<buffer, got, data>>
vars == <<buffer, got, data, promise, microtasks, deferred, mapped, mem,
          requests, pointers, thrown>>

Modes == {"read", "write"}
Outcome == [req : Requests, status : {"ok", "failed"}]

\* owner: "none", "held" (a MapRequest), "dropped" before its callback ran.
\* over: taken, or the buffer was unmapped since map_async.
Request == [owner : {"none", "held", "dropped"},
            slot : {"pending", "ok", "failed"},
            mode : Modes, cells : Ranges, over : BOOLEAN]

Blank == [c \in Cells |-> Zero]
NoMapping(state) == [state |-> state, mode |-> "write", cells |-> Cells, by |-> Nobody]
NoRequest(owner) ==
  [owner |-> owner, slot |-> "pending", mode |-> "read", cells |-> Cells, over |-> FALSE]

Init ==
  /\ buffer = NoMapping("none") /\ got = {} /\ data = Blank
  /\ promise = [r \in Requests |-> "none"]
  /\ microtasks = <<>> /\ deferred = <<>>
  /\ mapped = {} /\ mem = [p \in {} |-> Blank]
  /\ requests = [r \in Requests |-> NoRequest("none")]
  /\ pointers = {} /\ thrown = FALSE

-----------------------------------------------------------------------------
(* The browser *)

\* mutant: a rejected promise has no reaction
SettledUnlessFailed(r, status) ==
  /\ promise' = [promise EXCEPT ![r] = "none"]
  /\ microtasks' = IF status = "ok"
                   THEN Append(microtasks, [req |-> r, status |-> status])
                   ELSE microtasks

\* The promise of r settles: the reaction completion() attached becomes a microtask.
Settled(r, status) ==
  /\ promise' = [promise EXCEPT ![r] = "none"]
  /\ microtasks' = Append(microtasks, [req |-> r, status |-> status])

BrowserMaps ==
  /\ buffer.state = "pending"
  /\ buffer' = [buffer EXCEPT !.state = "mapped"]
  /\ Settled(buffer.by, "ok")
  /\ UNCHANGED <<got, data, deferred, mapped, mem, requests, pointers, thrown>>

BrowserRefuses ==
  /\ buffer.state = "pending"
  /\ buffer' = NoMapping("unmapped")
  /\ Settled(buffer.by, "failed")
  /\ UNCHANGED <<got, data, deferred, mapped, mem, requests, pointers, thrown>>

\* The promise of a buffer whose handle was dropped while it was being mapped.
OrphanSettles(r, status) ==
  /\ promise[r] = "waiting" /\ buffer.by # r
  /\ Settled(r, status)
  /\ UNCHANGED <<browser, deferred, mapped, mem, requests, pointers, thrown>>

GpuWrites(c, v) ==
  /\ buffer.state = "unmapped"
  /\ data' = [data EXCEPT ![c] = v]
  /\ UNCHANGED <<buffer, got, promise, microtasks, deferred, mapped, mem,
                 requests, pointers, thrown>>

\* mutant: MAP_ERROR is 0, which means pending
DoneZero(tasks) ==
  [i \in DOMAIN tasks |->
    IF tasks[i].status = "failed" THEN [tasks[i] EXCEPT !.status = "pending"] ELSE tasks[i]]

\* mutant: failures are reported as successes
DoneOk(tasks) == [i \in DOMAIN tasks |-> [tasks[i] EXCEPT !.status = "ok"]]

\* done: one callback to defer for each reaction, with the status it reports.
Done(tasks) == tasks

RunMicrotasks ==
  /\ microtasks # <<>>
  /\ deferred' = deferred \o Done(microtasks) /\ microtasks' = <<>>
  /\ UNCHANGED <<browser, promise, mapped, mem, requests, pointers, thrown>>

-----------------------------------------------------------------------------
(* The program *)

CreateBuffer(mappedAtCreation) ==
  /\ buffer.state = "none"
  /\ buffer' = NoMapping(IF mappedAtCreation THEN "mapped" ELSE "unmapped")
  /\ UNCHANGED <<got, data, promise, microtasks, deferred, mapped, mem,
                 requests, pointers, thrown>>

\* Refused at once, but told only by the callback, unless the buffer is unmapped.
MapAsync(r, mode, cells) ==
  /\ buffer.state # "none" /\ requests[r].owner = "none"
  /\ requests' = [requests EXCEPT ![r] =
       [owner |-> "held", slot |-> "pending", mode |-> mode, cells |-> cells, over |-> FALSE]]
  /\ \/ /\ buffer.state = "unmapped"
        /\ buffer' = [state |-> "pending", mode |-> mode, cells |-> cells, by |-> r]
        /\ promise' = [promise EXCEPT ![r] = "waiting"]
        /\ UNCHANGED microtasks
     \/ /\ buffer.state # "unmapped"
        /\ Settled(r, "failed")
        /\ UNCHANGED buffer
  /\ UNCHANGED <<got, data, deferred, mapped, mem, pointers, thrown>>

\* Every deferred callback writes the slot of its own request.
Told(r) == \E i \in DOMAIN deferred : deferred[i].req = r
Answer(r) == (CHOOSE o \in ToSet(deferred) : o.req = r).status

\* ready() of a request still pending: ProcessEvents drains the whole queue.
Ready(r) ==
  /\ requests[r].owner = "held" /\ requests[r].slot = "pending"
  /\ requests' = [q \in Requests |->
       IF ~Told(q) THEN requests[q]
       ELSE IF requests[q].owner = "dropped" THEN NoRequest("none")
       ELSE [requests[q] EXCEPT !.slot = Answer(q)]]
  /\ deferred' = <<>>
  /\ UNCHANGED <<browser, promise, microtasks, mapped, mem, pointers, thrown>>

\* Pending.__deinit__.  Before its callback has run, the slot is left behind.
Drop(r) ==
  /\ requests[r].owner = "held"
  /\ requests' = [requests EXCEPT ![r] =
                    NoRequest(IF @.slot = "pending" THEN "dropped" ELSE "none")]
  /\ UNCHANGED <<browser, promise, microtasks, deferred, mapped, mem, pointers, thrown>>

\* The browser refuses ranges outside the mapping and ranges that overlap.
RangeGiven(cells) ==
  /\ buffer.state = "mapped" /\ cells \subseteq buffer.cells
  /\ \A g \in got : g \cap cells = {}

\* The range is copied to memory of its own and listed with the others.
MappedRange(cells) ==
  IF RangeGiven(cells)
  THEN /\ got' = got \cup {cells}
       /\ \E p \in Pointers \ DOMAIN mem :
            /\ mem' = [q \in DOMAIN mem \cup {p} |->
                         IF q = p THEN [c \in cells |-> data[c]] ELSE mem[q]]
            /\ mapped' = mapped \cup {[ptr |-> p, cells |-> cells]}
            /\ pointers' = pointers \cup {p}
       /\ UNCHANGED thrown
  ELSE /\ thrown' = TRUE
       /\ UNCHANGED <<got, mem, mapped, pointers>>

\* mutant: take() does not look at the status
TakesWhenTold(r) == requests[r].slot # "pending"

\* take() reaches the mapped range; otherwise it raises and changes nothing.
Takes(r) == requests[r].slot = "ok"

Take(r) ==
  /\ requests[r].owner = "held" /\ ~requests[r].over
  /\ Takes(r)
  /\ requests' = [requests EXCEPT ![r].over = TRUE]
  /\ MappedRange(requests[r].cells)
  /\ UNCHANGED <<buffer, data, promise, microtasks, deferred>>

\* A part of a buffer mapped at creation: there is no request to take.
GetMappedRange(cells) ==
  /\ buffer.state = "mapped" /\ buffer.by = Nobody /\ RangeGiven(cells)
  /\ MappedRange(cells)
  /\ UNCHANGED <<buffer, data, promise, microtasks, deferred, requests>>

\* The program writes through a pointer it got for writing.
Write(p, c, v) ==
  /\ p \in pointers /\ buffer.mode = "write" /\ c \in DOMAIN mem[p]
  /\ mem' = [mem EXCEPT ![p][c] = v]
  /\ UNCHANGED <<browser, promise, microtasks, deferred, mapped, requests, pointers, thrown>>

\* The mapped cells as their mirrors have them.
Mirrored == [c \in Cells |->
  IF \E m \in mapped : c \in m.cells
  THEN mem[(CHOOSE m \in mapped : c \in m.cells).ptr][c] ELSE data[c]]

\* mutant: the mirrors are not copied back
DataUncommitted == data

\* The mirrors are copied back (releaseMapped with commit), then unmap() hands
\* the cells to the GPU if they were mapped for writing, or discards them.
DataAfterUnmap ==
  IF buffer.state = "mapped" /\ buffer.mode = "write" THEN Mirrored ELSE data

\* mutant: the list of the handle survives
FreeMirrorsKeepList ==
  /\ mem' = [p \in DOMAIN mem \ {m.ptr : m \in mapped} |-> mem[p]]
  /\ UNCHANGED mapped

\* releaseMapped: free every mirror of the list, then delete the list.
FreeMirrors ==
  /\ mem' = [p \in DOMAIN mem \ {m.ptr : m \in mapped} |-> mem[p]]
  /\ mapped' = {}

\* unmap() aborts a map in progress, and nothing is said of one that succeeded.
Unmap ==
  /\ buffer.state # "none"
  /\ FreeMirrors
  /\ data' = DataAfterUnmap
  /\ IF buffer.state = "pending" THEN Settled(buffer.by, "failed")
                                 ELSE UNCHANGED <<promise, microtasks>>
  /\ buffer' = NoMapping("unmapped") /\ got' = {} /\ pointers' = {}
  /\ requests' = [r \in Requests |-> [requests[r] EXCEPT !.over = (@ \/ requests[r].owner = "held")]]
  /\ UNCHANGED <<deferred, thrown>>

\* Buffer.__deinit__: the mirrors go uncommitted, then the handle.
Release ==
  /\ buffer.state # "none"
  /\ \A r \in Requests : requests[r].owner = "held" => requests[r].over
  /\ FreeMirrors
  /\ buffer' = NoMapping("none") /\ got' = {} /\ data' = Blank /\ pointers' = {}
  /\ UNCHANGED <<promise, microtasks, deferred, requests, thrown>>

-----------------------------------------------------------------------------

ProgramStep ==
  \/ \E b \in BOOLEAN : CreateBuffer(b)
  \/ \E r \in Requests, m \in Modes, s \in Ranges : MapAsync(r, m, s)
  \/ \E r \in Requests : Ready(r) \/ Drop(r) \/ Take(r)
  \/ \E s \in Ranges : GetMappedRange(s)
  \/ \E p \in pointers, c \in Cells, v \in Values : Write(p, c, v)
  \/ Unmap
  \/ Release

BrowserStep ==
  \/ BrowserMaps
  \/ BrowserRefuses
  \/ \E r \in Requests, s \in {"ok", "failed"} : OrphanSettles(r, s)
  \/ \E c \in Cells, v \in Values : GpuWrites(c, v)
  \/ RunMicrotasks

Next == ProgramStep \/ BrowserStep

\* The browser settles its promises and runs their reactions; a program polls
\* its requests from every animation frame.
Fairness ==
  /\ WF_vars(BrowserMaps \/ BrowserRefuses)
  /\ WF_vars(RunMicrotasks)
  /\ \A r \in Requests : WF_vars(Ready(r))

Spec == Init /\ [][Next]_vars /\ Fairness

-----------------------------------------------------------------------------
(* Properties *)

\* Every variable keeps its shape; a callback reports one of two statuses, never
\* the 0 that means pending (MAP_OK and MAP_ERROR, webgpu_impl.mjs 8).
TypeOK ==
  /\ buffer \in [state : {"none", "unmapped", "pending", "mapped"}, mode : Modes,
                 cells : Ranges, by : Requests \cup {Nobody}]
  /\ got \subseteq Ranges /\ data \in [Cells -> Values]
  /\ promise \in [Requests -> {"none", "waiting"}]
  /\ microtasks \in Seq(Outcome) /\ deferred \in Seq(Outcome)
  /\ mapped \subseteq [ptr : Pointers, cells : Ranges]
  /\ DOMAIN mem \subseteq Pointers
  /\ \A p \in DOMAIN mem : DOMAIN mem[p] \in Ranges /\ \A c \in DOMAIN mem[p] : mem[p][c] \in Values
  /\ requests \in [Requests -> Request]
  /\ pointers \subseteq Pointers /\ thrown \in BOOLEAN

\* Outcomes of r on their way from its promise to its slot.
InFlight(r) ==
  (IF promise[r] = "waiting" THEN 1 ELSE 0)
    + Cardinality({i \in DOMAIN microtasks : microtasks[i].req = r})
    + Cardinality({i \in DOMAIN deferred : deferred[i].req = r})

\* Between map_async and its callback exactly one outcome is on its way to the
\* slot of a request, whether the browser maps, refuses, or unmap() or a release
\* comes first; before and after there is none (completion, webgpu_impl.mjs 12-22).
OneOutcome ==
  \A r \in Requests :
    InFlight(r) = IF \/ requests[r].owner = "dropped"
                     \/ requests[r].owner = "held" /\ requests[r].slot = "pending"
                  THEN 1 ELSE 0

\* The mirrors listed for the buffer, the memory allocated for them, the ranges
\* the browser gave out and the pointers the program may use are the same
\* ranges, each mirrored once and freed with the mapping (webgpu_impl.mjs 32-52).
MirrorsMatch ==
  /\ pointers = {m.ptr : m \in mapped} /\ pointers = DOMAIN mem
  /\ got = {m.cells : m \in mapped}
  /\ \A m \in mapped : DOMAIN mem[m.ptr] = m.cells /\ m.cells \subseteq buffer.cells
  /\ \A m, n \in mapped : m # n => m.cells \cap n.cells = {}
  /\ mapped # {} => buffer.state = "mapped"

\* A request that reports success, in a program that has not unmapped since, is
\* the one the buffer is mapped by, for its mode and its range: take() can rely
\* on a status written in an earlier frame (MapRequest.take, buffer.mojo 64).
SuccessIsOwn ==
  \A r \in Requests :
    requests[r].owner = "held" /\ requests[r].slot = "ok" /\ ~requests[r].over
      => buffer = [state |-> "mapped", mode |-> requests[r].mode,
                   cells |-> requests[r].cells, by |-> r]

\* In such a program no call into the browser throws: an exception would unwind
\* the wasm frames without running a destructor (mappedRange, webgpu_impl.mjs 45).
NeverThrows == ~thrown

\* The side that may access the cells.
Holder == CASE buffer.state = "none" -> "nobody"
            [] buffer.state = "unmapped" -> "gpu"
            [] buffer.state = "pending" -> "between"
            [] buffer.state = "mapped" -> "program"

Shared == INSTANCE SharedBuffer WITH content <- Mirrored, holder <- Holder

\* The buffer changes only by writes of the side that holds it: the program
\* reads what the GPU left, the GPU gets what the program wrote, and neither
\* mapping nor unmapping loses a write (releaseMapped and mappedRange).
ImplementsSharedBuffer == Shared!Spec

\* A request the program holds is answered, even when the buffer is unmapped
\* while it is being mapped (MapRequest.ready, buffer.mojo 58).
HeldMapAnswered ==
  \A r \in Requests :
    (requests[r].owner = "held" /\ requests[r].slot = "pending")
      ~> (requests[r].owner # "held" \/ requests[r].slot # "pending")
=============================================================================
