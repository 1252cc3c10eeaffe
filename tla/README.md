# A verification project for wgpu-mojo

wgpu-mojo binds wgpu-native and the browser's WebGPU to Mojo. Most of it forwards one call to one
C function and keeps nothing but a handle. What can go wrong is in the parts that keep state
*between* calls: callbacks that arrive late, queues that overflow, a frame loop that nothing may
block, wrappers that release handles somebody else still uses. This directory models those parts
in TLA+, checks them with TLC on small instances, and proves the most important properties with
TLAPS for every size.

Paths below are relative to the repository; `PROJECT.json` maps each TLA+ definition to its lines.

## 1. Inventory

### Parts that keep state

| part | source | state | operations |
|---|---|---|---|
| asynchronous requests | `wgpu/pending.mojo`; the `*Request` types of `instance`, `adapter`, `device`, `buffer.mojo`; `*_start`, `wait_for`, `*_sync` in `loader.mojo`; `callbacks.mojo`; `completion` in `webgpu_impl.mjs` | a heap slot per request, its status, the address wgpu holds | `*_async`, `ready`, `wait`, `take`, drop, `*_sync`, the callbacks |
| object lifetimes | wrappers in `wgpu/*.mojo`, `command.mojo`, `compute_pass.mojo`, `render_pass.mojo`, `_core/session.mojo`, `gpu.mojo` | wgpu's reference counts, which wrapper owns which reference | create, clone, drop, begin/end/finish/abandon, submit, pin, flush, `GPU.dispatch`, `GPU.read` |
| log bridge | `ffi/wgpu_callbacks.c`, `drain_log` in `diagnostics.mojo` | a ring of 256 entries, two cursors, a drop counter, a mutex | log callback, take, drain |
| window input | `glfw_input_callbacks.c`, `rendercanvas/input.mojo`, `RenderCanvas.poll` | one static event queue; per canvas: keys, edges, cursor, deltas | GLFW callbacks, `begin_frame`, `update` |
| web application host | `web/wgpu_host.mjs`, `wgpu/web/boot.mojo`, `capture.mojo`, `triangle_web.mojo` | animation-frame callbacks, GPUBoot's requests, one capture | `startApp`, `loop`, `captureFrame`, `wgpu_app_*` |
| buffer mapping | `wgpu/buffer.mojo`, `_core/wgpu_native/buffer.mojo`, `webgpu_impl.mjs` 28-53, 147-160 | mapped ranges, their mirrors in the program's memory | map, take, read, write, unmap, release |
| presentation | `surface.mojo`, `canvas.mojo`, `glfw.mojo` | GLFW, windows, surface configuration, frame textures | create, configure, `get_current_texture`, `present`, destroy |
| web handle table | `webgpu_runtime.mjs`, `webgpu_host.mjs` | `handles`, `nextHandle`, `deferred` | `put`, `get`, `drop`, `defer`, drain |
| allocator of the web build | `ffi/wasm/wasm_rt.c` | free lists by size class, `brk` | `rt_alloc`, `rt_free`, growth |

Stateless, and not modelled: descriptor builders (`descriptors.mojo`), forwards to native-only
calls (`native_ext.mojo`), generated struct layouts and constants, the symbol loader, `wgpu_max`
(copies through host memory), build and ABI-check scripts.

### How they interact

* A typed request owns a `Pending`, which owns a slot in the heap; wgpu holds the slot's address
  as `userdata1`. Mojo, wgpu's threads (natively) and the browser's promises meet in that cell.
* `wait_for` pumps: `wgpuInstanceProcessEvents`, and a blocking `wgpuDevicePoll` when the request
  has a device. In a browser nothing blocks: one `ready()` per animation frame drains `deferred`.
* A wrapper holds one native reference. Recorded commands keep what they use *inside* wgpu, but an
  object kept only that way is no longer a valid argument. Mojo destroys a variable after its last
  use, so "the wrapper is still in scope" is not an argument.
* `Session` and `GPU` pass handles on: `GPU.dispatch` binds the caller's buffers and submits,
  `Session.submit` consumes the caller's command buffer.
* `RenderCanvas.poll` lets GLFW call the C callbacks, which fill the static queue that
  `update` then drains into that canvas's `InputState`.
* `wgpu_host.mjs` calls `wgpu_app_frame` once per animation frame; `captureFrame` waits in
  animation frames of its own and speaks to the app through `want_capture` and `capture_ptr`. The
  app's picture is a map request, polled by each frame.

### What is hard, and what makes each part correct

| part | hard behaviour | correct when |
|---|---|---|
| requests | callbacks on another schedule than the caller; slots freed and reused; bounded waits; a dropped request | callbacks write only into their own live slot; answers are not mixed up; references are released once; waits end; polling completes |
| lifetimes | last-use destruction; clones and moves; handles read out of their wrapper before the call; commands in flight | references and wrappers agree; handles passed to wgpu are owned; what the GPU uses for a facade call stays owned; a session keeps its pins until it is flushed |
| log | several writers and a reader; the full ring | the ring is a bounded drop-oldest queue; messages are whole, counted, drained once |
| input | overflow; one queue for several windows; edges within a frame | key states, edges and deltas agree with the events not lost |
| web host | order of animation-frame callbacks; concurrent captures; a loop that ends | no capture into a mapped buffer; pictures are awaited, fresh, and delivered |
| mapping | unmap racing completion; mirrors of several ranges; buffer dropped first | one outcome per request; a success is still true when taken; writes reach the GPU, reads come from it; mirrors are freed once |
| allocator | headers and links share memory with the program's data; growth may be refused | regions are disjoint, aligned and untouched by other calls; no block is lost; freed memory is reused |
| presentation | order of destruction; shared surfaces; resize | every frame texture and window is released once, by its owner |

The hazards behind these, each at its line, are listed in `PROJECT.json` with the properties that
cover them or the reason none does.

## 2. Modules

| module | what it is |
|---|---|
| `AsyncRequests` | slots, callbacks, waits and drops of all five kinds of request, natively and in a browser |
| `AsyncRequestsProofs` | six theorems about it |
| `LogQueue` | abstract: a bounded queue that drops its oldest message and counts it |
| `LogRing` | the C ring under its mutex, each access to a slot a step; implements `LogQueue` |
| `LogRingProofs` | four theorems, the refinement among them |
| `SharedBuffer` | abstract: a buffer that is written by the program or by the GPU, never by both |
| `BufferMapping` | map requests, mirrors and `unmap` in a browser; implements `SharedBuffer` |
| `BufferMappingProofs` | six theorems, the refinement among them |
| `Heap` | abstract: what the program may expect of an allocator |
| `WasmHeap` | the allocator of the web build, with its headers and links in memory; implements `Heap` |
| `WasmHeapProofs` | five theorems, the refinement among them |
| `InputEvents` | GLFW callbacks, the static queue, `poll` and `InputState` |
| `InputEventsProofs` | three theorems: types, key states, edges and movement |
| `WebApp` | frame loop, GPUBoot, captures |
| `WebAppProofs` | five theorems: everything the run checks but liveness |
| `QueueLemmas` | lemmas about two queues in a row, for the three modules above |
| `Lifetimes` | who owns the references of GPU objects |
| `LifetimesProofs` | six theorems: reference balance and the ownership results |
| `MC*` | the instances TLC runs |

### Correspondence with the code

**AsyncRequests.** `alloc` and `writer` are the heap: which request a cell was allocated for and
whose callback wrote it last (`Nil` is status 0, pending). `userdata` is wgpu's copy of the
address, `slot` the caller's. `pc` says who owns the slot: a `Pending` ("held"), a `*_sync`
function ("sync"), nobody. `StartSlot` is a `*_start` function up to and including the call into
wgpu, which natively may run the callback before it returns. `Pump` is `WGPULib.pump`: without a
device it may run any callbacks or none; a blocking device poll runs every callback of that
device. `WaitPump`, `WaitDone` and `WaitGiveUp` are the loop of `wait_for` with its check before
each pump and none after the last. `StartSync` is each of the four blocking calls of the loader;
those for adapters and devices wait without a device, so `WaitGiveUp` may leave a completed slot
behind, which the run `requests_raise` shows. `Drop` is `Pending.__deinit__`. Adapter and device results are
handles with a reference (`refs`) that `take()` wraps (`wrappers`); an error-scope result is a
heap copy of a message.

**LogRing.** Each lock operation and each access to a field of a slot is an action: level, length
and text are written one after the other (`WriteLevel`, `WriteLength`, `WriteText`) and read one
after the other (`CopyLength`, `CopyText`, `CopyLevel`), so the mutex is what makes an entry whole,
not the model. The cursors and the drop count are coarser: `MakeRoom` tests for a full ring, moves
`tail` and counts in one step, `Publish` and `Advance` read and write their cursor in one, and the
test for an empty ring goes with the first copy or with the release of the mutex. All code that
touches them holds the mutex. The pc values `*_evicted` are the same code after the branch for a full ring; they
let the refinement mapping see that the oldest message is already gone while the new one is not
yet published: abstractly it leaves the queue in the step that publishes the new one.

**InputEvents.** `pending` holds what GLFW will deliver with the next `glfwPollEvents`; each
`Callback` is one C callback with `_push_event`; `Begin`, `PumpDone`, `Drain` and `DrainDone` are
`poll`. `queue` is the ring as a sequence (its cursors are those of `LogRing`, which is checked at
that level, and it has one thread). Keys stand for keys and mouse buttons, one coordinate for two.
The events a full queue loses may be releases, and the queue is one for all windows: what a canvas
shows is right about the events it drained, which is what the properties say, and no more.

**WebApp.** One action is one JavaScript task or one animation-frame callback with its
microtasks. `raf` and `turn` are the callbacks of the next and of the current animation frame, in
order. `map` is `capture_req` with its mapping's state, `ready` is `capture_ptr # 0`. `loop` calls
`wgpu_app_frame`; the outcomes of a frame are actions. One of them is a frame that raises:
`GPUBoot.step` raises once and answers False ever after, so what ends the loop is the application's
`failed`, which `LoopUntilEnded` relates to the loop.

**BufferMapping.** The browser's side is `buffer`, `got`, `data` and `promise`; it is external and
modelled from how `webgpu_impl.mjs` uses it. A settled promise runs its reaction as a microtask
(`RunMicrotasks`), which defers the callback, which a later `ready()` of *any* request drains
(`Ready`). Until then the program's knowledge is old: `SuccessIsOwn` says when it is still true.
`mapped` is the list of mirrors kept for the buffer's handle and `mem` the memory they occupy.
The program is held to the documented use: the `Buffer` lives until `take()`, a range is taken
once, and a request is not taken after an `unmap()` (`over`). Within that use it may do anything:
map while a map is pending, drop a request, drop the buffer while a map whose request is already
dropped is still under way (the promise left over is settled by `OrphanSettles`), map again. One
buffer: handles do not share mirrors.

**WasmHeap.** Memory is counted in units of 16 bytes, the header's size and the least alignment.
A unit holds two words: `cls` and `pad` of a header, or the link of a free block in the first.
The header is the unit before the pointer; for the least alignment it is also the block's first
unit, so storing the link overwrites `cls`. `rt_free` uses `h->cls` once more after that store.
The two accesses have different types, so compiling C with its usual aliasing rules lets the
compiler keep the value it loaded, and `-O2` does; `FreedClass` is that build, and its mutant
`ClassReloaded` is the one with `-fno-strict-aliasing`, for which `FreeListsWhole` fails.
`rt_alloc` is `Recycle`, `Carve` or `GrowRefused`. `blocks`, `parked` and `peak` are history: what
was cut, the free lists as sequences, the most blocks live at a time. No action reads them, except
to update them.

**Lifetimes.** `native` is wgpu's side: kind, count, what commands recorded so far use. `held` is
the wrappers by place: variables of the program, the session's lists, the field of an open
`FrameRenderPass`, the locals of a facade function. `Step` is a call that borrows its arguments,
hence atomic; where a handle leaves its wrapper before the call into wgpu (`Session.submit`,
`GPU.dispatch`, `GPU.read`), `call` keeps the function in progress and the handles it will pass. `queue_submit` consumes the
commands of what it is given (`QueueSubmit`, `SessionEnters`), also when a clone of the command
buffer lives on. `DropSession` is the end of a `Session` variable: it has no destructor of its own,
so its lists go with it, flushed or not.
Abstractions: overloads that take raw handles are the same call with a caller that keeps the
owner; the device outlives everything; one `FrameRenderPass` is open at a time; a pass left open
makes `finish` produce a command buffer without commands; the `ComputeProgram` of the facade
(module, layouts, pipeline) is one object; the direct-mapping path of `GPU.read` moves no
ownership and is left out.

## 3. Runs

All runs finish within five minutes on two workers. `CHECK_DEADLOCK FALSE` is said where the
program may just stop (all requests issued, nothing in flight; an idle program).

| run | module, cfg | shows |
|---|---|---|
| `requests_native` | `AsyncRequestsNative` | `CallbackHitsOwnSlot`, `AnswerIsOwn`, `ReferencesBalanced`, `DeviceWaitExpiresOnlyIfLost`, `DoneSlotIsFreed`, and that each blocking wait ends (`WaitReturns`), with a wgpu that may lose callbacks |
| `requests_web` | `AsyncRequestsWeb` | `HeldRequestCompletes` by polling alone |
| `requests_raise` | `AsyncRequestsRaise` | finding: a wait without a device raises "callback did not fire" after the callback ran |
| `lifetimes` | `Lifetimes` | `RefsMatchOwners`, `HandlesOwned`, `KeptUntilDone`, `FrameViewKept` |
| `session_submit` | `SessionSubmit` | finding: `Session.submit` releases the command buffer before submitting it |
| `dispatch_unpinned` | `DispatchUnpinned` | finding: `GPU.dispatch` called as in `README.md` binds released buffers |
| `log_ring` | `LogRing` | refinement of `LogQueue`, `Accounted`, `NothingTorn`, `DrainReturns` |
| `input` | `Input` | `KeysShownTrue`, `FrameReportTrue` (edges and movement) with overflow and two canvases |
| `web_capture` | `WebCapture` | `NeverCapturesMapped`, `PictureIsAwaited`, `AwaitersRegistered`, `FreshPicture`, `CaptureReturns` while anything may fail |
| `web_capture_lost` | `WebCaptureLost` | finding: of two captures before one frame, one waits for ever |
| `buffer_mapping` | `BufferMapping` | refinement of `SharedBuffer`, `OneOutcome`, `MirrorsMatch`, `SuccessIsOwn`, `NeverThrows`, and that a polled map request is answered (`HeldMapAnswered`) |
| `wasm_heap` | `WasmHeap` | refinement of `Heap`, `HeadersKept`, `FreeListsWhole`, `NoneWasted` |

### Bounds

* **Requests**: three requests of different kinds. Natively the heap has two cells, fewer than
  requests, so cells are reused; a stray write needs one request to free and another to reuse. `MaxPumps = 2` stands for
  10 000: a wait can succeed on entry, after a pump, or give up. The proofs need only
  `MaxPumps >= 2`.
* **Log**: a ring of three slots (two messages) wraps and overflows with four messages; two
  writers and one reader contend for the mutex. The proof covers all sizes and thread counts.
* **Input**: up to three pending events per poll and a queue of two: every poll may overflow by
  one; a press, a release and a press fit into one frame. One position besides the initial one
  suffices for sums of differences; a key of each canvas is independent of other keys.
* **Web**: three callers: one waits, one is served, one arrives; two already collide. The state
  space is finite without other bounds.
* **Mapping**: two cells give ranges that are equal, disjoint, nested; two requests let one be stale
  or refused while the other maps; a mirror per request. Every request is reused, so histories are
  unbounded and the state space still finite.
* **Heap**: three classes, of two, four and eight units, and alignments from one unit to four: each
  alignment pads differently. The memory starts with five units after the heap base, grows up to
  twice, and is then refused. Three live regions: one is freed between two others, and of those one
  may be of the same class. `MaxMemory` is what the engine grants; `MaxLive` cuts programs short.
* **Lifetimes**: four objects, three of them the program's and one or two made inside a facade
  call. `MaxRefs = 2` and `MaxShared = 1`: one object at a time has a clone (clones of different
  objects do not interact). One submission in flight: `flush` and the facade wait for all of them,
  and a longer queue only delays that. Identities are reused once nothing refers to them, which is
  what makes a stale handle visible. Objects are symmetric.

### Fairness

* `CompletionFairness`: wgpu calls, or the browser settles, what is in flight. Used with
  `Lossy = FALSE` only. `PollFairness`: the program keeps polling the requests it holds, as the
  frame loop does (`loop` in `wgpu_host.mjs` asks for the next frame before it ends).
* `WaitFairness`: the thread inside `wait_for` keeps running. Nothing is assumed of wgpu, so
  `WaitReturns` is the bound at work.
* `LogRing!FairSpec`: a thread inside the callback or inside `drain_log` keeps running; weak
  fairness is enough because messages are finite. Threads need not start.
* `WebApp!FairSpec`: the browser runs animation frames and their callbacks and settles promises.
* `BufferMapping!Fairness`: the browser settles the promise of a pending map and runs reactions, and
  the program polls each request it holds. Nothing makes the program unmap or take.
* `Lifetimes`, `InputEvents` and `WasmHeap` have none: a program may stop calling.

## 4. Proofs

TLAPS checks every theorem below. What it assumes of the constants (`RequestsAssumption`,
`RingAssumption`, `LifetimesAssumption`, `MappingAssumption`, `InputAssumption`,
`WebAppAssumption`) is what they are: types, identifiers that differ, sizes that are not zero.
`HeapAssumption` says more, each part of it from the code: larger classes have larger blocks, the
smallest of two units (`1 << 5` bytes), a class large enough for each size and alignment asked for,
`__heap_base` inside the initial memory.

**AsyncRequestsProofs.** `IInv` adds to the properties what request, slot and address know of
each other: `SlotInv` (a held slot is the one wgpu has, is allocated to its request and is written
exactly when the callback has fired), `BlockedInv` (a wait on a request with a device finds its
callback fired or lost after one pump, so giving up means lost) and `RefInv` (where the reference
of a result is). `CallbackHitsOwnSlot` alone is not inductive: a drop frees the slot when the
status is set, and only `SlotInv` says that a status is set by nobody else's callback. Theorems
`TypeCorrect`, `NoStrayCallback`, `OwnAnswers`, `Balanced`, `DeviceWaits`, `DoneSlotsAreFreed`.

**LogRingProofs.** `IInv` has `LockInv` (exactly the thread between lock and unlock holds the
mutex), `WriterInv` and `ReaderInv` (what that thread may count on) and `SlotsWhole` (published
slots hold one message). With it `NothingTorn` and `Accounted` are inductive. The refinement
`RingIsQueue` adds `WindowInv` and `QueuedInv`, the ring read as a sequence; each step maps to
`Log`, `Drain` or a stutter. Theorems `TypeCorrect`, `AllAccounted`, `NoneTorn`, `RingIsQueue`.

**LifetimesProofs.** `IInv` is `Balanced /\ OthersTyped /\ FrameInv /\ CallInv`. `RefsMatchOwners`
alone is not inductive: a release takes one reference *and* one wrapper, so it must know that the
wrapper it takes is in the place it takes it from, and that a count that reaches zero leaves no
wrapper anywhere. `Agree` says this of one object, with what else a step needs of it (only
clonable objects have several wrappers, only views are fields of a pass, a `FrameRenderPass` stays
with the program), and `Balanced` of all. `FrameInv` ties the one open `FrameRenderPass` to the one
view in the place "frame". `CallInv` is what a facade function may count on between its calls:
what it passes is its own, and is not among what its commands use. The lemmas follow the model's
helpers (`CreatedAgrees`, `ReleasedAgrees`, `MovedAgrees`, `ClonedAgrees`, `RecordedAgrees`), and
`CalmKeeps` covers every step that leaves the frame pass and its view alone; each action then has
one lemma. Theorems `TypeCorrect`, `ReferencesMatch`, `FrameViewIsKept` for every program, and `FacadeOwns`
(`HandlesOwned`) and `FacadeKeeps` (`KeptUntilDone`) under `CallerPins`; the run
`dispatch_unpinned` shows that this hypothesis cannot be dropped.

**BufferMappingProofs.** A success is told to the program long after the mapping was made: it waits
as a microtask, then among the deferred callbacks, then in a request nobody has taken yet.
`SuccessIsOwn` speaks of the last of these places only and is not inductive. `IInv` follows the
outcome from the start. `StagesInv`: the outcome of an awaited request is in exactly one of the
promise, the microtasks and the deferred callbacks, once, and no other request has one there; with
the end of the promise this is `OneOutcome`. `PendingInv`: a usable request whose promise is
pending is the one the buffer is being mapped by. `SuccessInv`: a usable request with a success
told or under way is the one the buffer is mapped by, for its own range, which nobody has taken yet.
`ReadInv` is `MirrorsMatch` seen from the reader: what `take()` found is a mirror. `FreshInv` keeps
requests not yet made out of every queue; `MirrorsMatch` and `NeverThrows` complete it. The
refinement takes the buffer as seen through its mirrors (`Mirrored`) for the content of
`SharedBuffer`: `unmap` commits the mirrors, so abstractly the buffer only changes hands, and every
step of an outcome on its way is a stutter. Theorems `TypeCorrect`, `MirrorsAgree`, `SuccessesHold`, `NothingThrows`,
`OutcomesAreOne`, `MappingShares`.

**InputEventsProofs.** `KeysShownTrue` says what a canvas shows between polls, when nothing is on
its way; a poll takes many steps to get there. `KeyInv` says it of any state, per canvas and key,
about `Coming`, the queue followed by what GLFW has yet to deliver: its last event about the key is
what GLFW believes (`EndsAs`), presses and releases alternate (`Alternates`), and unless the key is
stale the first event changes what the canvas shows (`StartsFrom`), which without any event is what
GLFW believes. A callback moves an event from one part of `Coming` to the other, or loses the
oldest of the queue; `update` takes the first. The edges of a frame rest on it: with nothing lost
(`IntactInv`) an event that `update` takes changes the state it reports. `ScrollInv` bounds what one
frame can scroll. Theorems `TypeCorrect`, `KeysTrue`, `ReportsTrue`.

**WebAppProofs.** That no frame writes into a mapped buffer is nowhere checked in the code; it
follows from the order of animation-frame callbacks. `ReadyInv` says how: while a picture is ready,
a caller that waits for it is registered ahead of the loop, so it fetches the picture (and unmaps)
before the next frame runs. `MappedInv` says when the buffer is mapped, `AwaitersRegistered` that
nobody who waits has dropped out of the frame's callbacks. `FreshPicture` needs `AloneInv`: while a
caller that nobody overlapped waits, nobody else does, and a capture under way was started for it.
`NeverCapturesMapped` is a property of steps and follows from the first two. Theorems
`TypeCorrect`, `AwaitersStay`, `PicturesAwaited`, `CapturesUnmapped`, `PicturesFresh`.

**WasmHeapProofs.** A header or a link is right as long as nobody writes over it, and what keeps
others from doing so is the layout of all blocks. `IInv` states that layout. `BlocksInv`: blocks lie
side by side from the heap base to `brk`. `HeadersKept` and `FreeListsWhole`: what the headers of
held blocks and the links of free ones say. `OwnedInv`: each block is on one list at one place or
behind one pointer, never both; `FootprintIsPeak` counts them. `HeadersKept` alone is not inductive:
only `OwnedInv` says that a block taken from a list has no pointer. The lemma `Frame` says what a
write inside one block leaves alone, `Placement` that header and region stay inside the block
whatever the alignment, `Growth` that the pages asked for are enough, and `ClassHolds` that the
loop over the classes ends at one that is large enough. The refinement takes the units of live
regions for the data of `Heap`; `Recycle` and `Carve` are `Alloc`, and a refused growth stutters.
Theorems `TypeCorrect`, `HeadersStay`, `ListsWhole`, `MemoryReused`, `AllocatorIsHeap`.

**QueueLemmas** has what the last three of these proofs share: what appending to the second of two
queues, taking from the first, and passing an element from one to the other does to both together.

Every safety property, action property and refinement that a passing run checks is thus also a
theorem. Only model-checked are the liveness properties (`WaitReturns`, `HeldRequestCompletes`,
`DrainReturns`, `CaptureReturns`, `HeldMapAnswered`): fairness and ENABLED are outside the prover's
reach. The findings below are counterexamples, which TLC finds and a proof does not replace.

## 5. Findings

* **Session.submit** (`_core/session.mojo:143`): `cmd` is mentioned for the last time in
  `cmd.raw()`, so it is released before `queue_submit` runs with its handle
  (`SubmitIsOwned`).
* **captureFrame** (`wgpu_host.mjs:43`): two calls before the same frame share one picture; one of
  them never returns (`EveryCaptureReturns`).
* **GPU.dispatch** (`gpu.mojo:208`): `README.md` says no lifetime pins are needed; the raw handles
  it takes keep nothing alive (`HandlesOwned` with `CallerPins = FALSE`).
* **wait_for** (`loader.mojo:353`): its bound is said to turn only *lost* callbacks into errors, and
  its error says that the callback did not fire. Without a device nothing in the loop blocks, so for
  adapter and device requests the bound is a timeout, and the loop raises after its last pump without
  looking at the slot again. The run shows it raising after the callback ran;
  `instance_request_adapter_sync` and `adapter_request_device_sync` then leave the completed slot and
  its handle behind (`RaiseMeansNotFired`).

One more disagreement is in the model without a run of its own, since it takes a single step to see:
`_core/session.mojo:45-46` says that what a session pins is "released only when flush() is called
(after the GPU finishes)", but a `Session` that is dropped releases its pins at once (`DropSession`).

## 6. Plan

Order: first what every program runs through (requests, lifetimes), then the rest by risk.

1. Done: `AsyncRequests`, `LogQueue`/`LogRing`, `InputEvents`, `WebApp`, `Lifetimes`,
   `SharedBuffer`/`BufferMapping`, `Heap`/`WasmHeap`.
2. Done: proofs of all safety properties and of the three refinements.
3. `Presentation`, if a property is found that is more than a restatement (see below).

## 7. Not modelled, and why

* **Declarations.** Most lines of C in the repository are the vendored headers `ffi/include/webgpu/`
  (types and prototypes of an external library): there is no behaviour in them to model.
  `ffi/mojo_callback_probe.c` is a probe of calling conventions without state. The program itself
  is Mojo and JavaScript; that is what the modules model, with the three stateful C files.
* **Presentation** (`surface.mojo`, `canvas.mojo`, `glfw.mojo`). What can go wrong is known and
  listed under the hazards: the destructor of one canvas ends GLFW for all, a clone of a surface
  unconfigures it, frame textures are not released, a constructor that fails half-way leaves GLFW
  initialised. Each is visible in one function, with one canvas or two and no interleaving, and a
  model would only restate it.
* **Native mapping.** The blocking helpers (`map_read` and the like, `MappedBuffer`) wait as
  `AsyncRequests` models it and then use wgpu's own pointer; there is no mirror to keep in step.
* **Web handle table.** `put`, `get` and `drop` are a map with a counter that is never reused;
  `defer` and its drain are in `AsyncRequests` and `BufferMapping`. Struct translation has no state.
* **Bindings and tables.** Struct marshalling and generated layouts are pure data, which the
  repository's ABI probes check; the symbol loader keeps no state after start-up; `wgpu_max` copies
  through host memory; build scripts keep nothing.
* **External.** Shaders and the GPU's execution; memory limits of the driver and device loss, which
  wgpu reports through callbacks that the library only logs.
