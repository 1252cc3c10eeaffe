------------------------------ MODULE Lifetimes ------------------------------
(***************************************************************************)
(* Who owns the GPU objects of a program: the RAII wrappers of wgpu/*.mojo, *)
(* the linear encoders and passes, Session and the GPU facade.              *)
(*                                                                         *)
(* wgpu counts references to every object (`native`); a wrapper stands for  *)
(* one of them and gives it back in its __deinit__.  `held` says where the  *)
(* wrappers are.  Mojo destroys a variable after its last use, so a program *)
(* may drop a wrapper between any two calls, and a function that took one   *)
(* by value drops it after its own last mention of it, which may be before  *)
(* the call into wgpu that still carries the handle.  An argument that is   *)
(* borrowed stays alive until the call returns: those calls are one step.   *)
(* Where a handle leaves its wrapper first, `call` is the function in       *)
(* progress and the handles it is about to pass.                            *)
(*                                                                         *)
(* wgpu itself keeps what recorded commands use; an object that is only     *)
(* kept that way is no longer valid as an argument.  The device outlives    *)
(* everything here, and everything is called from one thread.               *)
(***************************************************************************)
EXTENDS Integers, Sequences, FiniteSets

CONSTANTS
  Objs,         \* identities of native objects, reused once nothing refers to them
  MaxUserObjs,  \* bound: objects the program itself keeps at a time
  MaxRefs,      \* bound: wrappers of one object (clone)
  MaxShared,    \* bound: objects with more than one wrapper at a time
  MaxFlight,    \* bound: submissions the GPU has not finished
  CallerPins    \* the caller of GPU.dispatch keeps its buffers to the end of the call

ASSUME LifetimesAssumption ==
  /\ MaxUserObjs \in Nat /\ MaxShared \in Nat
  /\ MaxRefs \in Nat \ {0} /\ MaxFlight \in Nat \ {0}
  /\ CallerPins \in BOOLEAN

Pinnable == {"buffer", "group", "bgl", "cpipeline", "rpipeline", "playout", "shader",
             "texture", "view", "sampler"}
Clonable == Pinnable \cup {"query", "bundle", "cmd"}
Passes   == {"cpass", "rpass", "fpass"}       \* fpass: FrameRenderPass
Linear   == Passes \cup {"encoder", "bundleEncoder"}
Kinds    == Clonable \cup Linear \cup {"program"}

\* Where a wrapper is: a variable of the program, a list of the session, the
\* field of the open FrameRenderPass, a local of the function in progress.
Places == {"program", "session", "frame", "call"}

VARIABLES
  native,   \* wgpu's side: kind, reference count, what its commands use, and the
            \* encoder a pass was opened on
  held,     \* held[o][place]: the wrappers of o in that place
  flight,   \* what each submission the GPU is executing uses, oldest first
  session,  \* the program has a Session
  call      \* the library function in progress

vars == <<native, held, flight, session, call>>

Nothing == [kind |-> "none", refs |-> 0, uses |-> {}, into |-> {}]
NoCall  == [api |-> "none", pc |-> "none", passes |-> {}, uses |-> {}]

TypeOK ==
  /\ native \in [Objs -> [kind : Kinds \cup {"none"}, refs : 0 .. MaxRefs,
                          uses : SUBSET Objs, into : SUBSET Objs]]
  /\ \A o \in Objs : /\ native[o].refs = 0 <=> native[o] = Nothing
                     /\ native[o].into # {} => native[o].kind \in Passes
  /\ held \in [Objs -> [Places -> 0 .. MaxRefs]]
  /\ flight \in Seq(SUBSET Objs) /\ Len(flight) <= MaxFlight
  /\ session \in BOOLEAN
  /\ call \in [api : {"none", "Session.submit", "GPU.dispatch", "GPU.read"},
               pc : {"none", "bind", "submit", "poll"},
               passes : SUBSET Objs, uses : SUBSET Objs]

Init ==
  /\ native = [o \in Objs |-> Nothing]
  /\ held = [o \in Objs |-> [p \in Places |-> 0]]
  /\ flight = <<>>
  /\ session = FALSE
  /\ call = NoCall

----------------------------------------------------------------------------
\* wgpu<Object>AddRef, and wgpu<Object>Release on each object of S.
AddRef(n, o)  == [n EXCEPT ![o].refs = @ + 1]
Release(n, S) == [o \in Objs |-> IF o \notin S THEN n[o]
                                 ELSE IF n[o].refs = 1 THEN Nothing
                                 ELSE [n[o] EXCEPT !.refs = @ - 1]]

\* Moves of wrappers, one of each object of S.
Put(h, S, p)     == [o \in Objs |-> IF o \in S THEN [h[o] EXCEPT ![p] = @ + 1] ELSE h[o]]
Take(h, S, p)    == [o \in Objs |-> IF o \in S THEN [h[o] EXCEPT ![p] = @ - 1] ELSE h[o]]
Move(h, S, p, q) == Put(Take(h, S, p), S, q)
At(p)            == {o \in Objs : held[o][p] > 0}

\* What a program can name in a call: the objects it has a wrapper of.
Mine(kinds) == {o \in At("program") : native[o].kind \in kinds}

Referred == (UNION {native[o].uses \cup native[o].into : o \in Objs})
            \cup (UNION {flight[i] : i \in DOMAIN flight}) \cup call.uses \cup call.passes
Fresh    == {o \in Objs : native[o].refs = 0} \ Referred

\* Using an object uses what it is made of: a view its texture, a bind group its
\* buffers, a bundle its commands.
Closure(S) == S \cup UNION {native[o].uses : o \in S}

Object(k, uses, into) == [kind |-> k, refs |-> 1, uses |-> uses, into |-> into]

\* A call of the program that borrows its arguments.
Step(n, h) ==
  /\ call = NoCall
  /\ native' = n /\ held' = h
  /\ UNCHANGED <<flight, session, call>>

\* A function that returns a new wrapper to the program.
Make(k, uses) ==
  /\ Cardinality({o \in Objs : native[o].refs > 0}) < MaxUserObjs
  /\ \E o \in Fresh : Step([native EXCEPT ![o] = Object(k, uses, {})],
                           Put(held, {o}, "program"))

----------------------------------------------------------------------------
\* Creation (wgpu/device.mojo).  The arguments are borrowed wrappers; the entries of
\* a bind group are raw handles whose wrappers the caller keeps.
CreateBuffer  == Make("buffer", {})
CreateTexture == Make("texture", {})
CreateTextureView == \E t \in Mine({"texture"}) : Make("view", {t})
CreateFrameView   == Make("view", {})     \* of the texture a surface lends for a frame
CreateSampler == Make("sampler", {})
CreateShader  == Make("shader", {})
CreateLayout  == Make("bgl", {})
CreateGroup   == /\ Mine({"bgl"}) # {}
                 /\ \E R \in SUBSET Mine({"buffer", "sampler", "view"}) :
                      Make("group", Closure(R))
CreatePipelineLayout  == Mine({"bgl"}) # {} /\ Make("playout", {})
CanCreatePipeline     == Mine({"shader"}) # {} /\ Mine({"playout"}) # {}
CreateComputePipeline == CanCreatePipeline /\ Make("cpipeline", {})
CreateRenderPipeline  == CanCreatePipeline /\ Make("rpipeline", {})
GetBindGroupLayout    == Mine({"cpipeline", "rpipeline"}) # {} /\ Make("bgl", {})
CreateQuerySet        == Make("query", {})
CreateCommandEncoder  == Make("encoder", {})
CreateBundleEncoder   == Make("bundleEncoder", {})
CompileCompute        == Make("program", {})

Create ==
  \/ CreateBuffer \/ CreateTexture \/ CreateTextureView \/ CreateFrameView \/ CreateSampler
  \/ CreateShader \/ CreateLayout  \/ CreateGroup \/ CreatePipelineLayout
  \/ CreateComputePipeline \/ CreateRenderPipeline \/ GetBindGroupLayout
  \/ CreateQuerySet \/ CreateCommandEncoder \/ CreateBundleEncoder \/ CompileCompute

\* clone() adds a reference for the wrapper it returns.
Clone(o) ==
  /\ o \in Mine(Clonable) /\ native[o].refs < MaxRefs
  /\ Cardinality({q \in Objs \ {o} : native[q].refs > 1}) < MaxShared
  /\ Step(AddRef(native, o), Put(held, {o}, "program"))

\* A drop that releases its handle twice.
DropTwice(o) ==
  /\ o \in Mine(Kinds \ Linear)
  /\ Step(Release(Release(native, {o}), {o}), Take(held, {o}, "program"))

\* A wrapper's last use: its __deinit__ releases the handle.  Encoders and passes
\* have none; the compiler insists on finish, end or abandon.
Drop(o) ==
  /\ o \in Mine(Kinds \ Linear)
  /\ Step(Release(native, {o}), Take(held, {o}, "program"))

----------------------------------------------------------------------------
\* Command encoders, passes and bundles.
Open(k, e, uses) == \E p \in Fresh :
  Step([native EXCEPT ![p] = Object(k, uses, {e})], Put(held, {p}, "program"))

BeginComputePass(e) == e \in Mine({"encoder"}) /\ Open("cpass", e, {})

\* The descriptor is the caller's; it names a view the caller holds.
BeginRenderPass(e, v) ==
  e \in Mine({"encoder"}) /\ v \in Mine({"view"}) /\ Open("rpass", e, Closure({v}))

\* begin_render_pass_clear takes the view by value and moves it into the pass it
\* returns.  One FrameRenderPass is open at a time (bound).
NoFrame == \A o \in Objs : native[o].kind # "fpass"
BeginFramePass(e, v) ==
  /\ NoFrame /\ e \in Mine({"encoder"}) /\ v \in Mine({"view"})
  /\ \E p \in Fresh : Step([native EXCEPT ![p] = Object("fpass", Closure({v}), {e})],
                           Put(Move(held, {v}, "program", "frame"), {p}, "program"))

\* begin_surface_clear_pass with the view as a local of its own, gone after
\* `.handle()` was read from it.
BeginSurfacePassUnretained(e) ==
  /\ NoFrame /\ e \in Mine({"encoder"})
  /\ \E p \in Fresh : \E v \in Fresh \ {p} :
       Step([native EXCEPT ![p] = Object("fpass", {v}, {e})], Put(held, {p}, "program"))

\* begin_surface_clear_pass makes the view of the surface texture itself.
BeginSurfacePass(e) ==
  /\ NoFrame /\ e \in Mine({"encoder"})
  /\ \E p \in Fresh : \E v \in Fresh \ {p} :
       Step([native EXCEPT ![v] = Object("view", {}, {}), ![p] = Object("fpass", {v}, {e})],
            Put(Put(held, {v}, "frame"), {p}, "program"))

\* A call on an encoder or a pass that names objects: its commands use them.
Record(p, S) == Step([native EXCEPT ![p].uses = @ \cup Closure(S)], held)

RecordCopy(e, S) == /\ e \in Mine({"encoder"}) /\ Cardinality(S) \in 1 .. 2
                    /\ S \subseteq Mine({"buffer", "texture", "query"}) /\ Record(e, S)
RecordCompute(p, o) == /\ p \in Mine({"cpass"}) /\ Record(p, {o})
                       /\ o \in Mine({"cpipeline", "group", "buffer", "query"})
RecordRender(p, o) == /\ p \in Mine({"rpass"}) /\ Record(p, {o})
                      /\ o \in Mine({"rpipeline", "group", "buffer", "bundle", "query"})
RecordFrame(p, o) == /\ p \in Mine({"fpass"}) /\ Record(p, {o})
                     /\ o \in Mine({"rpipeline", "group"})
RecordBundle(b, o) == /\ b \in Mine({"bundleEncoder"}) /\ Record(b, {o})
                      /\ o \in Mine({"rpipeline", "group", "buffer"})

\* end() and abandon() consume the wrapper and release the handle.  The view of a
\* FrameRenderPass goes with its other fields.
Consume(n, p) ==
  LET V == IF native[p].kind = "fpass" THEN At("frame") ELSE {}
  IN Step(Release(n, V \cup {p}), Take(Take(held, {p}, "program"), V, "frame"))

\* end() also gives the commands of the pass to its encoder, if that is still open.
EndPass(p) ==
  /\ p \in Mine(Passes)
  /\ Consume([o \in Objs |-> IF o \in native[p].into /\ native[o].kind = "encoder"
                             THEN [native[o] EXCEPT !.uses = @ \cup native[p].uses]
                             ELSE native[o]], p)

Abandon(p) == p \in Mine(Linear) /\ Consume(native, p)

\* finish() without the release of the encoder.
FinishKeepsEncoder(e) ==
  /\ e \in Mine({"encoder"})
  /\ \E c \in Fresh : Step([native EXCEPT ![c] = Object("cmd", native[e].uses, {})],
                           Put(Take(held, {e}, "program"), {c}, "program"))

\* finish() makes the command buffer, then releases the encoder.  With a pass
\* still open wgpu reports an error and the command buffer does nothing.
FinishAs(e, from, to) ==
  /\ e \in Mine({from})
  /\ LET done == \A p \in Objs : e \notin native[p].into
         uses == IF done THEN native[e].uses ELSE {}
     IN \E c \in Fresh : Step(Release([native EXCEPT ![c] = Object(to, uses, {})], {e}),
                              Put(Take(held, {e}, "program"), {c}, "program"))
Finish(e)       == FinishAs(e, "encoder", "cmd")
FinishBundle(e) == FinishAs(e, "bundleEncoder", "bundle")

Encode ==
  \/ \E e \in Objs : BeginComputePass(e) \/ BeginSurfacePass(e)
  \/ \E e \in Objs : Finish(e) \/ FinishBundle(e)
  \/ \E e, v \in Objs : BeginRenderPass(e, v) \/ BeginFramePass(e, v)
  \/ \E e \in Objs, S \in SUBSET Objs : RecordCopy(e, S)
  \/ \E p, o \in Objs : RecordCompute(p, o) \/ RecordRender(p, o) \/ RecordFrame(p, o)
  \/ \E p, o \in Objs : RecordBundle(p, o)
  \/ \E p \in Objs : EndPass(p) \/ Abandon(p)

----------------------------------------------------------------------------
\* Device.queue_submit borrows the command buffer; wgpu consumes its commands.
CanSubmit == Len(flight) < MaxFlight
QueueSubmit(c) ==
  /\ call = NoCall /\ CanSubmit /\ c \in Mine({"cmd"})
  /\ flight' = Append(flight, native[c].uses)
  /\ native' = [native EXCEPT ![c].uses = {}]
  /\ UNCHANGED <<held, session, call>>

\* The GPU finishes submissions in order; poll(True) waits until it is idle.
GpuFinishes ==
  /\ flight # <<>>
  /\ flight' = Tail(flight)
  /\ UNCHANGED <<native, held, session, call>>
Idle == flight = <<>>

----------------------------------------------------------------------------
\* Session (wgpu/_core/session.mojo).
OpenSession ==
  /\ call = NoCall /\ ~session
  /\ session' = TRUE
  /\ UNCHANGED <<native, held, flight, call>>

Pin(o) ==
  /\ session /\ o \in Mine(Pinnable)
  /\ Step(native, Move(held, {o}, "program", "session"))

\* submit() takes the command buffer by value; its last mention of it is
\* `cmd.raw()`, so the wrapper is gone before queue_submit is called.
SessionSubmit(c) ==
  /\ call = NoCall /\ session /\ CanSubmit /\ c \in Mine({"cmd"})
  /\ native' = Release(native, {c})
  /\ held' = Take(held, {c}, "program")
  /\ call' = [api |-> "Session.submit", pc |-> "submit", passes |-> {c},
              uses |-> native[c].uses]
  /\ UNCHANGED <<flight, session>>

\* The call of queue_submit; a clone of the command buffer is left without commands.
\* What wgpu makes of a released handle is undefined: the commands run, or they are
\* lost.
SessionEnters ==
  /\ call.api = "Session.submit"
  /\ \/ flight' = Append(flight, call.uses)
     \/ (\E c \in call.passes : native[c].refs = 0) /\ flight' = flight
  /\ native' = [o \in Objs |-> IF o \in call.passes THEN [native[o] EXCEPT !.uses = {}]
                                ELSE native[o]]
  /\ call' = NoCall
  /\ UNCHANGED <<held, session>>

\* _drop_all, and the end of the lists when the session itself is dropped.
Unpin ==
  /\ native' = [o \in Objs |->
       IF held[o]["session"] = 0 THEN native[o]
       ELSE IF native[o].refs = held[o]["session"] THEN Nothing
       ELSE [native[o] EXCEPT !.refs = @ - held[o]["session"]]]
  /\ held' = [o \in Objs |-> [held[o] EXCEPT !["session"] = 0]]
  /\ UNCHANGED <<flight, call>>

\* flush() polls until the GPU is idle, then clears the lists.
Flush == call = NoCall /\ session /\ Idle /\ Unpin /\ UNCHANGED session

\* A session has no __deinit__: dropping it releases what it holds at once.
DropSession == call = NoCall /\ session /\ session' = FALSE /\ Unpin

SessionStep ==
  \/ OpenSession \/ SessionEnters \/ Flush \/ DropSession
  \/ \E o \in Objs : Pin(o) \/ SessionSubmit(o)

----------------------------------------------------------------------------
\* GPU.dispatch (wgpu/gpu.mojo) takes the program by value and the buffers as
\* raw handles.  A buffer the caller does not mention again is dropped when its
\* handle has been read, before dispatch starts.
DispatchCall(p, B) ==
  /\ call = NoCall /\ CanSubmit
  /\ p \in Mine({"program"}) /\ B \subseteq Mine({"buffer"}) /\ B # {}
  /\ \E D \in SUBSET B :
       /\ CallerPins => D = {}
       /\ native' = Release(native, D)
       /\ held' = Take(Move(held, {p}, "program", "call"), D, "program")
  /\ call' = [api |-> "GPU.dispatch", pc |-> "bind", passes |-> B, uses |-> B \cup {p}]
  /\ UNCHANGED <<flight, session>>

\* A queue_submit that takes the command buffer by value: it is gone before the call.
DispatchRecordsByValue ==
  /\ call.pc = "bind"
  /\ \E g \in Fresh : \E c \in Fresh \ {g} :
       /\ native' = [native EXCEPT ![g] = Object("group", call.passes, {})]
       /\ held' = Put(held, {g}, "call")
       /\ call' = [call EXCEPT !.pc = "submit", !.passes = {c}, !.uses = @ \cup {g}]
  /\ UNCHANGED <<flight, session>>

\* The function's own bind group and command buffer; its encoder and pass are
\* opened and finished in between and leave nothing behind.
DispatchRecords ==
  /\ call.pc = "bind"
  /\ \E g \in Fresh : \E c \in Fresh \ {g} :
       /\ native' = [native EXCEPT ![g] = Object("group", call.passes, {}),
                                   ![c] = Object("cmd", call.uses \cup {g}, {})]
       /\ held' = Put(held, {g, c}, "call")
       /\ call' = [call EXCEPT !.pc = "submit", !.passes = {c}, !.uses = @ \cup {g}]
  /\ UNCHANGED <<flight, session>>

\* GPU.read of a buffer that cannot be mapped: a staging buffer and the commands
\* that copy into it.  `buffer` is borrowed for the whole call.
ReadCall(b) ==
  /\ call = NoCall /\ CanSubmit /\ b \in Mine({"buffer"})
  /\ \E s \in Fresh : \E c \in Fresh \ {s} :
       /\ native' = [native EXCEPT ![s] = Object("buffer", {}, {}),
                                   ![c] = Object("cmd", {b, s}, {})]
       /\ held' = Put(held, {s, c}, "call")
       /\ call' = [api |-> "GPU.read", pc |-> "submit", passes |-> {c}, uses |-> {b, s}]
  /\ UNCHANGED <<flight, session>>

InFacade(pc) == call.api \in {"GPU.dispatch", "GPU.read"} /\ call.pc = pc

\* Without the tail pins every local but the program goes after its last call.
FacadeSubmitsUnpinned ==
  /\ InFacade("submit")
  /\ flight' = Append(flight, UNION {native[c].uses : c \in call.passes})
  /\ LET L == {o \in At("call") : native[o].kind # "program"}
     IN native' = Release(native, L) /\ held' = Take(held, L, "call")
  /\ call' = [call EXCEPT !.pc = "poll", !.passes = {}]
  /\ UNCHANGED session

\* queue_submit(cmd) borrows it; that is its last use, so it is dropped next.
FacadeSubmits ==
  /\ InFacade("submit")
  /\ flight' = Append(flight, UNION {native[c].uses : c \in call.passes})
  /\ native' = Release(native, call.passes)
  /\ held' = Take(held, call.passes, "call")
  /\ call' = [call EXCEPT !.pc = "poll", !.passes = {}]
  /\ UNCHANGED session

\* poll(True) has returned: the tail pins end, and the locals with them.
FacadeReturns ==
  /\ InFacade("poll") /\ Idle
  /\ native' = Release(native, At("call"))
  /\ held' = Take(held, At("call"), "call")
  /\ call' = NoCall
  /\ UNCHANGED <<flight, session>>

Facade ==
  \/ DispatchRecords \/ FacadeSubmits \/ FacadeReturns
  \/ \E p \in Objs, B \in SUBSET Objs : DispatchCall(p, B)
  \/ \E b \in Objs : ReadCall(b)

Next ==
  \/ Create \/ Encode \/ SessionStep \/ Facade \/ GpuFinishes
  \/ \E o \in Objs : Clone(o) \/ Drop(o) \/ QueueSubmit(o)

Spec == Init /\ [][Next]_vars

----------------------------------------------------------------------------
\* Every reference wgpu counts belongs to exactly one wrapper: whatever the order
\* of clones, moves, drops, ends and finishes, nothing is released twice and
\* nothing is left behind (README.md:36, "frees its native handle").
RefsMatchOwners ==
  \A o \in Objs : native[o].refs = held[o]["program"] + held[o]["session"]
                                     + held[o]["frame"] + held[o]["call"]

\* A handle that has left its wrapper still has an owner when it is passed to
\* wgpu: the buffers GPU.dispatch puts into its bind group, and the command
\* buffers the facade submits.  Session.submit is the subject of SubmitIsOwned.
HandlesOwned ==
  call.api # "Session.submit" => \A o \in call.passes : native[o].refs > 0

\* The command buffer Session.submit passes to queue_submit has an owner
\* (wgpu/device.mojo:670, "Borrowing `cmd` keeps it alive for the FFI call").
SubmitIsOwned ==
  call.api = "Session.submit" => \A o \in call.passes : native[o].refs > 0

\* While GPU.dispatch or GPU.read waits for its submission, everything that the
\* submission uses is still owned: the tail pins of wgpu/gpu.mojo.
KeptUntilDone ==
  (call.pc = "poll" /\ ~Idle) => \A o \in call.uses : native[o].refs > 0

\* A FrameRenderPass keeps its view until end() or abandon() (wgpu/command.mojo,
\* "keeps the view alive until end()/abandon()").
FrameViewKept ==
  \A p \in Objs : native[p].kind = "fpass" =>
    \E v \in native[p].uses : native[v].kind = "view" /\ held[v]["frame"] = 1
=============================================================================
