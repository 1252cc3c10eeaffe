------------------------------- MODULE WebApp -------------------------------
(***************************************************************************)
(* A wgpu-mojo application in a browser: web/wgpu_host.mjs drives one        *)
(* wgpu_app_frame per animation frame, GPUBoot (wgpu/web/boot.mojo) sets up  *)
(* the GPU without blocking, and captureFrame asks the application of        *)
(* examples/web/triangle_web.mojo for the pixels of a frame.                *)
(*                                                                         *)
(* JavaScript is single-threaded: each action is one task, or one           *)
(* requestAnimationFrame callback with the microtasks it triggers.  The     *)
(* callbacks of an animation frame run in the order they were registered;   *)
(* one registered meanwhile runs in the next frame.  Promises settle between *)
(* tasks, and Mojo sees that when it next polls.                            *)
(***************************************************************************)
EXTENDS Naturals, Sequences

CONSTANTS
  Callers,   \* pieces of page code that call captureFrame, each one call at a time
  Loop,      \* the callback `loop` of startApp
  MayFail    \* TRUE when a request, a mapping or a frame may fail

ASSUME WebAppAssumption == Loop \notin Callers /\ MayFail \in BOOLEAN

VARIABLES
  raf,      \* callbacks registered for the next animation frame, in order
  turn,     \* callbacks of the current animation frame still to run
  boot,     \* GPUBoot: "adapter" or "device" requested, or "ready"
  promise,  \* the request GPUBoot polls: "pending", "ok" or "failed"
  ending,   \* how `loop` ended: "none", "failed" (in startApp's `failed`) or "thrown"
  want,     \* want_capture
  map,      \* capture_req: "none", or its mapping: "pending", "ok", "failed"
  ready,    \* capture_ptr # 0
  mapped,   \* the readback buffer is mapped, or being mapped
  content,  \* the calls that were waiting when the frame in that buffer was
            \* drawn, by their callers (history)
  shared,   \* callers whose call overlapped another one (history)
  edge,     \* InputState has a just-pressed or just-released key
  pc        \* captureFrame of each caller: "idle" or "waiting" for a frame

vars == <<raf, turn, boot, promise, ending, want, map, ready, mapped, content, shared,
          edge, pc>>

capture == <<want, map, ready, mapped, content, shared>>

\* startApp has returned: the requests of GPUBoot are out and `loop` is registered.
Init ==
  /\ raf = <<Loop>>
  /\ turn = <<>>
  /\ boot = "adapter"
  /\ promise = "pending"
  /\ ending = "none"
  /\ want = FALSE
  /\ map = "none"
  /\ ready = FALSE
  /\ mapped = FALSE
  /\ content = {}
  /\ shared = {}
  /\ edge = FALSE
  /\ pc = [c \in Callers |-> "idle"]

Results == IF MayFail THEN {"ok", "failed"} ELSE {"ok"}

-----------------------------------------------------------------------------
(* The browser *)

\* The adapter or device request of GPUBoot is answered.
SettleBoot ==
  /\ promise = "pending"
  /\ promise' \in Results
  /\ UNCHANGED <<raf, turn, boot, ending, capture, edge, pc>>

\* The mapping FrameCapture.capture asked for is answered.
SettleMap ==
  /\ map = "pending"
  /\ map' \in Results
  /\ mapped' = (map' = "ok")
  /\ UNCHANGED <<raf, turn, boot, promise, ending, want, ready, content, shared, edge, pc>>

\* A DOM event reaches InputState.process_event between two frames.
DomKey ==
  /\ turn = <<>>
  /\ edge' = TRUE
  /\ UNCHANGED <<raf, turn, boot, promise, ending, capture, pc>>

BeginFrame ==
  /\ turn = <<>>
  /\ raf # <<>>
  /\ turn' = raf
  /\ raf' = <<>>
  /\ UNCHANGED <<boot, promise, ending, capture, edge, pc>>

-----------------------------------------------------------------------------
(* loop: wgpu_app_frame *)

AgainTwice ==   \* mutant: the loop is registered once too often
  /\ turn # <<>> /\ Head(turn) = Loop
  /\ turn' = Tail(turn)
  /\ raf' = raf \o <<Loop, Loop>>
  /\ UNCHANGED <<ending, pc>>

\* The frame returned a status that is not negative: ask for the next one.
Again ==
  /\ turn # <<>> /\ Head(turn) = Loop
  /\ turn' = Tail(turn)
  /\ raf' = Append(raf, Loop)
  /\ UNCHANGED <<ending, pc>>

\* GPUBoot.step returned False: 0, still setting up.
FrameSettingUp ==
  /\ Again
  /\ \/ boot \in {"adapter", "device"} /\ promise = "pending" /\ UNCHANGED <<boot, promise>>
     \/ boot = "adapter" /\ promise = "ok" /\ boot' = "device" /\ promise' = "pending"
  /\ UNCHANGED <<capture, edge>>

Booted == boot = "ready" \/ (boot = "device" /\ promise = "ok")

\* The frame returned 1: set up, and InputState.begin_frame clears the edges.
Finish == boot' = "ready" /\ edge' = FALSE

Waiting == {c \in Callers : pc[c] = "waiting"}

\* FrameCapture.capture: a copy into the readback buffer, and a map request.
StartCapture ==
  /\ map' = "pending"
  /\ mapped' = TRUE
  /\ want' = FALSE
  /\ content' = Waiting

\* The end of a frame that started no capture: a finished mapping is taken.
TakePicture ==
  /\ map # "failed"
  /\ IF map = "ok"
     THEN map' = "none" /\ ready' = TRUE
     ELSE UNCHANGED <<map, ready>>
  /\ UNCHANGED <<want, mapped, content, shared>>

FrameCapturedStillWanted ==   \* mutant: want_capture is not reset
  /\ Again
  /\ Booted
  /\ want /\ map = "none"
  /\ map' = "pending"
  /\ mapped' = TRUE
  /\ content' = Waiting
  /\ Finish
  /\ UNCHANGED <<promise, want, ready, shared>>

\* The first frame drawn after a request.  (In a browser get_current_texture
\* always gives a texture to draw on.)
FrameCaptured ==
  /\ Again
  /\ Booted
  /\ want /\ map = "none"
  /\ StartCapture
  /\ Finish
  /\ UNCHANGED <<promise, ready, shared>>

\* Nobody asked for pixels, or a mapping is under way.
FrameDrawn ==
  /\ Again
  /\ Booted
  /\ ~(want /\ map = "none")
  /\ TakePicture
  /\ Finish
  /\ UNCHANGED promise

FrameFailsGoesOn ==   \* mutant: `failed` is recorded but the loop goes on
  /\ turn # <<>> /\ Head(turn) = Loop
  /\ \/ boot # "ready" /\ promise = "failed"
     \/ Booted /\ MayFail
  /\ turn' = Tail(turn)
  /\ raf' = Append(raf, Loop)
  /\ ending' = "failed"
  /\ map' = IF map = "failed" THEN "none" ELSE map
  /\ UNCHANGED <<boot, promise, want, ready, mapped, content, shared, edge, pc>>

\* -1: GPUBoot.step or MapRequest.take raised, or drawing did.  `loop` records
\* it and asks for no other frame.
FrameFails ==
  /\ turn # <<>> /\ Head(turn) = Loop
  /\ \/ boot # "ready" /\ promise = "failed"
     \/ Booted /\ MayFail
  /\ turn' = Tail(turn)
  /\ ending' = "failed"
  /\ map' = IF map = "failed" THEN "none" ELSE map
  /\ UNCHANGED <<raf, boot, promise, want, ready, mapped, content, shared, edge, pc>>

\* A function of webgpu_impl.mjs throws: the exception leaves wgpu_app_frame and
\* `loop`, which neither records it nor asks for another frame.
FrameThrows ==
  /\ turn # <<>> /\ Head(turn) = Loop
  /\ Booted /\ MayFail
  /\ turn' = Tail(turn)
  /\ ending' = "thrown"
  /\ UNCHANGED <<raf, boot, promise, capture, edge, pc>>

-----------------------------------------------------------------------------
(* captureFrame *)

\* The call, up to its first await.
CallCapture(c) ==
  /\ pc[c] = "idle"
  /\ want' = TRUE
  /\ raf' = Append(raf, c)
  /\ pc' = [pc EXCEPT ![c] = "waiting"]
  /\ shared' = IF Waiting = {} THEN shared \ {c} ELSE shared \cup Waiting \cup {c}
  /\ UNCHANGED <<turn, boot, promise, ending, map, ready, mapped, content, edge>>

Resumes(c) ==
  /\ turn # <<>> /\ Head(turn) = c
  /\ turn' = Tail(turn)
  /\ UNCHANGED <<boot, promise, ending, want, map, shared, edge>>

\* capture_ptr is set: copy the pixels, unmap, return.
PictureTakenUnreleased(c) ==   \* mutant: returns without wgpu_app_capture_release
  /\ Resumes(c)
  /\ ready
  /\ content' = content \ {c}
  /\ pc' = [pc EXCEPT ![c] = "idle"]
  /\ UNCHANGED <<raf, ready, mapped>>

PictureTaken(c) ==
  /\ Resumes(c)
  /\ ready
  /\ ready' = FALSE
  /\ mapped' = FALSE
  /\ content' = content \ {c}
  /\ pc' = [pc EXCEPT ![c] = "idle"]
  /\ UNCHANGED raf

NoPictureWaits(c) ==   \* mutant: gives up its place in the frame loop
  /\ Resumes(c)
  /\ ~ready
  /\ UNCHANGED <<raf, ready, mapped, content, pc>>

NoPictureYet(c) ==
  /\ Resumes(c)
  /\ ~ready
  /\ raf' = Append(raf, c)
  /\ UNCHANGED <<ready, mapped, content, pc>>

Frame == FrameSettingUp \/ FrameCaptured \/ FrameDrawn \/ FrameFails \/ FrameThrows

Next ==
  \/ SettleBoot \/ SettleMap \/ DomKey \/ BeginFrame \/ Frame
  \/ \E c \in Callers : CallCapture(c) \/ PictureTaken(c) \/ NoPictureYet(c)

Spec == Init /\ [][Next]_vars

\* Animation frames keep coming and run their callbacks, and promises
\* settle.
FairSpec ==
  /\ Spec
  /\ WF_vars(BeginFrame) /\ WF_vars(Frame) /\ WF_vars(SettleBoot) /\ WF_vars(SettleMap)
  /\ \A c \in Callers : WF_vars(PictureTaken(c) \/ NoPictureYet(c))

-----------------------------------------------------------------------------
(* Properties *)

\* Every variable has its type, and no callback is registered twice.
TypeOK ==
  /\ raf \in Seq(Callers \cup {Loop})
  /\ turn \in Seq(Callers \cup {Loop})
  /\ \A i, j \in 1 .. Len(turn \o raf) : (turn \o raf)[i] = (turn \o raf)[j] => i = j
  /\ boot \in {"adapter", "device", "ready"}
  /\ promise \in {"pending", "ok", "failed"}
  /\ ending \in {"none", "failed", "thrown"}
  /\ want \in BOOLEAN
  /\ map \in {"none", "pending", "ok", "failed"}
  /\ ready \in BOOLEAN
  /\ mapped \in BOOLEAN
  /\ content \subseteq Callers
  /\ shared \subseteq Callers
  /\ edge \in BOOLEAN
  /\ pc \in [Callers -> {"idle", "waiting"}]

\* The readback buffer is never written to while it is mapped: pixels that are
\* ready are fetched before the application draws its next frame.  (frame() itself
\* does not check: want_capture and a free capture_req are enough for it.)
NeverCapturesMapped == [][map = "none" /\ map' = "pending" => ~mapped]_vars

\* A capture is asked for, under way or ready only while somebody waits for it, so
\* no picture is left mapped with nobody to release it.
PictureIsAwaited ==
  /\ want \/ map # "none" \/ ready => Waiting # {}
  /\ want /\ (map # "none" \/ ready) => \E c, d \in Waiting : c # d

\* A caller waits in exactly one place of the frame loop.
WaiterIsRegistered ==
  \A c \in Callers :
    pc[c] = "waiting" <=> \E i \in 1 .. Len(turn \o raf) : (turn \o raf)[i] = c

\* The loop is registered until it ends and never after: GPUBoot.step, which after
\* the raise that ends the loop would answer False for ever, is not called again.
LoopUntilEnded ==
  ending = "none" <=> \E i \in 1 .. Len(turn \o raf) : (turn \o raf)[i] = Loop

\* Everyone who waits for an animation frame is registered for one, and nobody else:
\* the callers of captureFrame between their polls, the loop until it ends.
AwaitersRegistered == WaiterIsRegistered /\ LoopUntilEnded

\* "Pixels of the next drawn frame": what captureFrame returns to a call that no
\* other overlapped was drawn after it was made.
FreshPicture ==
  [][\A c \in Callers \ shared :
       pc[c] = "waiting" /\ pc'[c] = "idle" => c \in content]_vars

\* Such a call returns, unless the loop has ended: then it waits for ever.
CaptureReturns ==
  \A c \in Callers :
    pc[c] = "waiting" ~> (pc[c] = "idle" \/ c \in shared \/ ending # "none")

\* The same of every call.
EveryCaptureReturns ==
  \A c \in Callers : pc[c] = "waiting" ~> (pc[c] = "idle" \/ ending # "none")

=============================================================================
