---------------------------- MODULE InputEvents ----------------------------
(***************************************************************************)
(* Input of RenderCanvas windows: the GLFW callbacks of                     *)
(* rendercanvas-mojo/ffi/glfw_input_callbacks.c put events into one static  *)
(* queue, RenderCanvas.poll drains it into the canvas's InputState.         *)
(*                                                                         *)
(* GLFW is external: `pending` holds the window events glfwPollEvents has   *)
(* not delivered, `held` the keys it believes down.  Keys stands for keys   *)
(* and mouse buttons alike, which InputState treats the same way, and one   *)
(* coordinate stands for the two of a position.  The ring of the C file is  *)
(* a sequence of at most Capacity events.                                   *)
(***************************************************************************)
EXTENDS Integers, Sequences

CONSTANTS
  Canvases,
  Keys,        \* those InputState has an array cell for; it ignores the others
  Positions,   \* cursor positions
  Nobody,      \* no canvas is polling
  Capacity,    \* MOJO_INPUT_QUEUE_SIZE - 1
  MaxPending   \* bound: events GLFW holds for the next poll

ASSUME InputAssumption ==
  /\ Positions \subseteq Int
  /\ Nobody \notin Canvases
  /\ Capacity \in Nat \ {0}
  /\ MaxPending \in Nat

Event ==
  [win : Canvases, type : {"press", "release", "repeat"}, key : Keys]
    \cup [win : Canvases, type : {"move"}, x : Positions]
    \cup [win : Canvases, type : {"scroll"}]

KeyEvents == {"press", "release", "repeat"}

VARIABLES
  held,          \* [Canvases -> keys that are down in that window]
  pending,       \* window events GLFW has not delivered, oldest first
  queue,         \* _queue, _head and _tail: delivered, not drained
  poller,        \* the canvas inside poll(), or Nobody
  stage,         \* where poll() is: "idle", "pump" or "drain"
  pressed,       \* InputState._keys_pressed, _mouse_pressed
  justPressed,   \* InputState._keys_just_pressed, _mouse_just_pressed
  justReleased,  \* InputState._keys_just_released, _mouse_just_released
  mouse,         \* InputState.mouse_x
  delta,         \* InputState.mouse_dx
  scroll,        \* InputState.scroll_y
  stale,         \* keys whose last event a canvas missed or got from elsewhere (history)
  intact,        \* no key event was ever lost or taken by another canvas         (history)
  frame          \* [Canvases -> pressed and mouse when poll() began]           (history)

input == <<pressed, justPressed, justReleased, mouse, delta, scroll>>

vars == <<held, pending, queue, poller, stage, input, stale, intact, frame>>

Init ==
  /\ held = [c \in Canvases |-> {}]
  /\ pending = <<>>
  /\ queue = <<>>
  /\ poller = Nobody
  /\ stage = "idle"
  /\ pressed = [c \in Canvases |-> {}]
  /\ justPressed = [c \in Canvases |-> {}]
  /\ justReleased = [c \in Canvases |-> {}]
  /\ mouse = [c \in Canvases |-> 0]
  /\ delta = [c \in Canvases |-> 0]
  /\ scroll = [c \in Canvases |-> 0]
  /\ stale = [c \in Canvases |-> {}]
  /\ intact = TRUE
  /\ frame = [c \in Canvases |-> [pressed |-> {}, mouse |-> 0]]

-----------------------------------------------------------------------------
(* The user, through GLFW *)

\* An event that arrives while poll() runs has arrived before it, if that poll
\* delivers it, or after it: begin_frame and update look at no pending event.
Notice(e) ==
  /\ stage = "idle"
  /\ Len(pending) < MaxPending
  /\ pending' = Append(pending, e)
  /\ UNCHANGED <<queue, poller, stage, input, stale, intact, frame>>

Press(c, k) ==
  /\ k \notin held[c]
  /\ held' = [held EXCEPT ![c] = @ \cup {k}]
  /\ Notice([win |-> c, type |-> "press", key |-> k])

Release(c, k) ==
  /\ k \in held[c]
  /\ held' = [held EXCEPT ![c] = @ \ {k}]
  /\ Notice([win |-> c, type |-> "release", key |-> k])

Repeat(c, k) ==
  /\ k \in held[c]
  /\ UNCHANGED held
  /\ Notice([win |-> c, type |-> "repeat", key |-> k])

Move(c, x) == UNCHANGED held /\ Notice([win |-> c, type |-> "move", x |-> x])

Scroll(c) == UNCHANGED held /\ Notice([win |-> c, type |-> "scroll"])

-----------------------------------------------------------------------------
(* RenderCanvas.poll: begin_frame, glfwPollEvents, update *)

BeginKeepingEdges(c) ==   \* mutant: begin_frame keeps what was just released
  /\ stage = "idle"
  /\ poller' = c
  /\ stage' = "pump"
  /\ justPressed' = [justPressed EXCEPT ![c] = {}]
  /\ delta' = [delta EXCEPT ![c] = 0]
  /\ scroll' = [scroll EXCEPT ![c] = 0]
  /\ frame' = [frame EXCEPT ![c] = [pressed |-> pressed[c], mouse |-> mouse[c]]]
  /\ UNCHANGED <<held, pending, queue, pressed, justReleased, mouse, stale, intact>>

BeginKeepingScroll(c) ==   \* mutant: begin_frame keeps the scroll accumulator
  /\ stage = "idle"
  /\ poller' = c
  /\ stage' = "pump"
  /\ justPressed' = [justPressed EXCEPT ![c] = {}]
  /\ justReleased' = [justReleased EXCEPT ![c] = {}]
  /\ delta' = [delta EXCEPT ![c] = 0]
  /\ frame' = [frame EXCEPT ![c] = [pressed |-> pressed[c], mouse |-> mouse[c]]]
  /\ UNCHANGED <<held, pending, queue, pressed, mouse, scroll, stale, intact>>

Begin(c) ==
  /\ stage = "idle"
  /\ poller' = c
  /\ stage' = "pump"
  /\ justPressed' = [justPressed EXCEPT ![c] = {}]
  /\ justReleased' = [justReleased EXCEPT ![c] = {}]
  /\ delta' = [delta EXCEPT ![c] = 0]
  /\ scroll' = [scroll EXCEPT ![c] = 0]
  /\ frame' = [frame EXCEPT ![c] = [pressed |-> pressed[c], mouse |-> mouse[c]]]
  /\ UNCHANGED <<held, pending, queue, pressed, mouse, stale, intact>>

PushLosingNewest(e) ==   \* mutant: a full queue ignores the new event
  /\ IF Len(queue) = Capacity
     THEN UNCHANGED queue
     ELSE queue' = Append(queue, e)
  /\ UNCHANGED <<stale, intact>>

\* _push_event: a full queue loses its oldest event.
Push(e) ==
  IF Len(queue) = Capacity
  THEN LET lost == Head(queue)
       IN  /\ queue' = Append(Tail(queue), e)
           /\ stale' = IF lost.type \in KeyEvents
                       THEN [stale EXCEPT ![lost.win] = @ \cup {lost.key}]
                       ELSE stale
           /\ intact' = (intact /\ lost.type \notin KeyEvents)
  ELSE /\ queue' = Append(queue, e)
       /\ UNCHANGED <<stale, intact>>

\* One callback made by glfwPollEvents; it ignores the window.
Callback ==
  /\ stage = "pump"
  /\ pending # <<>>
  /\ Push(Head(pending))
  /\ pending' = Tail(pending)
  /\ UNCHANGED <<held, poller, stage, input, frame>>

\* glfwPollEvents returns once it has delivered what there was.
PumpDone ==
  /\ stage = "pump"
  /\ pending = <<>>
  /\ stage' = "drain"
  /\ UNCHANGED <<held, pending, queue, poller, input, stale, intact, frame>>

ProcessKeyOneEdge(c, e) ==   \* mutant: a release is no edge after a press in the same frame
  /\ e.type \in KeyEvents
  /\ LET k == {e.key}
     IN  /\ pressed' = [pressed EXCEPT ![c] = CASE e.type = "press"   -> @ \cup k
                                                [] e.type = "release" -> @ \ k
                                                [] OTHER              -> @]
         /\ justPressed' =
              [justPressed EXCEPT ![c] = IF e.type = "press" THEN @ \cup k ELSE @]
         /\ justReleased' =
              [justReleased EXCEPT ![c] =
                 IF e.type = "release" THEN @ \cup (k \ justPressed[c]) ELSE @]
  /\ UNCHANGED <<mouse, delta, scroll>>

\* _process_event, on the canvas c that polls.
ProcessKey(c, e) ==
  /\ e.type \in KeyEvents
  /\ LET k == {e.key}
     IN  /\ pressed' = [pressed EXCEPT ![c] = CASE e.type = "press"   -> @ \cup k
                                                [] e.type = "release" -> @ \ k
                                                [] OTHER              -> @]
         /\ justPressed' =
              [justPressed EXCEPT ![c] = IF e.type = "press" THEN @ \cup k ELSE @]
         /\ justReleased' =
              [justReleased EXCEPT ![c] = IF e.type = "release" THEN @ \cup k ELSE @]
  /\ UNCHANGED <<mouse, delta, scroll>>

ProcessMoveLastDelta(c, e) ==   \* mutant: keeps the last movement of a frame only
  /\ e.type = "move"
  /\ mouse' = [mouse EXCEPT ![c] = e.x]
  /\ delta' = [delta EXCEPT ![c] = e.x - mouse[c]]
  /\ UNCHANGED <<pressed, justPressed, justReleased, scroll>>

ProcessMove(c, e) ==
  /\ e.type = "move"
  /\ mouse' = [mouse EXCEPT ![c] = e.x]
  /\ delta' = [delta EXCEPT ![c] = @ + (e.x - mouse[c])]
  /\ UNCHANGED <<pressed, justPressed, justReleased, scroll>>

ProcessScroll(c, e) ==
  /\ e.type = "scroll"
  /\ scroll' = [scroll EXCEPT ![c] = @ + 1]
  /\ UNCHANGED <<pressed, justPressed, justReleased, mouse, delta>>

\* An event of another window leaves both canvases wrong about its key; one of
\* its own puts the polling canvas right.
Attribute(c, e) ==
  IF e.type \in {"press", "release"}
  THEN /\ stale' = IF e.win = c
                   THEN [stale EXCEPT ![c] = @ \ {e.key}]
                   ELSE [stale EXCEPT ![c] = @ \cup {e.key}, ![e.win] = @ \cup {e.key}]
       /\ intact' = (intact /\ e.win = c)
  ELSE UNCHANGED <<stale, intact>>

\* update(): one event taken by mojo_input_poll_event and processed.
Drain ==
  /\ stage = "drain"
  /\ queue # <<>>
  /\ LET e == Head(queue)
     IN  /\ ProcessKey(poller, e) \/ ProcessMove(poller, e) \/ ProcessScroll(poller, e)
         /\ Attribute(poller, e)
  /\ queue' = Tail(queue)
  /\ UNCHANGED <<held, pending, poller, stage, frame>>

DrainDone ==
  /\ stage = "drain"
  /\ queue = <<>>
  /\ stage' = "idle"
  /\ poller' = Nobody
  /\ UNCHANGED <<held, pending, queue, input, stale, intact, frame>>

Next ==
  \/ \E c \in Canvases, k \in Keys : Press(c, k) \/ Release(c, k) \/ Repeat(c, k)
  \/ \E c \in Canvases, x \in Positions : Move(c, x)
  \/ \E c \in Canvases : Scroll(c) \/ Begin(c)
  \/ Callback \/ PumpDone \/ Drain \/ DrainDone

Spec == Init /\ [][Next]_vars

-----------------------------------------------------------------------------
(* Properties *)

\* Every variable has its type; an update sees at most a queue of scrolls.
TypeOK ==
  /\ held \in [Canvases -> SUBSET Keys]
  /\ pending \in Seq(Event) /\ Len(pending) <= MaxPending
  /\ queue \in Seq(Event) /\ Len(queue) <= Capacity
  /\ poller \in Canvases \cup {Nobody}
  /\ stage \in {"idle", "pump", "drain"}
  /\ (stage = "idle") <=> (poller = Nobody)
  /\ pressed \in [Canvases -> SUBSET Keys]
  /\ justPressed \in [Canvases -> SUBSET Keys]
  /\ justReleased \in [Canvases -> SUBSET Keys]
  /\ mouse \in [Canvases -> Int]
  /\ delta \in [Canvases -> Int]
  /\ scroll \in [Canvases -> 0 .. Capacity]
  /\ stale \in [Canvases -> SUBSET Keys]
  /\ intact \in BOOLEAN
  /\ frame \in [Canvases -> [pressed : SUBSET Keys, mouse : Int]]

Concerns(e, c, k) == e.type \in {"press", "release"} /\ e.win = c /\ e.key = k

UnderWay(c, k) ==
  \/ \E i \in 1 .. Len(pending) : Concerns(pending[i], c, k)
  \/ \E i \in 1 .. Len(queue) : Concerns(queue[i], c, k)

\* What is_key_pressed answers is whether the key is down, unless an event about
\* it is still on its way, or the last one was lost to the full queue or taken by
\* another canvas.
KeysShownTrue ==
  \A c \in Canvases : \A k \in Keys \ stale[c] :
    UnderWay(c, k) \/ (k \in pressed[c] <=> k \in held[c])

\* A key whose state changed within a frame has the edge flag that says so, and a
\* key that was tapped within a frame has both.
EdgesExplainState ==
  \A c \in Canvases :
    /\ pressed[c] \ frame[c].pressed \subseteq justPressed[c]
    /\ frame[c].pressed \ pressed[c] \subseteq justReleased[c]
    /\ justPressed[c] \subseteq pressed[c] \cup justReleased[c]

\* With nothing lost, an edge flag is set only for a change of this very frame: a
\* key that was down all the time is not "just pressed".
EdgesAlternate ==
  intact => \A c \in Canvases :
    /\ justPressed[c] \cap frame[c].pressed \subseteq justReleased[c]
    /\ justReleased[c] \ frame[c].pressed \subseteq justPressed[c]

\* The movements of a frame add up to the change of position, whatever was lost.
DeltaTelescopes == \A c \in Canvases : mouse[c] = frame[c].mouse + delta[c]

\* What a frame reports beside the state, edges and movement, is how the state came
\* about since poll() began: with overflow, taps, and events of other windows.
FrameReportTrue == EdgesExplainState /\ EdgesAlternate /\ DeltaTelescopes

=============================================================================
