------------------------------ MODULE LogRing ------------------------------
(***************************************************************************)
(* The log bridge, ffi/wgpu_callbacks.c: wgpu-native's threads append       *)
(* messages to a fixed ring under a mutex, and drain_log (diagnostics.mojo) *)
(* pops them.  Each lock operation and each access to a field of a slot is  *)
(* a step of its own, so a mutex that fails to exclude the other threads    *)
(* would show.  The cursors and the count of dropped messages are the      *)
(* exception: MakeRoom tests, moves tail and counts in one step, Publish    *)
(* and Advance read and write their cursor in one, and the test for an      *)
(* empty ring is part of the first copy or of the release of the mutex.     *)
(* No code reads or writes them without the mutex.                          *)
(*                                                                         *)
(* A message is an identity; each is logged at most once, so that losing,   *)
(* repeating or reordering one can be seen.  Its text (cut to 511 bytes)    *)
(* is abstracted; that level, length and text of a slot are written and     *)
(* read one after the other is not.                                         *)
(***************************************************************************)
EXTENDS Integers, Sequences

CONSTANTS
  Loggers,    \* threads wgpu logs from
  Drainers,   \* threads that call drain_log
  Messages,
  Nothing,    \* no message, no thread
  Slots       \* MOJO_LOG_SLOTS

ASSUME RingAssumption ==
  /\ Slots \in Nat /\ Slots >= 2
  /\ Nothing \notin Messages
  /\ Nothing \notin Loggers \cup Drainers
  /\ Loggers \cap Drainers = {}

Threads == Loggers \cup Drainers
Index   == 0 .. Slots - 1

VARIABLES
  level,     \* [Index -> message whose level is in the slot]
  length,    \* [Index -> message whose length is in the slot]
  text,      \* [Index -> message whose text is in the slot]
  head,      \* next write
  tail,      \* next read
  dropped,   \* messages dropped because the ring was full
  lock,      \* the thread that holds _mojo_log_lock, or Nothing
  pc,        \* where each thread is
  msg,       \* [Loggers -> the message being logged]
  copied,    \* [Drainers -> the entry copied to out and out_level]
  logged,    \* messages published, in order              (history)
  drained    \* entries drain_log received, in order      (history)

vars == <<level, length, text, head, tail, dropped, lock, pc, msg, copied, logged, drained>>

ring == <<level, length, text, head, tail, dropped>>

SuccUnwrapped(i) == i + 1   \* mutant: never wraps

\* (i + 1) % MOJO_LOG_SLOTS
Succ(i) == (i + 1) % Slots

NoEntry == [level |-> Nothing, length |-> Nothing, text |-> Nothing]

Init ==
  /\ level = [i \in Index |-> Nothing]
  /\ length = [i \in Index |-> Nothing]
  /\ text = [i \in Index |-> Nothing]
  /\ head = 0
  /\ tail = 0
  /\ dropped = 0
  /\ lock = Nothing
  /\ pc = [t \in Threads |-> "idle"]
  /\ msg = [t \in Loggers |-> Nothing]
  /\ copied = [t \in Drainers |-> NoEntry]
  /\ logged = <<>>
  /\ drained = <<>>

Goto(t, place) == pc' = [pc EXCEPT ![t] = place]

AcquireUnlocked(t, from, to) ==   \* mutant: takes no mutex
  /\ pc[t] = from
  /\ lock' = lock
  /\ Goto(t, to)

Acquire(t, from, to) ==
  /\ pc[t] = from
  /\ lock = Nothing
  /\ lock' = t
  /\ Goto(t, to)

Release(t, from, to) ==
  /\ pc[t] = from
  /\ lock' = Nothing
  /\ Goto(t, to)

-----------------------------------------------------------------------------
(* _wgpu_mojo_log_cb, on a wgpu thread *)

Fresh(m) == (\A i \in 1 .. Len(logged) : logged[i] # m) /\ (\A t \in Loggers : msg[t] # m)

Call(t) ==
  /\ pc[t] = "idle"
  /\ \E m \in Messages : Fresh(m) /\ msg' = [msg EXCEPT ![t] = m]
  /\ Goto(t, "enter")
  /\ UNCHANGED <<ring, lock, copied, logged, drained>>

Enter(t) ==
  /\ Acquire(t, "enter", "room")
  /\ UNCHANGED <<ring, msg, copied, logged, drained>>

\* full: drop the oldest
Full == Succ(head) = tail

MakeRoomKeepingTail(t) ==   \* mutant: counts the message but does not drop it
  /\ pc[t] = "room"
  /\ IF Full
     THEN tail' = tail /\ dropped' = dropped + 1
     ELSE UNCHANGED <<tail, dropped>>
  /\ Goto(t, IF Full THEN "level_evicted" ELSE "level")
  /\ UNCHANGED <<level, length, text, head, lock, msg, copied, logged, drained>>

MakeRoomUncounted(t) ==   \* mutant: drops the message but does not count it
  /\ pc[t] = "room"
  /\ IF Full
     THEN tail' = Succ(tail) /\ dropped' = dropped
     ELSE UNCHANGED <<tail, dropped>>
  /\ Goto(t, IF Full THEN "level_evicted" ELSE "level")
  /\ UNCHANGED <<level, length, text, head, lock, msg, copied, logged, drained>>

MakeRoom(t) ==
  /\ pc[t] = "room"
  /\ IF Full
     THEN tail' = Succ(tail) /\ dropped' = dropped + 1
     ELSE UNCHANGED <<tail, dropped>>
  /\ Goto(t, IF Full THEN "level_evicted" ELSE "level")
  /\ UNCHANGED <<level, length, text, head, lock, msg, copied, logged, drained>>

WriteLevel(t) ==
  /\ pc[t] \in {"level", "level_evicted"}
  /\ level' = [level EXCEPT ![head] = msg[t]]
  /\ Goto(t, IF pc[t] = "level" THEN "length" ELSE "length_evicted")
  /\ UNCHANGED <<length, text, head, tail, dropped, lock, msg, copied, logged, drained>>

WriteLength(t) ==
  /\ pc[t] \in {"length", "length_evicted"}
  /\ length' = [length EXCEPT ![head] = msg[t]]
  /\ Goto(t, IF pc[t] = "length" THEN "text" ELSE "text_evicted")
  /\ UNCHANGED <<level, text, head, tail, dropped, lock, msg, copied, logged, drained>>

WriteText(t) ==
  /\ pc[t] \in {"text", "text_evicted"}
  /\ text' = [text EXCEPT ![head] = msg[t]]
  /\ Goto(t, IF pc[t] = "text" THEN "publish" ELSE "publish_evicted")
  /\ UNCHANGED <<level, length, head, tail, dropped, lock, msg, copied, logged, drained>>

Publish(t) ==
  /\ pc[t] \in {"publish", "publish_evicted"}
  /\ head' = Succ(head)
  /\ logged' = Append(logged, msg[t])
  /\ Goto(t, "leave")
  /\ UNCHANGED <<level, length, text, tail, dropped, lock, msg, copied, drained>>

Leave(t) ==
  /\ Release(t, "leave", "idle")
  /\ msg' = [msg EXCEPT ![t] = Nothing]
  /\ UNCHANGED <<ring, copied, logged, drained>>

-----------------------------------------------------------------------------
(* drain_log: wgpu_mojo_log_take until it returns -1 *)

BeginDrain(t) ==
  /\ pc[t] = "idle"
  /\ Goto(t, "enter")
  /\ UNCHANGED <<ring, lock, msg, copied, logged, drained>>

EnterTake(t) ==
  /\ Acquire(t, "enter", "take")
  /\ UNCHANGED <<ring, msg, copied, logged, drained>>

CopyLength(t) ==
  /\ pc[t] = "take"
  /\ tail # head
  /\ copied' = [copied EXCEPT ![t].length = length[tail]]
  /\ Goto(t, "copy_text")
  /\ UNCHANGED <<ring, lock, msg, logged, drained>>

CopyText(t) ==
  /\ pc[t] = "copy_text"
  /\ copied' = [copied EXCEPT ![t].text = text[tail]]
  /\ Goto(t, "copy_level")
  /\ UNCHANGED <<ring, lock, msg, logged, drained>>

CopyLevel(t) ==
  /\ pc[t] = "copy_level"
  /\ copied' = [copied EXCEPT ![t].level = level[tail]]
  /\ Goto(t, "advance")
  /\ UNCHANGED <<ring, lock, msg, logged, drained>>

Advance(t) ==
  /\ pc[t] = "advance"
  /\ tail' = Succ(tail)
  /\ drained' = Append(drained, copied[t])
  /\ Goto(t, "leave")
  /\ UNCHANGED <<level, length, text, head, dropped, lock, msg, copied, logged>>

LeaveTake(t) ==
  /\ Release(t, "leave", "enter")
  /\ UNCHANGED <<ring, msg, copied, logged, drained>>

TakeNothingRetries(t) ==   \* mutant: drain_log keeps asking for a message
  /\ tail = head
  /\ Release(t, "take", "enter")
  /\ UNCHANGED <<ring, msg, copied, logged, drained>>

\* -1: drain_log returns what it has collected.
TakeNothing(t) ==
  /\ tail = head
  /\ Release(t, "take", "idle")
  /\ UNCHANGED <<ring, msg, copied, logged, drained>>

LogStep(t) ==
  \/ Enter(t) \/ MakeRoom(t) \/ WriteLevel(t) \/ WriteLength(t) \/ WriteText(t)
  \/ Publish(t) \/ Leave(t)

DrainStep(t) ==
  \/ EnterTake(t) \/ CopyLength(t) \/ CopyText(t) \/ CopyLevel(t) \/ Advance(t)
  \/ LeaveTake(t) \/ TakeNothing(t)

Next ==
  \/ \E t \in Loggers : Call(t) \/ LogStep(t)
  \/ \E t \in Drainers : BeginDrain(t) \/ DrainStep(t)

Spec == Init /\ [][Next]_vars

\* A thread inside the callback or inside drain_log keeps running.
FairSpec ==
  /\ Spec
  /\ \A t \in Loggers : WF_vars(LogStep(t))
  /\ \A t \in Drainers : WF_vars(DrainStep(t))

-----------------------------------------------------------------------------
(* Properties *)

Places == {"idle", "enter", "room", "level", "level_evicted", "length", "length_evicted",
           "text", "text_evicted", "publish", "publish_evicted", "leave", "take",
           "copy_text", "copy_level", "advance"}

Part  == Messages \cup {Nothing}
Entry == [level : Part, length : Part, text : Part]

\* Every variable has its type; in particular both cursors stay on the ring.
TypeOK ==
  /\ level \in [Index -> Part]
  /\ length \in [Index -> Part]
  /\ text \in [Index -> Part]
  /\ head \in Index
  /\ tail \in Index
  /\ dropped \in Nat
  /\ lock \in Threads \cup {Nothing}
  /\ pc \in [Threads -> Places]
  /\ msg \in [Loggers -> Messages \cup {Nothing}]
  /\ copied \in [Drainers -> Entry]
  /\ logged \in Seq(Messages)
  /\ drained \in Seq(Entry)

\* Messages in the ring.
Used == IF head >= tail THEN head - tail ELSE head - tail + Slots

\* A message has been dropped to make room for one that is not published yet.
Evicting ==
  \E t \in Loggers :
    pc[t] \in {"level_evicted", "length_evicted", "text_evicted", "publish_evicted"}

\* No message is lost uncounted: whatever was logged is drained, dropped and
\* counted, or still in the ring.
Accounted ==
  Len(logged) = Len(drained) + dropped + Used

\* drain_log returns whole messages: the level, the length and the text it hands
\* out are of one message (wgpu_mojo_log_take, ffi/wgpu_callbacks.c:80-84).
NothingTorn ==
  \A i \in 1 .. Len(drained) :
    drained[i].level = drained[i].text /\ drained[i].length = drained[i].text

\* The queue the ring stands for: a logged message joins it when its head is
\* published, and the one dropped to make room for it leaves it only then.
Oldest == IF Evicting THEN (tail + (Slots - 1)) % Slots ELSE tail

Size == IF Evicting THEN Used + 1 ELSE Used

Queued == [k \in 1 .. Size |-> text[(Oldest + (k - 1)) % Slots]]

DrainedTexts == [i \in 1 .. Len(drained) |-> drained[i].text]

CountedDrops == IF Evicting THEN dropped - 1 ELSE dropped

Promise ==
  INSTANCE LogQueue WITH
    Capacity <- Slots - 1,
    queue    <- Queued,
    drained  <- DrainedTexts,
    dropped  <- CountedDrops

\* The ring and its mutex implement LogQueue: messages are drained oldest first,
\* each once, and only the oldest is ever dropped, counted, and only when the
\* ring is full.
ImplementsLogQueue == Promise!Spec

\* drain_log returns: it stops at the first empty ring, which comes once wgpu has
\* nothing more to log.
DrainReturns == \A t \in Drainers : pc[t] = "enter" ~> pc[t] = "idle"

=============================================================================
