------------------------------ MODULE LogQueue ------------------------------
(***************************************************************************)
(* What the log bridge of wgpu-mojo promises: a bounded queue of messages   *)
(* that drops its oldest message when full and counts what it dropped       *)
(* (ffi/wgpu_callbacks.c, the comment on the log bridge), drained oldest    *)
(* first, each message once (drain_log in wgpu/diagnostics.mojo).           *)
(***************************************************************************)
EXTENDS Naturals, Sequences

CONSTANTS
  Messages,   \* what wgpu can log
  Capacity    \* messages the queue holds

VARIABLES
  queue,      \* messages logged and not yet drained, oldest first
  drained,    \* messages drained, in the order they were
  dropped     \* how many were dropped

vars == <<queue, drained, dropped>>

Init ==
  /\ queue = <<>>
  /\ drained = <<>>
  /\ dropped = 0

Log(m) ==
  /\ IF Len(queue) < Capacity
     THEN queue' = Append(queue, m) /\ UNCHANGED dropped
     ELSE queue' = Append(Tail(queue), m) /\ dropped' = dropped + 1
  /\ UNCHANGED drained

Drain ==
  /\ queue # <<>>
  /\ queue' = Tail(queue)
  /\ drained' = Append(drained, Head(queue))
  /\ UNCHANGED dropped

Next == Drain \/ \E m \in Messages : Log(m)

Spec == Init /\ [][Next]_vars
=============================================================================
