------------------------- MODULE InputEventsProofs -------------------------
(***************************************************************************)
(* Proofs about InputEvents for any canvases, keys, positions, and sizes of *)
(* the queue (the code's holds 255 events).                                 *)
(***************************************************************************)
EXTENDS InputEvents, QueueLemmas

\* The events on their way to an InputState, the next one first.
Coming == queue \o pending

About(s, i, c, k)  == Concerns(s[i], c, k)
Noted(s, c, k)     == \E i \in 1 .. Len(s) : About(s, i, c, k)
First(s, i, c, k)  == About(s, i, c, k) /\ \A j \in 1 .. i - 1 : ~About(s, j, c, k)
Last(s, i, c, k)   == About(s, i, c, k) /\ \A j \in i + 1 .. Len(s) : ~About(s, j, c, k)
Following(s, i, j, c, k) ==
  /\ i < j /\ About(s, i, c, k) /\ About(s, j, c, k)
  /\ \A n \in i + 1 .. j - 1 : ~About(s, n, c, k)

\* The last event on its way about a key is what GLFW believes of it.
EndsAs(s, c, k, K) ==
  \A i \in 1 .. Len(s) : Last(s, i, c, k) => (s[i].type = "press" <=> k \in K)

\* The first one changes what a canvas shows.
StartsFrom(s, c, k, K) ==
  \A i \in 1 .. Len(s) : First(s, i, c, k) => (s[i].type = "press" <=> k \notin K)

\* Between them presses and releases alternate.
Alternates(s, c, k) ==
  \A i, j \in 1 .. Len(s) : Following(s, i, j, c, k) => s[i].type # s[j].type

\* What is on its way leads from what a canvas shows to what GLFW believes.  A key
\* that is stale may show anything.
KeyInv(c, k) ==
  /\ EndsAs(Coming, c, k, held[c])
  /\ Alternates(Coming, c, k)
  /\ k \notin stale[c] =>
       /\ StartsFrom(Coming, c, k, pressed[c])
       /\ Noted(Coming, c, k) \/ (k \in pressed[c] <=> k \in held[c])

ComingInv == \A c \in Canvases, k \in Keys : KeyInv(c, k)

\* With nothing lost, no key is stale.
IntactInv == intact => \A c \in Canvases : stale[c] = {}

\* While a canvas drains the queue, what it has scrolled in this frame and what is
\* queued fit into one queue.
ScrollInv ==
  /\ stage = "pump" => scroll[poller] = 0
  /\ stage = "drain" => scroll[poller] + Len(queue) <= Capacity

IInv ==
  /\ TypeOK
  /\ ComingInv
  /\ FrameReportTrue
  /\ IntactInv
  /\ ScrollInv

-----------------------------------------------------------------------------
(* Sequences of events about one key *)

\* A new event about the key, which changes it, keeps the alternation.
LEMMA NoticedEvents ==
  ASSUME NEW s \in Seq(Event), NEW e \in Event, NEW c, NEW k, NEW t,
         t = Append(s, e)
  PROVE  /\ Noted(t, c, k) <=> Noted(s, c, k) \/ Concerns(e, c, k)
         /\ \A K : ~Concerns(e, c, k) /\ EndsAs(s, c, k, K) => EndsAs(t, c, k, K)
         /\ \A K : Concerns(e, c, k) /\ (e.type = "press" <=> k \in K) => EndsAs(t, c, k, K)
         /\ ~Concerns(e, c, k) /\ Alternates(s, c, k) => Alternates(t, c, k)
         /\ \A K :
              /\ EndsAs(s, c, k, K) /\ Alternates(s, c, k)
              /\ e.type = "press" <=> k \notin K
              => Alternates(t, c, k)
         /\ \A K : ~Concerns(e, c, k) /\ StartsFrom(s, c, k, K)
                        => StartsFrom(t, c, k, K)
         /\ \A K : Noted(s, c, k) /\ StartsFrom(s, c, k, K) => StartsFrom(t, c, k, K)
         /\ \A K : (e.type = "press" <=> k \notin K) /\ StartsFrom(s, c, k, K)
                        => StartsFrom(t, c, k, K)
<1>1. /\ Len(s) \in Nat /\ Len(t) = Len(s) + 1 /\ t[Len(s) + 1] = e
      /\ \A i \in 1 .. Len(s) : t[i] = s[i]
  BY Appended
<1>2. /\ \A i \in 1 .. Len(s) : About(t, i, c, k) <=> About(s, i, c, k)
      /\ About(t, Len(t), c, k) <=> Concerns(e, c, k)
  BY <1>1 DEF About
<1>3. Noted(t, c, k) <=> Noted(s, c, k) \/ Concerns(e, c, k)
  BY <1>1, <1>2 DEF Noted
<1>4. \A i \in 1 .. Len(s) : Last(t, i, c, k) => Last(s, i, c, k)
  BY <1>1, <1>2 DEF Last
<1>5. \A i \in 1 .. Len(s) : Last(t, i, c, k) => ~Concerns(e, c, k)
  BY <1>1, <1>2 DEF Last
<1>6. \A i \in 1 .. Len(s) : First(t, i, c, k) => First(s, i, c, k)
  BY <1>1, <1>2 DEF First
<1>7. Noted(s, c, k) => ~First(t, Len(t), c, k)
  BY <1>1, <1>2 DEF First, Noted
<1>8. \A i, j \in 1 .. Len(s) : Following(t, i, j, c, k) => Following(s, i, j, c, k)
  BY <1>1, <1>2 DEF Following
<1>9. \A i \in 1 .. Len(s) : Following(t, i, Len(t), c, k) => Last(s, i, c, k)
  BY <1>1, <1>2 DEF Following, Last
<1>10. \A i, j \in 1 .. Len(t) : Following(t, i, j, c, k) => i \in 1 .. Len(s)
  BY <1>1 DEF Following
<1>11. ASSUME NEW K, ~Concerns(e, c, k), EndsAs(s, c, k, K) PROVE EndsAs(t, c, k, K)
  BY <1>1, <1>2, <1>4, <1>11 DEF EndsAs, Last
<1>12. ASSUME NEW K, Concerns(e, c, k), e.type = "press" <=> k \in K PROVE EndsAs(t, c, k, K)
  BY <1>1, <1>5, <1>12 DEF EndsAs
<1>13. ASSUME ~Concerns(e, c, k), Alternates(s, c, k) PROVE Alternates(t, c, k)
  <2>1. SUFFICES ASSUME NEW i \in 1 .. Len(s), NEW j \in 1 .. Len(t), Following(t, i, j, c, k)
                 PROVE  t[i].type # t[j].type
    BY <1>10 DEF Alternates
  <2>2. j \in 1 .. Len(s)
    BY <2>1, <1>1, <1>2, <1>13 DEF Following
  <2>. QED BY <2>1, <2>2, <1>1, <1>8, <1>13 DEF Alternates
<1>14. ASSUME NEW K, EndsAs(s, c, k, K), Alternates(s, c, k),
              e.type = "press" <=> k \notin K
       PROVE  Alternates(t, c, k)
  <2>1. SUFFICES ASSUME NEW i \in 1 .. Len(s), NEW j \in 1 .. Len(t), Following(t, i, j, c, k)
                 PROVE  t[i].type # t[j].type
    BY <1>10 DEF Alternates
  <2>2. CASE j \in 1 .. Len(s)
    BY <2>1, <2>2, <1>1, <1>8, <1>14 DEF Alternates
  <2>3. CASE j = Len(t)
    <3>1. s[i].type = "press" <=> k \in K
      BY <2>1, <2>3, <1>9, <1>14 DEF EndsAs
    <3>. QED BY <3>1, <2>3, <1>1, <1>14
  <2>. QED BY <2>2, <2>3, <1>1
<1>15. ASSUME NEW K, StartsFrom(s, c, k, K),
              ~First(t, Len(t), c, k) \/ (e.type = "press" <=> k \notin K)
       PROVE  StartsFrom(t, c, k, K)
  BY <1>1, <1>6, <1>15 DEF StartsFrom
<1>16. ~Concerns(e, c, k) => ~First(t, Len(t), c, k)
  BY <1>2 DEF First
<1>. QED BY <1>3, <1>7, <1>11, <1>12, <1>13, <1>14, <1>15, <1>16

\* The first event is taken, or lost.
LEMMA TakenEvents ==
  ASSUME NEW s \in Seq(Event), s # <<>>, NEW c, NEW k, NEW t, t = Tail(s)
  PROVE  /\ Noted(s, c, k) <=> Noted(t, c, k) \/ Concerns(Head(s), c, k)
         /\ \A K : EndsAs(s, c, k, K) => EndsAs(t, c, k, K)
         /\ Alternates(s, c, k) => Alternates(t, c, k)
         /\ \A K : ~Concerns(Head(s), c, k) /\ StartsFrom(s, c, k, K)
                        => StartsFrom(t, c, k, K)
         /\ \A K : /\ Concerns(Head(s), c, k) /\ Alternates(s, c, k)
                   /\ Head(s).type = "press" <=> k \in K
                   => StartsFrom(t, c, k, K)
         /\ \A K : Concerns(Head(s), c, k) /\ StartsFrom(s, c, k, K)
                        => (Head(s).type = "press" <=> k \notin K)
         /\ \A K : /\ Concerns(Head(s), c, k) /\ ~Noted(t, c, k)
                      /\ EndsAs(s, c, k, K)
                      => (Head(s).type = "press" <=> k \in K)
<1>1. /\ Len(s) \in Nat \ {0} /\ Len(t) = Len(s) - 1 /\ Head(s) = s[1]
      /\ \A i \in 1 .. Len(s) - 1 : t[i] = s[i + 1]
  BY Removed
<1>2. /\ \A i \in 1 .. Len(t) : About(t, i, c, k) <=> About(s, i + 1, c, k)
      /\ About(s, 1, c, k) <=> Concerns(Head(s), c, k)
  BY <1>1 DEF About
<1>0. \A i \in 2 .. Len(s) : About(s, i, c, k) <=> About(t, i - 1, c, k)
  <2>1. ASSUME NEW i \in 2 .. Len(s) PROVE About(s, i, c, k) <=> About(t, i - 1, c, k)
    <3>1. i - 1 \in 1 .. Len(t) /\ (i - 1) + 1 = i
      BY <1>1
    <3>. QED BY <3>1, <1>2
  <2>. QED BY <2>1
<1>3. Noted(s, c, k) <=> Noted(t, c, k) \/ Concerns(Head(s), c, k)
  <2>1. ASSUME Noted(s, c, k) PROVE Noted(t, c, k) \/ Concerns(Head(s), c, k)
    <3>1. PICK i \in 1 .. Len(s) : About(s, i, c, k)
      BY <2>1 DEF Noted
    <3>2. CASE i = 1
      BY <3>1, <3>2, <1>2
    <3>3. CASE i # 1
      BY <3>1, <3>3, <1>0, <1>1 DEF Noted
    <3>. QED BY <3>2, <3>3
  <2>2. ASSUME Noted(t, c, k) PROVE Noted(s, c, k)
    BY <2>2, <1>1, <1>2 DEF Noted
  <2>3. ASSUME Concerns(Head(s), c, k) PROVE Noted(s, c, k)
    BY <2>3, <1>1, <1>2 DEF Noted
  <2>. QED BY <2>1, <2>2, <2>3
<1>4. \A i \in 1 .. Len(t) : Last(t, i, c, k) => Last(s, i + 1, c, k)
  BY <1>0, <1>1, <1>2 DEF Last
<1>5. \A i, j \in 1 .. Len(t) : Following(t, i, j, c, k) => Following(s, i + 1, j + 1, c, k)
  BY <1>0, <1>1, <1>2 DEF Following
<1>6. \A i \in 1 .. Len(t) :
        First(t, i, c, k) => IF Concerns(Head(s), c, k) THEN Following(s, 1, i + 1, c, k)
                                                        ELSE First(s, i + 1, c, k)
  <2>. SUFFICES ASSUME NEW i \in 1 .. Len(t), First(t, i, c, k)
                PROVE  IF Concerns(Head(s), c, k) THEN Following(s, 1, i + 1, c, k)
                                                  ELSE First(s, i + 1, c, k)
    OBVIOUS
  <2>1. i \in Int /\ i >= 1 /\ i + 1 \in 2 .. Len(s) /\ About(s, i + 1, c, k)
    BY <1>1, <1>2 DEF First
  <2>2. \A n \in 2 .. i : ~About(s, n, c, k)
    <3>1. ASSUME NEW n \in 2 .. i PROVE ~About(s, n, c, k)
      <4>1. n \in 2 .. Len(s) /\ n - 1 \in 1 .. i - 1
        BY <2>1
      <4>. QED BY <4>1, <1>0 DEF First
    <3>. QED BY <3>1
  <2>3. CASE Concerns(Head(s), c, k)
    BY <2>1, <2>2, <2>3, <1>2 DEF Following
  <2>4. CASE ~Concerns(Head(s), c, k)
    BY <2>1, <2>2, <2>4, <1>2 DEF First
  <2>. QED BY <2>3, <2>4
<1>7. Concerns(Head(s), c, k) => First(s, 1, c, k)
  BY <1>1, <1>2 DEF First
<1>8. Concerns(Head(s), c, k) /\ ~Noted(t, c, k) => Last(s, 1, c, k)
  BY <1>0, <1>1, <1>2 DEF Last, Noted
<1>9. ASSUME NEW K, EndsAs(s, c, k, K) PROVE EndsAs(t, c, k, K)
  BY <1>1, <1>4, <1>9 DEF EndsAs
<1>10. ASSUME Alternates(s, c, k) PROVE Alternates(t, c, k)
  BY <1>1, <1>5, <1>10 DEF Alternates
<1>11. ASSUME NEW K, ~Concerns(Head(s), c, k), StartsFrom(s, c, k, K)
       PROVE  StartsFrom(t, c, k, K)
  BY <1>1, <1>6, <1>11 DEF StartsFrom
<1>12. ASSUME NEW K, Concerns(Head(s), c, k), Alternates(s, c, k),
              Head(s).type = "press" <=> k \in K
       PROVE  StartsFrom(t, c, k, K)
  <2>1. SUFFICES ASSUME NEW i \in 1 .. Len(t), First(t, i, c, k)
                 PROVE  t[i].type = "press" <=> k \notin K
    BY DEF StartsFrom
  <2>2. Following(s, 1, i + 1, c, k) /\ i + 1 \in 1 .. Len(s) /\ 1 \in 1 .. Len(s)
    BY <2>1, <1>1, <1>6, <1>12
  <2>3. s[1].type # s[i + 1].type
    BY <2>2, <1>12 DEF Alternates
  <2>4. s[1].type \in {"press", "release"} /\ s[i + 1].type \in {"press", "release"}
    BY <2>2 DEF Following, About, Concerns
  <2>. QED BY <2>3, <2>4, <1>1, <1>12
<1>13. ASSUME NEW K, Concerns(Head(s), c, k), StartsFrom(s, c, k, K)
       PROVE  Head(s).type = "press" <=> k \notin K
  BY <1>1, <1>7, <1>13 DEF StartsFrom
<1>14. ASSUME NEW K, Concerns(Head(s), c, k), ~Noted(t, c, k), EndsAs(s, c, k, K)
       PROVE  Head(s).type = "press" <=> k \in K
  BY <1>1, <1>8, <1>14 DEF EndsAs
<1>. QED BY <1>3, <1>9, <1>10, <1>11, <1>12, <1>13, <1>14

LEMMA NotedIs ==
  ASSUME NEW s \in Seq(Event), NEW t \in Seq(Event), NEW c, NEW k
  PROVE  /\ s \o t \in Seq(Event)
         /\ Noted(s \o t, c, k) <=> Noted(s, c, k) \/ Noted(t, c, k)
<1>1. /\ s \o t \in Seq(Event)
      /\ Len(s) \in Nat /\ Len(t) \in Nat /\ Len(s \o t) = Len(s) + Len(t)
      /\ \A i \in 1 .. Len(s) : (s \o t)[i] = s[i]
      /\ \A i \in 1 .. Len(t) : Len(s) + i \in 1 .. Len(s \o t) /\ (s \o t)[Len(s) + i] = t[i]
      /\ \A i \in 1 .. Len(s \o t) : i > Len(s) => i - Len(s) \in 1 .. Len(t)
      /\ \A i \in 1 .. Len(s \o t) : i > Len(s) => (s \o t)[i] = t[i - Len(s)]
  OBVIOUS
<1>2. ASSUME Noted(s \o t, c, k) PROVE Noted(s, c, k) \/ Noted(t, c, k)
  <2>1. PICK i \in 1 .. Len(s \o t) : Concerns((s \o t)[i], c, k)
    BY <1>2 DEF Noted, About
  <2>2. CASE i <= Len(s)
    BY <1>1, <2>1, <2>2 DEF Noted, About
  <2>3. CASE i > Len(s)
    BY <1>1, <2>1, <2>3 DEF Noted, About
  <2>. QED BY <2>2, <2>3, <1>1
<1>3. ASSUME Noted(s, c, k) PROVE Noted(s \o t, c, k)
  BY <1>1, <1>3 DEF Noted, About
<1>4. ASSUME Noted(t, c, k) PROVE Noted(s \o t, c, k)
  BY <1>1, <1>4 DEF Noted, About
<1>. QED BY <1>1, <1>2, <1>3, <1>4

-----------------------------------------------------------------------------
(* What the steps do to the events on their way *)

LEMMA ComingTyped ==
  ASSUME TypeOK
  PROVE  Coming \in Seq(Event)
BY NotedIs DEF TypeOK, Coming

\* The window has an event that changes a key, or one that changes none.
LEMMA NoticeKeeps ==
  ASSUME IInv, NEW e \in Event, Notice(e), held' \in [Canvases -> SUBSET Keys],
         \A c \in Canvases, k \in Keys :
           IF Concerns(e, c, k)
           THEN /\ e.type = "press" <=> k \notin held[c]
                /\ e.type = "press" <=> k \in held'[c]
           ELSE k \in held'[c] <=> k \in held[c]
  PROVE  IInv'
<1>. USE DEF IInv, Notice
<1>1. /\ pending \in Seq(Event) /\ queue \in Seq(Event)
      /\ Len(pending) < MaxPending /\ MaxPending \in Nat /\ stage = "idle"
  BY InputAssumption DEF TypeOK
<1>2. pending' \in Seq(Event) /\ Len(pending') = Len(pending) + 1 /\ Len(pending) \in Nat
  BY <1>1, Appended
<1>3. Coming \in Seq(Event) /\ Coming' = Append(Coming, e)
  BY <1>1, ComingTyped, PutLast DEF Coming
<1>4. TypeOK'
  BY <1>1, <1>2, InputAssumption DEF TypeOK, input
<1>5. FrameReportTrue' /\ IntactInv' /\ ScrollInv'
  BY <1>1 DEF FrameReportTrue, EdgesExplainState, EdgesAlternate, DeltaTelescopes, IntactInv,
     ScrollInv, input
<1>6. ASSUME NEW c \in Canvases, NEW k \in Keys PROVE KeyInv(c, k)'
  <2>0. KeyInv(c, k) /\ pressed' = pressed /\ stale' = stale
    BY DEF ComingInv, input
  <2>2. CASE Concerns(e, c, k)
    <3>1. /\ e.type = "press" <=> k \notin held[c]
          /\ e.type = "press" <=> k \in held'[c]
      BY <2>2
    <3>2. EndsAs(Coming', c, k, held'[c])
      BY <1>3, <2>2, <3>1, NoticedEvents
    <3>3. Alternates(Coming', c, k)
      BY <1>3, <2>0, <3>1, NoticedEvents DEF KeyInv
    <3>4. Noted(Coming', c, k)
      BY <1>3, <2>2, NoticedEvents
    <3>5. ASSUME k \notin stale[c] PROVE StartsFrom(Coming', c, k, pressed[c])
      <4>1. StartsFrom(Coming, c, k, pressed[c]) /\ (Noted(Coming, c, k) \/ (k \in pressed[c] <=> k \in held[c]))
        BY <2>0, <3>5 DEF KeyInv
      <4>2. CASE Noted(Coming, c, k)
        BY <1>3, <4>1, <4>2, NoticedEvents
      <4>3. CASE k \in pressed[c] <=> k \in held[c]
        <5>1. e.type = "press" <=> k \notin pressed[c]
          BY <3>1, <4>3
        <5>. QED BY <1>3, <4>1, <5>1, NoticedEvents
      <4>. QED BY <4>1, <4>2, <4>3
    <3>. QED BY <2>0, <3>2, <3>3, <3>4, <3>5 DEF KeyInv
  <2>3. CASE ~Concerns(e, c, k)
    <3>1. k \in held'[c] <=> k \in held[c]
      BY <2>3
    <3>2. /\ EndsAs(Coming', c, k, held[c]) /\ Alternates(Coming', c, k)
          /\ Noted(Coming', c, k) <=> Noted(Coming, c, k)
      BY <1>3, <2>0, <2>3, NoticedEvents DEF KeyInv
    <3>3. k \notin stale[c] => StartsFrom(Coming', c, k, pressed[c])
      BY <1>3, <2>0, <2>3, NoticedEvents DEF KeyInv
    <3>. QED BY <2>0, <3>1, <3>2, <3>3 DEF KeyInv, EndsAs
  <2>. QED BY <2>2, <2>3
<1>. QED BY <1>4, <1>5, <1>6 DEF ComingInv

LEMMA EventFields ==
  ASSUME NEW e \in Event
  PROVE  /\ e.type \in KeyEvents \cup {"move", "scroll"}
         /\ e.type \in KeyEvents => e.win \in Canvases /\ e.key \in Keys
         /\ e.type = "move" => e.x \in Int
<1>1. CASE e \in [win : Canvases, type : {"press", "release", "repeat"}, key : Keys]
  BY <1>1 DEF KeyEvents
<1>2. CASE e \in [win : Canvases, type : {"move"}, x : Positions]
  BY <1>2, InputAssumption DEF KeyEvents
<1>3. CASE e \in [win : Canvases, type : {"scroll"}]
  BY <1>3 DEF KeyEvents
<1>. QED BY <1>1, <1>2, <1>3 DEF Event

LEMMA CallbackKeeps ==
  ASSUME IInv, Callback
  PROVE  IInv'
<1>. USE DEF IInv
<1>. DEFINE e == Head(pending)
            lost == Head(queue)
<1>1. /\ pending \in Seq(Event) /\ queue \in Seq(Event)
      /\ Len(pending) <= MaxPending /\ Len(queue) <= Capacity
      /\ stage = "pump" /\ pending # <<>> /\ pending' = Tail(pending)
      /\ UNCHANGED <<held, poller, stage, pressed, justPressed, justReleased, mouse, delta,
                     scroll, frame>>
  BY DEF TypeOK, Callback, input
<1>2. e \in Event /\ pending' \in Seq(Event) /\ Len(pending') <= MaxPending /\ Len(queue) \in Nat
  BY <1>1, Removed, InputAssumption
<1>3. CASE Len(queue) # Capacity
  <2>1. queue' = Append(queue, e) /\ stale' = stale /\ intact' = intact
    BY <1>3 DEF Callback, Push
  <2>2. queue' \in Seq(Event) /\ Len(queue') <= Capacity
    BY <1>1, <1>2, <1>3, <2>1, Appended, InputAssumption
  <2>3. Coming' = Coming
    BY <1>1, <2>1, PassOn DEF Coming
  <2>4. TypeOK'
    BY <1>1, <1>2, <2>1, <2>2 DEF TypeOK
  <2>5. ComingInv'
    BY <1>1, <2>1, <2>3 DEF ComingInv, KeyInv
  <2>6. FrameReportTrue' /\ IntactInv' /\ ScrollInv'
    BY <1>1, <2>1 DEF FrameReportTrue, EdgesExplainState, EdgesAlternate, DeltaTelescopes,
       IntactInv, ScrollInv
  <2>. QED BY <2>4, <2>5, <2>6
<1>4. CASE Len(queue) = Capacity
  <2>1. /\ queue' = Append(Tail(queue), e)
        /\ stale' = IF lost.type \in KeyEvents
                    THEN [stale EXCEPT ![lost.win] = @ \cup {lost.key}] ELSE stale
        /\ intact' = (intact /\ lost.type \notin KeyEvents)
    BY <1>4 DEF Callback, Push
  <2>2. /\ queue # <<>> /\ Tail(queue) \in Seq(Event) /\ Len(Tail(queue)) = Len(queue) - 1
        /\ lost \in Event
    BY <1>1, <1>2, <1>4, Removed, InputAssumption
  <2>3. queue' \in Seq(Event) /\ Len(queue') = Capacity
    BY <1>2, <1>4, <2>1, <2>2, Appended, InputAssumption
  <2>4. Coming \in Seq(Event) /\ Coming # <<>> /\ Head(Coming) = lost /\ Coming' = Tail(Coming)
    <3>1. Coming \in Seq(Event)
      BY ComingTyped
    <3>2. Coming # <<>> /\ Head(Coming) = lost /\ Tail(queue) \o pending = Tail(Coming)
      BY <1>1, <2>2, TakeFirst DEF Coming
    <3>3. Append(Tail(queue), e) \o Tail(pending) = Tail(queue) \o pending
      BY <1>1, <2>2, PassOn
    <3>4. Coming' = Append(Tail(queue), e) \o Tail(pending)
      BY <1>1, <2>1 DEF Coming
    <3>. QED BY <3>1, <3>2, <3>3, <3>4
  <2>5. lost.type \in KeyEvents => lost.win \in Canvases /\ lost.key \in Keys
    BY <2>2, EventFields
  <2>6. TypeOK'
    BY <1>1, <1>2, <2>1, <2>3, <2>5 DEF TypeOK
  <2>7. ASSUME NEW c \in Canvases, NEW k \in Keys PROVE KeyInv(c, k)'
    <3>1. /\ KeyInv(c, k) /\ stale[c] \subseteq stale'[c]
          /\ Concerns(lost, c, k) => k \in stale'[c]
      BY <2>1, <2>5 DEF ComingInv, TypeOK, Concerns, KeyEvents
    <3>2. EndsAs(Coming', c, k, held'[c]) /\ Alternates(Coming', c, k)
      <4>1. EndsAs(Coming, c, k, held[c]) /\ Alternates(Coming, c, k)
        BY <3>1 DEF KeyInv
      <4>2. EndsAs(Coming', c, k, held[c]) /\ Alternates(Coming', c, k)
        BY <2>4, <4>1, TakenEvents
      <4>. QED BY <1>1, <4>2
    <3>3. ~Concerns(lost, c, k) =>
            /\ \A K : StartsFrom(Coming, c, k, K) => StartsFrom(Coming', c, k, K)
            /\ Noted(Coming, c, k) => Noted(Coming', c, k)
      BY <2>4, TakenEvents
    <3>. QED BY <1>1, <3>1, <3>2, <3>3 DEF KeyInv
  <2>8. FrameReportTrue' /\ IntactInv' /\ ScrollInv'
    BY <1>1, <2>1 DEF FrameReportTrue, EdgesExplainState, EdgesAlternate, DeltaTelescopes,
       IntactInv, ScrollInv
  <2>. QED BY <2>6, <2>7, <2>8 DEF ComingInv
<1>. QED BY <1>3, <1>4

-----------------------------------------------------------------------------
(* update() *)

\* What one event does to the canvas that takes it.
Effect(p, e) ==
  /\ pressed' = [pressed EXCEPT ![p] = CASE e.type = "press"   -> @ \cup {e.key}
                                         [] e.type = "release" -> @ \ {e.key}
                                         [] OTHER              -> @]
  /\ justPressed' = [justPressed EXCEPT ![p] = IF e.type = "press" THEN @ \cup {e.key} ELSE @]
  /\ justReleased' = [justReleased EXCEPT ![p] = IF e.type = "release" THEN @ \cup {e.key} ELSE @]
  /\ mouse' = [mouse EXCEPT ![p] = IF e.type = "move" THEN e.x ELSE @]
  /\ delta' = [delta EXCEPT ![p] = IF e.type = "move" THEN @ + (e.x - mouse[p]) ELSE @]
  /\ scroll' = [scroll EXCEPT ![p] = IF e.type = "scroll" THEN @ + 1 ELSE @]

LEMMA ProcessIs ==
  ASSUME TypeOK, NEW p \in Canvases, NEW e \in Event,
         ProcessKey(p, e) \/ ProcessMove(p, e) \/ ProcessScroll(p, e)
  PROVE  Effect(p, e)
<1>1. CASE ProcessKey(p, e)
  BY <1>1 DEF ProcessKey, KeyEvents, TypeOK, Effect
<1>2. CASE ProcessMove(p, e)
  BY <1>2 DEF ProcessMove, TypeOK, Effect
<1>3. CASE ProcessScroll(p, e)
  BY <1>3 DEF ProcessScroll, TypeOK, Effect
<1>. QED BY <1>1, <1>2, <1>3

LEMMA AttributeIs ==
  ASSUME TypeOK, NEW p \in Canvases, NEW e \in Event, Attribute(p, e)
  PROVE  LET change == e.type \in {"press", "release"} IN
         /\ stale' \in [Canvases -> SUBSET Keys] /\ intact' \in BOOLEAN
         /\ \A c \in Canvases, k \in Keys :
              k \in stale'[c] <=>
                \/ change /\ e.win # p /\ c \in {p, e.win} /\ k = e.key
                \/ k \in stale[c] /\ ~(change /\ e.win = p /\ c = p /\ k = e.key)
<1>1. stale \in [Canvases -> SUBSET Keys] /\ intact \in BOOLEAN
  BY DEF TypeOK
<1>2. CASE e.type \notin {"press", "release"}
  BY <1>1, <1>2 DEF Attribute
<1>3. CASE e.type \in {"press", "release"} /\ e.win = p
  <2>1. e.key \in Keys
    BY <1>3, EventFields DEF KeyEvents
  <2>2. stale' = [stale EXCEPT ![p] = @ \ {e.key}] /\ intact' = intact
    BY <1>1, <1>3 DEF Attribute
  <2>. QED BY <1>1, <1>3, <2>1, <2>2
<1>4. CASE e.type \in {"press", "release"} /\ e.win # p
  <2>1. e.key \in Keys /\ e.win \in Canvases
    BY <1>4, EventFields DEF KeyEvents
  <2>2. stale' = [stale EXCEPT ![p] = @ \cup {e.key}, ![e.win] = @ \cup {e.key}] /\ intact' = FALSE
    BY <1>4 DEF Attribute
  <2>3. \A c \in Canvases : stale'[c] = IF c \in {p, e.win} THEN stale[c] \cup {e.key} ELSE stale[c]
    BY <1>1, <1>4, <2>1, <2>2
  <2>4. stale' \in [Canvases -> SUBSET Keys]
    BY <1>1, <1>4, <2>1, <2>2
  <2>. QED BY <1>4, <2>1, <2>2, <2>3, <2>4
<1>. QED BY <1>2, <1>3, <1>4

LEMMA DrainKeeps ==
  ASSUME IInv, Drain
  PROVE  IInv'
<1>. USE DEF IInv
<1>. DEFINE e == Head(queue)
            p == poller
<1>1. /\ queue \in Seq(Event) /\ pending \in Seq(Event)
      /\ stage = "drain" /\ queue # <<>> /\ p \in Canvases
      /\ queue' = Tail(queue)
      /\ UNCHANGED <<held, pending, poller, stage, frame>>
      /\ Attribute(p, e)
  BY DEF Drain, TypeOK
<1>2. /\ e \in Event /\ queue' \in Seq(Event) /\ Len(queue') = Len(queue) - 1
      /\ Len(queue) \in Nat \ {0}
  BY <1>1, Removed
<1>. HIDE DEF e, p
<1>3. Effect(p, e)
  BY <1>1, <1>2, ProcessIs DEF Drain, e, p
<1>4. Coming \in Seq(Event) /\ Coming # <<>> /\ Head(Coming) = e /\ Coming' = Tail(Coming)
  BY <1>1, ComingTyped, TakeFirst DEF Coming, e
<1>5. /\ e.type \in KeyEvents \cup {"move", "scroll"}
      /\ e.type \in KeyEvents => e.win \in Canvases /\ e.key \in Keys
      /\ e.type = "move" => e.x \in Int
  BY <1>2, EventFields
<1>6. ScrollInv' /\ scroll' \in [Canvases -> 0 .. Capacity]
  <2>1. /\ scroll \in [Canvases -> 0 .. Capacity] /\ scroll[p] + Len(queue) <= Capacity
        /\ Capacity \in Nat
    BY <1>1, InputAssumption DEF TypeOK, ScrollInv, p
  <2>2. scroll' = [scroll EXCEPT ![p] = IF e.type = "scroll" THEN @ + 1 ELSE @]
    BY <1>3 DEF Effect
  <2>. QED BY <1>1, <1>2, <2>1, <2>2 DEF ScrollInv, p
<1>7. TypeOK'
  <2>1. /\ pressed' \in [Canvases -> SUBSET Keys]
        /\ justPressed' \in [Canvases -> SUBSET Keys]
        /\ justReleased' \in [Canvases -> SUBSET Keys]
    BY <1>1, <1>3, <1>5 DEF TypeOK, Effect, KeyEvents
  <2>2. mouse' \in [Canvases -> Int] /\ delta' \in [Canvases -> Int]
    BY <1>1, <1>3, <1>5 DEF TypeOK, Effect
  <2>3. stale' \in [Canvases -> SUBSET Keys] /\ intact' \in BOOLEAN
    BY <1>1, <1>2, AttributeIs
  <2>4. Len(queue') <= Capacity
    BY <1>2, InputAssumption DEF TypeOK
  <2>. QED BY <1>1, <1>2, <1>6, <2>1, <2>2, <2>3, <2>4 DEF TypeOK
<1>8. ASSUME NEW c \in Canvases, NEW k \in Keys PROVE KeyInv(c, k)'
  <2>0. KeyInv(c, k)
    BY DEF ComingInv
  <2>1. EndsAs(Coming', c, k, held'[c]) /\ Alternates(Coming', c, k)
    <3>1. EndsAs(Coming, c, k, held[c]) /\ Alternates(Coming, c, k)
      BY <2>0 DEF KeyInv
    <3>2. EndsAs(Coming', c, k, held[c]) /\ Alternates(Coming', c, k)
      BY <1>4, <3>1, TakenEvents
    <3>. QED BY <1>1, <3>2
  <2>2. CASE Concerns(e, c, k)
    <3>1. CASE c # p
      <4>1. k \in stale'[c]
        BY <1>1, <1>7, <2>2, <3>1 DEF Attribute, Concerns, TypeOK
      <4>. QED BY <2>1, <4>1 DEF KeyInv
    <3>2. CASE c = p
      <4>1. e.type = "press" <=> k \in pressed'[c]
        BY <1>3, <2>2, <3>2 DEF Effect, Concerns, TypeOK
      <4>2. StartsFrom(Coming', c, k, pressed'[c])
        BY <1>4, <2>0, <2>2, <4>1, TakenEvents DEF KeyInv
      <4>3. Noted(Coming', c, k) \/ (e.type = "press" <=> k \in held[c])
        BY <1>4, <2>0, <2>2, TakenEvents DEF KeyInv
      <4>. QED BY <1>1, <2>1, <4>1, <4>2, <4>3 DEF KeyInv
    <3>. QED BY <3>1, <3>2
  <2>3. CASE ~Concerns(e, c, k)
    <3>1. /\ \A K : StartsFrom(Coming, c, k, K) => StartsFrom(Coming', c, k, K)
          /\ Noted(Coming, c, k) => Noted(Coming', c, k)
      BY <1>4, <2>3, TakenEvents
    <3>2. k \notin stale'[c] => k \notin stale[c] /\ (k \in pressed'[c] <=> k \in pressed[c])
      <4>1. k \in stale'[c] <=>
              \/ /\ e.type \in {"press", "release"} /\ e.win # p /\ c \in {p, e.win} /\ k = e.key
              \/ /\ k \in stale[c]
                 /\ ~(e.type \in {"press", "release"} /\ e.win = p /\ c = p /\ k = e.key)
        BY <1>1, <1>2, AttributeIs
      <4>2. (k \in pressed'[c] <=> k \in pressed[c])
              \/ (c = p /\ k = e.key /\ e.type \in {"press", "release"})
        BY <1>1, <1>3 DEF Effect, TypeOK
      <4>. QED BY <2>3, <4>1, <4>2 DEF Concerns
    <3>. QED BY <1>1, <2>0, <2>1, <3>1, <3>2 DEF KeyInv, StartsFrom
  <2>. QED BY <2>2, <2>3
<1>9. EdgesExplainState'
  BY <1>1, <1>3 DEF FrameReportTrue, EdgesExplainState, Effect, TypeOK
<1>10. EdgesAlternate'
  <2>. SUFFICES ASSUME intact', NEW c \in Canvases
                PROVE  /\ justPressed'[c] \cap frame[c].pressed \subseteq justReleased'[c]
                       /\ justReleased'[c] \ frame[c].pressed \subseteq justPressed'[c]
    BY <1>1 DEF EdgesAlternate
  <2>1. intact /\ (e.type \in {"press", "release"} => e.win = p)
    BY <1>1 DEF Attribute
  <2>2. e.type \in {"press", "release"} => (e.type = "press" <=> e.key \notin pressed[p])
    <3>. SUFFICES ASSUME e.type \in {"press", "release"} PROVE e.type = "press" <=> e.key \notin pressed[p]
      OBVIOUS
    <3>1. e.key \in Keys /\ Concerns(e, p, e.key)
      BY <1>5, <2>1 DEF Concerns, KeyEvents
    <3>2. StartsFrom(Coming, p, e.key, pressed[p])
      BY <1>1, <2>1, <3>1 DEF ComingInv, KeyInv, IntactInv
    <3>. QED BY <1>4, <3>1, <3>2, TakenEvents
  <2>3. /\ justPressed[c] \cap frame[c].pressed \subseteq justReleased[c]
        /\ justReleased[c] \ frame[c].pressed \subseteq justPressed[c]
        /\ pressed[c] \ frame[c].pressed \subseteq justPressed[c]
        /\ frame[c].pressed \ pressed[c] \subseteq justReleased[c]
    BY <2>1 DEF FrameReportTrue, EdgesAlternate, EdgesExplainState
  <2>4. CASE c # p \/ e.type \notin {"press", "release"}
    <3>1. justPressed'[c] = justPressed[c] /\ justReleased'[c] = justReleased[c]
      BY <1>3, <2>4 DEF Effect, TypeOK
    <3>. QED BY <2>3, <3>1
  <2>5. CASE c = p /\ e.type = "press"
    <3>1. justPressed'[c] = justPressed[c] \cup {e.key} /\ justReleased'[c] = justReleased[c]
      BY <1>1, <1>3, <2>5 DEF Effect, TypeOK
    <3>. QED BY <2>2, <2>3, <2>5, <3>1
  <2>6. CASE c = p /\ e.type = "release"
    <3>1. justPressed'[c] = justPressed[c] /\ justReleased'[c] = justReleased[c] \cup {e.key}
      BY <1>1, <1>3, <2>6 DEF Effect, TypeOK
    <3>. QED BY <2>2, <2>3, <2>6, <3>1
  <2>. QED BY <2>4, <2>5, <2>6
<1>11. DeltaTelescopes'
  <2>1. /\ mouse \in [Canvases -> Int] /\ delta \in [Canvases -> Int]
        /\ \A c \in Canvases : frame[c].mouse \in Int /\ mouse[c] = frame[c].mouse + delta[c]
    BY DEF TypeOK, FrameReportTrue, DeltaTelescopes
  <2>2. /\ mouse' = [mouse EXCEPT ![p] = IF e.type = "move" THEN e.x ELSE @]
        /\ delta' = [delta EXCEPT ![p] = IF e.type = "move" THEN @ + (e.x - mouse[p]) ELSE @]
    BY <1>3 DEF Effect
  <2>3. SUFFICES ASSUME NEW c \in Canvases
                 PROVE  mouse'[c] = frame[c].mouse + delta'[c]
    BY <1>1 DEF DeltaTelescopes
  <2>4. CASE c = p /\ e.type = "move"
    <3>1. mouse'[c] = e.x /\ delta'[c] = delta[c] + (e.x - mouse[c])
      BY <2>1, <2>2, <2>4
    <3>. QED BY <1>5, <2>1, <2>4, <3>1
  <2>5. CASE ~(c = p /\ e.type = "move")
    <3>1. mouse'[c] = mouse[c] /\ delta'[c] = delta[c]
      BY <2>1, <2>2, <2>5
    <3>. QED BY <2>1, <3>1
  <2>. QED BY <2>4, <2>5
<1>12. IntactInv'
  <2>1. intact' => intact /\ ~(e.type \in {"press", "release"} /\ e.win # p)
    BY <1>1 DEF Attribute
  <2>2. SUFFICES ASSUME intact', NEW c \in Canvases PROVE stale'[c] = {}
    BY DEF IntactInv
  <2>3. stale[c] = {} /\ stale'[c] \in SUBSET Keys
    BY <1>7, <2>1, <2>2 DEF IntactInv, TypeOK
  <2>4. \A k \in Keys : k \notin stale'[c]
    BY <1>1, <1>2, <2>1, <2>2, <2>3, AttributeIs
  <2>. QED BY <2>3, <2>4
<1>. QED BY <1>6, <1>7, <1>8, <1>9, <1>10, <1>11, <1>12 DEF ComingInv, FrameReportTrue

LEMMA BeginKeeps ==
  ASSUME IInv, NEW c \in Canvases, Begin(c)
  PROVE  IInv'
<1>. USE DEF IInv, Begin
<1>1. TypeOK'
  BY InputAssumption DEF TypeOK
<1>2. ComingInv'
  BY DEF ComingInv, KeyInv, Coming
<1>3. EdgesExplainState' /\ EdgesAlternate'
  BY DEF FrameReportTrue, EdgesExplainState, EdgesAlternate, TypeOK
<1>4. DeltaTelescopes'
  BY DEF FrameReportTrue, DeltaTelescopes, TypeOK
<1>5. IntactInv' /\ ScrollInv'
  BY DEF IntactInv, ScrollInv, TypeOK
<1>. QED BY <1>1, <1>2, <1>3, <1>4, <1>5 DEF FrameReportTrue

\* What happens before poll() drains, and after, changes no InputState.
LEMMA StagesKeep ==
  ASSUME IInv, PumpDone \/ DrainDone \/ UNCHANGED vars
  PROVE  IInv'
<1>. USE DEF IInv, PumpDone, DrainDone, vars, input
<1>1. TypeOK'
  BY InputAssumption DEF TypeOK
<1>2. ComingInv'
  BY DEF ComingInv, KeyInv, Coming
<1>3. FrameReportTrue' /\ IntactInv'
  BY DEF FrameReportTrue, EdgesExplainState, EdgesAlternate, DeltaTelescopes, IntactInv
<1>4. ScrollInv'
  <2>1. /\ scroll \in [Canvases -> 0 .. Capacity] /\ Len(queue) \in Nat
        /\ Len(queue) <= Capacity /\ Capacity \in Nat
    BY InputAssumption DEF TypeOK
  <2>. QED BY <2>1 DEF ScrollInv
<1>. QED BY <1>1, <1>2, <1>3, <1>4

-----------------------------------------------------------------------------
(* The inductive invariant *)

LEMMA InitInvariant == Init => IInv
<1>. SUFFICES ASSUME Init PROVE IInv
  OBVIOUS
<1>. USE DEF Init
<1>1. TypeOK
  BY InputAssumption DEF TypeOK
<1>2. Coming = <<>> /\ Len(Coming) = 0
  BY DEF Coming
<1>3. ComingInv
  BY <1>2 DEF ComingInv, KeyInv, EndsAs, Alternates, StartsFrom
<1>4. FrameReportTrue /\ IntactInv /\ ScrollInv
  BY DEF FrameReportTrue, EdgesExplainState, EdgesAlternate, DeltaTelescopes, IntactInv, ScrollInv
<1>. QED BY <1>1, <1>3, <1>4 DEF IInv

LEMMA NextInvariant == IInv /\ [Next]_vars => IInv'
<1>. SUFFICES ASSUME IInv, [Next]_vars PROVE IInv'
  OBVIOUS
<1>0. held \in [Canvases -> SUBSET Keys]
  BY DEF IInv, TypeOK
<1>1. ASSUME NEW c \in Canvases, NEW k \in Keys, Press(c, k) \/ Release(c, k) \/ Repeat(c, k)
      PROVE  IInv'
  <2>. DEFINE e(type) == [win |-> c, type |-> type, key |-> k]
  <2>0. \A type \in KeyEvents : e(type) \in Event
    BY DEF Event, KeyEvents
  <2>1. CASE Press(c, k)
    <3>1. held' \in [Canvases -> SUBSET Keys] /\ Notice(e("press")) /\ e("press") \in Event
      BY <1>0, <2>0, <2>1 DEF Press, KeyEvents
    <3>2. \A d \in Canvases, j \in Keys :
            IF d = c /\ j = k THEN j \notin held[d] /\ j \in held'[d]
                              ELSE j \in held'[d] <=> j \in held[d]
      BY <1>0, <2>1 DEF Press
    <3>. QED BY <3>1, <3>2, NoticeKeeps DEF Concerns
  <2>2. CASE Release(c, k)
    <3>1. held' \in [Canvases -> SUBSET Keys] /\ Notice(e("release")) /\ e("release") \in Event
      BY <1>0, <2>0, <2>2 DEF Release, KeyEvents
    <3>2. \A d \in Canvases, j \in Keys :
            IF d = c /\ j = k THEN j \in held[d] /\ j \notin held'[d]
                              ELSE j \in held'[d] <=> j \in held[d]
      BY <1>0, <2>2 DEF Release
    <3>. QED BY <3>1, <3>2, NoticeKeeps DEF Concerns
  <2>3. CASE Repeat(c, k)
    <3>1. held' = held /\ Notice(e("repeat")) /\ e("repeat") \in Event
      BY <2>0, <2>3 DEF Repeat, KeyEvents
    <3>. QED BY <1>0, <3>1, NoticeKeeps DEF Concerns
  <2>. QED BY <1>1, <2>1, <2>2, <2>3
<1>2. ASSUME NEW c \in Canvases, NEW x \in Positions, Move(c, x) PROVE IInv'
  <2>1. [win |-> c, type |-> "move", x |-> x] \in Event
    BY DEF Event
  <2>. QED BY <1>0, <1>2, <2>1, NoticeKeeps DEF Move, Concerns
<1>3. ASSUME NEW c \in Canvases, Scroll(c) PROVE IInv'
  <2>1. [win |-> c, type |-> "scroll"] \in Event
    BY DEF Event
  <2>. QED BY <1>0, <1>3, <2>1, NoticeKeeps DEF Scroll, Concerns
<1>4. ASSUME NEW c \in Canvases, Begin(c) PROVE IInv'
  BY <1>4, BeginKeeps
<1>5. CASE Callback
  BY <1>5, CallbackKeeps
<1>6. CASE Drain
  BY <1>6, DrainKeeps
<1>7. CASE PumpDone \/ DrainDone \/ UNCHANGED vars
  BY <1>7, StagesKeep
<1>. QED BY <1>1, <1>2, <1>3, <1>4, <1>5, <1>6, <1>7 DEF Next

LEMMA Invariant == Spec => []IInv
<1>. QED BY InitInvariant, NextInvariant, PTL DEF Spec

-----------------------------------------------------------------------------
(* Results *)

\* The variables keep their types, and no canvas scrolls by more than a queue of
\* events between two frames, although updates accumulate without a limit.
THEOREM TypeCorrect == Spec => []TypeOK
<1>1. IInv => TypeOK
  BY DEF IInv
<1>. QED BY <1>1, Invariant, PTL

\* What is_key_pressed answers is true of every key whose events the full queue did
\* not lose, another canvas did not take, and poll() has delivered.
THEOREM KeysTrue == Spec => []KeysShownTrue
<1>1. IInv => KeysShownTrue
  <2>. SUFFICES ASSUME IInv, NEW c \in Canvases, NEW k \in Keys \ stale[c]
                PROVE  UnderWay(c, k) \/ (k \in pressed[c] <=> k \in held[c])
    BY DEF KeysShownTrue
  <2>1. Noted(Coming, c, k) \/ (k \in pressed[c] <=> k \in held[c])
    BY DEF IInv, ComingInv, KeyInv
  <2>2. Noted(Coming, c, k) <=> Noted(queue, c, k) \/ Noted(pending, c, k)
    BY NotedIs DEF IInv, TypeOK, Coming
  <2>. QED BY <2>1, <2>2 DEF UnderWay, Noted, About
<1>. QED BY <1>1, Invariant, PTL

\* The edges and the movement a frame reports are those that led to its state:
\* every change has its edge, with nothing lost every edge has its change, and
\* movements add up whatever was lost.
THEOREM ReportsTrue == Spec => []FrameReportTrue
<1>1. IInv => FrameReportTrue
  BY DEF IInv
<1>. QED BY <1>1, Invariant, PTL
=============================================================================
