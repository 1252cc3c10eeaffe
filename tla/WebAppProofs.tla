---------------------------- MODULE WebAppProofs ----------------------------
(***************************************************************************)
(* Proofs about WebApp for any number of callers.                           *)
(***************************************************************************)
EXTENDS WebApp, QueueLemmas

\* The callbacks registered, in the order in which they will run.
Order == turn \o raf

Among(s, x)     == \E i \in 1 .. Len(s) : s[i] = x
Before(s, x, y) == \E i, j \in 1 .. Len(s) : i < j /\ s[i] = x /\ s[j] = y
EachOnce(s)     == \A i, j \in 1 .. Len(s) : s[i] = s[j] => i = j

Callbacks == Callers \cup {Loop}

\* A picture that is ready is fetched before `loop` draws again: somebody who
\* waits for it is registered ahead of the loop.
ReadyInv ==
  ready => /\ map = "none"
           /\ ending = "none" => \E c \in Waiting : Before(Order, c, Loop)

\* The buffer is mapped from the request to the release of the picture.
MappedInv == mapped <=> map \in {"pending", "ok"} \/ ready

\* A caller that nobody overlapped waits alone, and any capture under way or
\* ready was started for it.
AloneInv ==
  \A c \in Waiting \ shared :
    Waiting = {c} /\ (map # "none" \/ ready => c \in content)

IInv ==
  /\ TypeOK
  /\ AwaitersRegistered
  /\ PictureIsAwaited
  /\ ReadyInv
  /\ MappedInv
  /\ AloneInv

-----------------------------------------------------------------------------
(* Callbacks without repetition *)

LEMMA RegisteredLast ==
  ASSUME NEW S, NEW s \in Seq(S), NEW e \in S
  PROVE  /\ Append(s, e) \in Seq(S)
         /\ EachOnce(s) /\ ~Among(s, e) => EachOnce(Append(s, e))
         /\ \A x : Among(Append(s, e), x) <=> Among(s, x) \/ x = e
         /\ \A x, y : Before(s, x, y) => Before(Append(s, e), x, y)
         /\ \A x : Among(s, x) => Before(Append(s, e), x, e)
<1>. DEFINE t == Append(s, e)
<1>1. /\ t \in Seq(S) /\ Len(t) = Len(s) + 1 /\ Len(s) \in Nat
      /\ t[Len(s) + 1] = e /\ \A i \in 1 .. Len(s) : t[i] = s[i]
  BY Appended
<1>. HIDE DEF t
<1>2. EachOnce(s) /\ ~Among(s, e) => EachOnce(t)
  BY <1>1 DEF EachOnce, Among
<1>3. \A x : Among(t, x) <=> Among(s, x) \/ x = e
  BY <1>1 DEF Among
<1>4. \A x, y : Before(s, x, y) => Before(t, x, y)
  BY <1>1 DEF Before
<1>5. ASSUME NEW x, Among(s, x) PROVE Before(t, x, e)
  <2>1. PICK i \in 1 .. Len(s) : s[i] = x
    BY <1>5 DEF Among
  <2>2. i < Len(s) + 1 /\ i \in 1 .. Len(t) /\ Len(s) + 1 \in 1 .. Len(t) /\ t[i] = x
    BY <2>1, <1>1
  <2>. QED BY <2>2, <1>1 DEF Before
<1>. QED BY <1>1, <1>2, <1>3, <1>4, <1>5 DEF t

LEMMA CalledFirst ==
  ASSUME NEW S, NEW s \in Seq(S), s # <<>>, EachOnce(s)
  PROVE  /\ Tail(s) \in Seq(S) /\ Head(s) \in S
         /\ EachOnce(Tail(s))
         /\ Among(s, Head(s))
         /\ \A x : Among(Tail(s), x) <=> Among(s, x) /\ x # Head(s)
         /\ \A x, y : Before(s, x, y) => y # Head(s)
<1>. DEFINE t == Tail(s)
<1>1. /\ t \in Seq(S) /\ Len(t) = Len(s) - 1 /\ Len(s) \in Nat \ {0}
      /\ Head(s) \in S /\ Head(s) = s[1]
      /\ \A i \in 1 .. Len(s) - 1 : t[i] = s[i + 1]
  BY Removed
<1>. HIDE DEF t
<1>2. EachOnce(t)
  <2>1. ASSUME NEW i \in 1 .. Len(t), NEW j \in 1 .. Len(t), t[i] = t[j] PROVE i = j
    <3>1. s[i + 1] = s[j + 1] /\ i + 1 \in 1 .. Len(s) /\ j + 1 \in 1 .. Len(s)
      BY <2>1, <1>1
    <3>2. i + 1 = j + 1
      BY <3>1 DEF EachOnce
    <3>. QED BY <3>2, <1>1
  <2>. QED BY <2>1 DEF EachOnce
<1>3. Among(s, Head(s))
  BY <1>1 DEF Among
<1>4. ASSUME NEW x PROVE Among(t, x) <=> Among(s, x) /\ x # Head(s)
  <2>1. ASSUME Among(t, x) PROVE Among(s, x) /\ x # Head(s)
    <3>1. PICK i \in 1 .. Len(t) : t[i] = x
      BY <2>1 DEF Among
    <3>2. s[i + 1] = x /\ i + 1 \in 1 .. Len(s) /\ i + 1 # 1 /\ 1 \in 1 .. Len(s)
      BY <3>1, <1>1
    <3>. QED BY <3>2, <1>1 DEF Among, EachOnce
  <2>2. ASSUME Among(s, x), x # Head(s) PROVE Among(t, x)
    <3>1. PICK i \in 1 .. Len(s) : s[i] = x
      BY <2>2 DEF Among
    <3>2. i # 1
      BY <3>1, <2>2, <1>1
    <3>3. i - 1 \in 1 .. Len(t) /\ t[i - 1] = s[(i - 1) + 1] /\ (i - 1) + 1 = i
      BY <3>2, <1>1
    <3>. QED BY <3>1, <3>3 DEF Among
  <2>. QED BY <2>1, <2>2
<1>5. ASSUME NEW x, NEW y, Before(s, x, y) PROVE y # Head(s)
  <2>1. PICK i \in 1 .. Len(s), j \in 1 .. Len(s) : i < j /\ s[i] = x /\ s[j] = y
    BY <1>5 DEF Before
  <2>2. j # 1 /\ 1 \in 1 .. Len(s)
    BY <2>1, <1>1
  <2>. QED BY <2>1, <2>2, <1>1 DEF EachOnce
<1>. QED BY <1>1, <1>2, <1>3, <1>4, <1>5 DEF t

\* A callback that registers itself again goes to the end.
LEMMA RegisteredAgain ==
  ASSUME NEW S, NEW s \in Seq(S), s # <<>>, EachOnce(s)
  PROVE  LET t == Append(Tail(s), Head(s)) IN
         /\ t \in Seq(S) /\ EachOnce(t)
         /\ \A x : Among(t, x) <=> Among(s, x)
         /\ \A x : Among(s, x) /\ x # Head(s) => Before(t, x, Head(s))
<1>. DEFINE r == Tail(s)
            t == Append(r, Head(s))
<1>1. /\ r \in Seq(S) /\ Head(s) \in S /\ EachOnce(r) /\ Among(s, Head(s))
      /\ \A x : Among(r, x) <=> Among(s, x) /\ x # Head(s)
  BY CalledFirst
<1>. HIDE DEF r
<1>2. /\ t \in Seq(S)
      /\ EachOnce(r) /\ ~Among(r, Head(s)) => EachOnce(t)
      /\ \A x : Among(t, x) <=> Among(r, x) \/ x = Head(s)
      /\ \A x : Among(r, x) => Before(t, x, Head(s))
  BY <1>1, RegisteredLast
<1>. QED BY <1>1, <1>2 DEF r

-----------------------------------------------------------------------------
(* What the steps do to the order *)

LEMMA OrderTyped ==
  ASSUME TypeOK
  PROVE  /\ turn \in Seq(Callbacks) /\ raf \in Seq(Callbacks)
         /\ Order \in Seq(Callbacks) /\ EachOnce(Order)
BY DEF TypeOK, Order, EachOnce, Callbacks

\* The next animation frame begins when the current one is over.
LEMMA FrameBegins ==
  ASSUME TypeOK, BeginFrame
  PROVE  /\ turn' \in Seq(Callbacks) /\ raf' \in Seq(Callbacks) /\ Order' = Order
<1>1. turn = <<>> /\ turn' = raf /\ raf' = <<>>
  BY DEF BeginFrame
<1>2. raf \in Seq(Callbacks)
  BY OrderTyped
<1>3. <<>> \o raf = raf /\ raf \o <<>> = raf
  BY <1>2, ConcatEmptySeq
<1>. QED BY <1>1, <1>2, <1>3 DEF Order

\* The first callback runs and does not register again.
LEMMA CallbackLeaves ==
  ASSUME TypeOK, turn # <<>>, turn' = Tail(turn), raf' = raf
  PROVE  /\ turn' \in Seq(Callbacks) /\ raf' \in Seq(Callbacks)
         /\ Order # <<>> /\ Head(Order) = Head(turn) /\ Order' = Tail(Order)
         /\ EachOnce(Order')
         /\ Among(Order, Head(turn))
         /\ \A x : Among(Order', x) <=> Among(Order, x) /\ x # Head(turn)
         /\ \A x, y : Before(Order, x, y) => y # Head(turn)
<1>1. /\ Order \in Seq(Callbacks) /\ EachOnce(Order)
      /\ turn \in Seq(Callbacks) /\ raf \in Seq(Callbacks)
  BY OrderTyped
<1>2. Order # <<>> /\ Head(Order) = Head(turn) /\ Order' = Tail(Order)
  BY <1>1, TakeFirst DEF Order
<1>3. turn' \in Seq(Callbacks)
  BY <1>1, Removed
<1>. QED BY <1>1, <1>2, <1>3, CalledFirst

\* It runs and registers again for the next animation frame.
LEMMA CallbackStays ==
  ASSUME TypeOK, turn # <<>>, turn' = Tail(turn), raf' = Append(raf, Head(turn))
  PROVE  /\ turn' \in Seq(Callbacks) /\ raf' \in Seq(Callbacks)
         /\ EachOnce(Order')
         /\ Among(Order, Head(turn))
         /\ \A x : Among(Order', x) <=> Among(Order, x)
         /\ \A x, y : Before(Order, x, y) => y # Head(turn)
         /\ \A x : Among(Order, x) /\ x # Head(turn) => Before(Order', x, Head(turn))
<1>1. /\ Order \in Seq(Callbacks) /\ EachOnce(Order)
      /\ turn \in Seq(Callbacks) /\ raf \in Seq(Callbacks)
  BY OrderTyped
<1>2. Order # <<>> /\ Head(Order) = Head(turn) /\ Tail(turn) \o raf = Tail(Order)
  BY <1>1, TakeFirst DEF Order
<1>3. Tail(turn) \in Seq(Callbacks) /\ Head(turn) \in Callbacks
  BY <1>1, Removed
<1>4. Order' = Append(Tail(Order), Head(Order))
  <2>1. Tail(turn) \o Append(raf, Head(turn)) = Append(Tail(turn) \o raf, Head(turn))
    BY <1>1, <1>3, PutLast
  <2>2. Order' = Tail(turn) \o Append(raf, Head(turn))
    BY DEF Order
  <2>. QED BY <1>2, <2>1, <2>2
<1>5. turn' \in Seq(Callbacks) /\ raf' \in Seq(Callbacks)
  BY <1>1, <1>3, Appended
<1>6. /\ Among(Order, Head(Order))
      /\ \A x, y : Before(Order, x, y) => y # Head(Order)
  BY <1>1, <1>2, CalledFirst
<1>. QED BY <1>1, <1>2, <1>4, <1>5, <1>6, RegisteredAgain

\* Somebody who is not registered registers for the next animation frame.
LEMMA CallbackJoins ==
  ASSUME TypeOK, NEW c \in Callbacks, ~Among(Order, c), turn' = turn, raf' = Append(raf, c)
  PROVE  /\ turn' \in Seq(Callbacks) /\ raf' \in Seq(Callbacks)
         /\ EachOnce(Order')
         /\ \A x : Among(Order', x) <=> Among(Order, x) \/ x = c
         /\ \A x, y : Before(Order, x, y) => Before(Order', x, y)
<1>1. /\ Order \in Seq(Callbacks) /\ EachOnce(Order)
      /\ turn \in Seq(Callbacks) /\ raf \in Seq(Callbacks)
  BY OrderTyped
<1>2. Order' = Append(Order, c)
  BY <1>1, PutLast DEF Order
<1>3. raf' \in Seq(Callbacks)
  BY <1>1, Appended
<1>. QED BY <1>1, <1>2, <1>3, RegisteredLast

\* `loop` does not find a picture that is ready.
LEMMA LoopFindsNoPicture ==
  ASSUME IInv, turn # <<>>, Head(turn) = Loop
  PROVE  ~ready /\ ending = "none"
<1>1. /\ Order \in Seq(Callbacks) /\ EachOnce(Order)
      /\ turn \in Seq(Callbacks) /\ raf \in Seq(Callbacks)
  BY OrderTyped DEF IInv
<1>2. Order # <<>> /\ Head(Order) = Loop
  BY <1>1, TakeFirst DEF Order
<1>3. Among(Order, Loop) /\ \A x : ~Before(Order, x, Loop)
  BY <1>1, <1>2, CalledFirst
<1>4. ending = "none"
  BY <1>3 DEF IInv, AwaitersRegistered, LoopUntilEnded, Among, Order
<1>. QED BY <1>3, <1>4 DEF IInv, ReadyInv

-----------------------------------------------------------------------------
(* The inductive invariant *)

LEMMA InitInvariant == Init => IInv
<1>. SUFFICES ASSUME Init PROVE IInv
  OBVIOUS
<1>. USE WebAppAssumption DEF Init
<1>1. /\ Order = <<Loop>> /\ Len(Order) = 1 /\ Order[1] = Loop
      /\ turn \in Seq(Callbacks) /\ raf \in Seq(Callbacks)
  BY DEF Order, Callbacks
<1>2. TypeOK
  <2>1. \A i, j \in 1 .. Len(Order) : Order[i] = Order[j] => i = j
    BY <1>1
  <2>. QED BY <1>1, <2>1 DEF TypeOK, Order, Callbacks
<1>3. AwaitersRegistered
  BY <1>1 DEF AwaitersRegistered, WaiterIsRegistered, LoopUntilEnded, Order
<1>4. PictureIsAwaited /\ ReadyInv /\ MappedInv /\ AloneInv
  BY DEF PictureIsAwaited, ReadyInv, MappedInv, AloneInv, Waiting
<1>. QED BY <1>2, <1>3, <1>4 DEF IInv

\* Registrations and calls fit together.
Fits == /\ \A c \in Callers : pc[c] = "waiting" <=> Among(Order, c)
        /\ ending = "none" <=> Among(Order, Loop)

LEMMA FitsIs == (AwaitersRegistered <=> Fits) /\ (AwaitersRegistered' <=> Fits')
BY DEF AwaitersRegistered, WaiterIsRegistered, LoopUntilEnded, Fits, Among, Order

\* The other variables have their types.
OthersTyped ==
  /\ boot \in {"adapter", "device", "ready"}
  /\ promise \in {"pending", "ok", "failed"}
  /\ ending \in {"none", "failed", "thrown"}
  /\ want \in BOOLEAN
  /\ map \in {"none", "pending", "ok", "failed"}
  /\ ready \in BOOLEAN
  /\ mapped \in BOOLEAN
  /\ content \subseteq Callers
  /\ shared \subseteq Callers
  /\ edge \in BOOLEAN
  /\ pc \in [Callers -> {"idle", "waiting"}]

LEMMA TypeIs ==
  LET Typed == turn \in Seq(Callbacks) /\ raf \in Seq(Callbacks) /\ EachOnce(Order) /\ OthersTyped
  IN  (TypeOK <=> Typed) /\ (TypeOK' <=> Typed')
BY DEF TypeOK, OthersTyped, EachOnce, Order, Callbacks

\* A step that leaves the order, the callers and the loop alone, and neither asks
\* for a capture nor finishes one.
LEMMA CalmKeeps ==
  ASSUME IInv, turn' \in Seq(Callbacks), raf' \in Seq(Callbacks), Order' = Order,
         OthersTyped', UNCHANGED <<ending, want, map, ready, mapped, content, shared, pc>>
  PROVE  IInv'
<1>1. TypeOK' /\ AwaitersRegistered'
  BY OrderTyped, TypeIs, FitsIs DEF IInv, Fits
<1>2. PictureIsAwaited' /\ ReadyInv' /\ MappedInv' /\ AloneInv'
  BY DEF IInv, PictureIsAwaited, ReadyInv, MappedInv, AloneInv, Waiting
<1>. QED BY <1>1, <1>2 DEF IInv

LEMMA SettleMapKeeps ==
  ASSUME IInv, SettleMap
  PROVE  IInv'
<1>. USE DEF SettleMap, Results, IInv
<1>1. /\ turn' \in Seq(Callbacks) /\ raf' \in Seq(Callbacks) /\ Order' = Order /\ EachOnce(Order)
  BY OrderTyped DEF Order
<1>2. OthersTyped
  BY TypeIs
<1>3. TypeOK' /\ AwaitersRegistered'
  BY <1>1, <1>2, TypeIs, FitsIs DEF OthersTyped, Fits
<1>4. ~ready
  BY DEF ReadyInv
<1>5. PictureIsAwaited' /\ ReadyInv' /\ MappedInv' /\ AloneInv'
  BY <1>2, <1>4 DEF OthersTyped, PictureIsAwaited, ReadyInv, MappedInv, AloneInv, Waiting
<1>. QED BY <1>3, <1>5

\* A frame that is followed by another one.
LEMMA AgainKeeps ==
  ASSUME IInv, Again, OthersTyped', shared' = shared, PictureIsAwaited', MappedInv',
         ready' => map' = "none" /\ (map = "ok" \/ ready),
         map' # "none" => map # "none" \/ content' = Waiting,
         content' \in {content, Waiting}
  PROVE  IInv'
<1>. USE DEF IInv, Again
<1>1. ~ready /\ ending = "none"
  BY LoopFindsNoPicture
<1>2. /\ turn' \in Seq(Callbacks) /\ raf' \in Seq(Callbacks)
      /\ EachOnce(Order')
      /\ \A x : Among(Order', x) <=> Among(Order, x)
      /\ \A x : Among(Order, x) /\ x # Loop => Before(Order', x, Loop)
  BY CallbackStays
<1>3. TypeOK' /\ AwaitersRegistered'
  BY <1>2, TypeIs, FitsIs DEF Fits
<1>4. ReadyInv'
  <2>. SUFFICES ASSUME ready' PROVE map' = "none" /\ \E c \in Waiting' : Before(Order', c, Loop)
    BY DEF ReadyInv
  <2>1. map = "ok"
    BY <1>1
  <2>2. PICK c \in Waiting : TRUE
    BY <2>1 DEF PictureIsAwaited
  <2>3. c # Loop /\ Among(Order, c) /\ c \in Waiting'
    BY WebAppAssumption, FitsIs DEF Fits, Waiting
  <2>. QED BY <1>2, <2>3
<1>5. AloneInv'
  <2>1. Waiting' = Waiting
    BY DEF Waiting
  <2>. QED BY <2>1, <1>1 DEF AloneInv
<1>. QED BY <1>3, <1>4, <1>5

LEMMA FrameKeeps ==
  ASSUME IInv, Frame
  PROVE  IInv'
<1>. USE DEF IInv
<1>0. OthersTyped
  BY TypeIs
<1>1. CASE FrameSettingUp
  <2>1. OthersTyped' /\ UNCHANGED capture
    BY <1>0, <1>1 DEF FrameSettingUp, Again, OthersTyped, capture
  <2>2. ~ready
    BY <1>1, LoopFindsNoPicture DEF FrameSettingUp, Again
  <2>3. PictureIsAwaited' /\ MappedInv'
    BY <1>1, <2>1 DEF FrameSettingUp, Again, PictureIsAwaited, MappedInv, Waiting, capture
  <2>. QED BY <1>1, <2>1, <2>2, <2>3, AgainKeeps DEF FrameSettingUp, capture
<1>2. CASE FrameCaptured
  <2>1. OthersTyped'
    BY <1>0, <1>2 DEF FrameCaptured, Again, StartCapture, Finish, OthersTyped, Waiting
  <2>2. ~ready
    BY <1>2, LoopFindsNoPicture DEF FrameCaptured, Again
  <2>3. PictureIsAwaited' /\ MappedInv'
    BY <1>2, <2>2 DEF FrameCaptured, Again, StartCapture, Finish, PictureIsAwaited, MappedInv, Waiting
  <2>. QED BY <1>2, <2>1, <2>2, <2>3, AgainKeeps DEF FrameCaptured, StartCapture
<1>3. CASE FrameDrawn
  <2>1. OthersTyped'
    BY <1>0, <1>3 DEF FrameDrawn, Again, TakePicture, Finish, OthersTyped
  <2>2. ~ready
    BY <1>3, LoopFindsNoPicture DEF FrameDrawn, Again
  <2>3. PictureIsAwaited' /\ MappedInv'
    BY <1>3, <2>2 DEF FrameDrawn, Again, TakePicture, Finish, PictureIsAwaited, MappedInv, Waiting
  <2>. QED BY <1>3, <2>1, <2>2, <2>3, AgainKeeps DEF FrameDrawn, TakePicture
<1>4. CASE FrameFails \/ FrameThrows
  <2>1. /\ turn # <<>> /\ Head(turn) = Loop /\ turn' = Tail(turn) /\ raf' = raf
        /\ map' = map \/ (map = "failed" /\ map' = "none")
        /\ ending' \in {"failed", "thrown"}
        /\ UNCHANGED <<want, ready, mapped, content, shared, edge, pc, boot, promise>>
    BY <1>4 DEF FrameFails, FrameThrows, capture
  <2>2. OthersTyped'
    BY <1>0, <2>1 DEF OthersTyped
  <2>3. /\ turn' \in Seq(Callbacks) /\ raf' \in Seq(Callbacks) /\ EachOnce(Order')
        /\ \A x : Among(Order', x) <=> Among(Order, x) /\ x # Loop
    BY <2>1, CallbackLeaves
  <2>4. TypeOK' /\ AwaitersRegistered'
    BY <2>1, <2>2, <2>3, WebAppAssumption, TypeIs, FitsIs DEF Fits
  <2>5. PictureIsAwaited' /\ ReadyInv' /\ MappedInv' /\ AloneInv'
    BY <2>1 DEF PictureIsAwaited, ReadyInv, MappedInv, AloneInv, Waiting
  <2>. QED BY <2>4, <2>5
<1>. QED BY <1>1, <1>2, <1>3, <1>4 DEF Frame

LEMMA CallKeeps ==
  ASSUME IInv, NEW c \in Callers, CallCapture(c)
  PROVE  IInv'
<1>. USE DEF IInv, CallCapture
<1>0. OthersTyped
  BY TypeIs
<1>1. c \in Callbacks /\ ~Among(Order, c)
  BY FitsIs DEF Fits, Callbacks
<1>2. /\ turn' \in Seq(Callbacks) /\ raf' \in Seq(Callbacks) /\ EachOnce(Order')
      /\ \A x : Among(Order', x) <=> Among(Order, x) \/ x = c
      /\ \A x, y : Before(Order, x, y) => Before(Order', x, y)
  BY <1>1, CallbackJoins
<1>3. pc \in [Callers -> {"idle", "waiting"}] /\ Waiting' = Waiting \cup {c} /\ c \notin Waiting
  BY <1>0 DEF OthersTyped, Waiting
<1>4. OthersTyped'
  BY <1>0 DEF OthersTyped, Waiting
<1>5. TypeOK' /\ AwaitersRegistered'
  BY <1>0, <1>2, <1>4, WebAppAssumption, TypeIs, FitsIs DEF Fits, OthersTyped
<1>6. PictureIsAwaited'
  BY <1>3 DEF PictureIsAwaited
<1>7. ReadyInv' /\ MappedInv'
  BY <1>2, <1>3 DEF ReadyInv, MappedInv
<1>8. AloneInv'
  <2>1. CASE Waiting = {}
    BY <2>1, <1>3 DEF AloneInv, PictureIsAwaited
  <2>2. CASE Waiting # {}
    BY <2>2, <1>3 DEF AloneInv
  <2>. QED BY <2>1, <2>2
<1>. QED BY <1>5, <1>6, <1>7, <1>8

LEMMA PictureTakenKeeps ==
  ASSUME IInv, NEW c \in Callers, PictureTaken(c)
  PROVE  IInv'
<1>. USE DEF IInv, PictureTaken, Resumes
<1>0. OthersTyped
  BY TypeIs
<1>1. /\ turn' \in Seq(Callbacks) /\ raf' \in Seq(Callbacks) /\ EachOnce(Order')
      /\ Among(Order, c)
      /\ \A x : Among(Order', x) <=> Among(Order, x) /\ x # c
  BY CallbackLeaves
<1>2. pc[c] = "waiting" /\ Waiting' = Waiting \ {c} /\ c \in Waiting
  BY <1>0, <1>1, FitsIs DEF Fits, OthersTyped, Waiting
<1>3. OthersTyped'
  BY <1>0 DEF OthersTyped
<1>4. TypeOK' /\ AwaitersRegistered'
  BY <1>0, <1>1, <1>3, WebAppAssumption, TypeIs, FitsIs DEF Fits, OthersTyped
<1>5. map = "none"
  BY DEF ReadyInv
<1>6. PictureIsAwaited' /\ ReadyInv' /\ MappedInv'
  BY <1>2, <1>5 DEF PictureIsAwaited, ReadyInv, MappedInv
<1>7. AloneInv'
  BY <1>2, <1>5 DEF AloneInv
<1>. QED BY <1>4, <1>6, <1>7

LEMMA NoPictureKeeps ==
  ASSUME IInv, NEW c \in Callers, NoPictureYet(c)
  PROVE  IInv'
<1>. USE DEF IInv, NoPictureYet, Resumes
<1>0. OthersTyped
  BY TypeIs
<1>1. /\ turn' \in Seq(Callbacks) /\ raf' \in Seq(Callbacks) /\ EachOnce(Order')
      /\ \A x : Among(Order', x) <=> Among(Order, x)
  BY CallbackStays
<1>2. OthersTyped'
  BY <1>0 DEF OthersTyped
<1>3. TypeOK' /\ AwaitersRegistered'
  BY <1>1, <1>2, TypeIs, FitsIs DEF Fits
<1>4. PictureIsAwaited' /\ ReadyInv' /\ MappedInv' /\ AloneInv'
  BY DEF PictureIsAwaited, ReadyInv, MappedInv, AloneInv, Waiting
<1>. QED BY <1>3, <1>4

LEMMA NextInvariant == IInv /\ [Next]_vars => IInv'
<1>. SUFFICES ASSUME IInv, [Next]_vars PROVE IInv'
  OBVIOUS
<1>0. /\ turn \in Seq(Callbacks) /\ raf \in Seq(Callbacks) /\ OthersTyped
  BY OrderTyped, TypeIs DEF IInv
<1>1. CASE SettleBoot
  BY <1>1, <1>0, CalmKeeps DEF SettleBoot, Results, OthersTyped, Order, capture
<1>2. CASE SettleMap
  BY <1>2, SettleMapKeeps
<1>3. CASE DomKey
  BY <1>3, <1>0, CalmKeeps DEF DomKey, OthersTyped, Order, capture
<1>4. CASE BeginFrame
  <2>1. turn' \in Seq(Callbacks) /\ raf' \in Seq(Callbacks) /\ Order' = Order
    BY <1>4, FrameBegins DEF IInv
  <2>2. OthersTyped' /\ UNCHANGED <<ending, want, map, ready, mapped, content, shared, pc>>
    BY <1>4, <1>0 DEF BeginFrame, OthersTyped, capture
  <2>. QED BY <2>1, <2>2, CalmKeeps
<1>5. CASE Frame
  BY <1>5, FrameKeeps
<1>6. CASE \E c \in Callers : CallCapture(c) \/ PictureTaken(c) \/ NoPictureYet(c)
  BY <1>6, CallKeeps, PictureTakenKeeps, NoPictureKeeps
<1>7. CASE UNCHANGED vars
  BY <1>7, <1>0, CalmKeeps DEF vars, OthersTyped, Order, capture
<1>. QED BY <1>1, <1>2, <1>3, <1>4, <1>5, <1>6, <1>7 DEF Next

LEMMA Invariant == Spec => []IInv
<1>. QED BY InitInvariant, NextInvariant, PTL DEF Spec

-----------------------------------------------------------------------------
(* Results *)

\* Every variable has its type and no callback is ever registered twice, for any
\* number of concurrent captures.
THEOREM TypeCorrect == Spec => []TypeOK
<1>1. IInv => TypeOK
  BY DEF IInv
<1>. QED BY <1>1, Invariant, PTL

\* Who waits for an animation frame is registered for one: no caller of
\* captureFrame is forgotten, and the loop runs until it ends and not after.
THEOREM AwaitersStay == Spec => []AwaitersRegistered
<1>1. IInv => AwaitersRegistered
  BY DEF IInv
<1>. QED BY <1>1, Invariant, PTL

\* A capture is asked for, under way or ready only while somebody waits for it, so
\* the readback buffer is never left mapped with nobody to release it.
THEOREM PicturesAwaited == Spec => []PictureIsAwaited
<1>1. IInv => PictureIsAwaited
  BY DEF IInv
<1>. QED BY <1>1, Invariant, PTL

\* No frame starts a capture into a buffer that is still mapped, although frame()
\* does not look: the order of the animation-frame callbacks is what ensures it.
THEOREM CapturesUnmapped == Spec => NeverCapturesMapped
<1>1. ASSUME IInv, [Next]_vars PROVE [map = "none" /\ map' = "pending" => ~mapped]_vars
  <2>. SUFFICES ASSUME map = "none", map' = "pending" PROVE ~mapped
    OBVIOUS
  <2>1. FrameCaptured
    BY <1>1 DEF Next, vars, capture, SettleBoot, SettleMap, DomKey, BeginFrame, Frame,
       FrameSettingUp, FrameDrawn, TakePicture, FrameFails, FrameThrows, CallCapture,
       PictureTaken, NoPictureYet, Resumes
  <2>2. ~ready
    BY <1>1, <2>1, LoopFindsNoPicture DEF FrameCaptured, Again
  <2>. QED BY <1>1, <2>2 DEF IInv, MappedInv
<1>. QED BY <1>1, Invariant, PTL DEF Spec, NeverCapturesMapped

\* A call of captureFrame that no other overlapped returns pixels of a frame drawn
\* after it was made, whenever it returns.
THEOREM PicturesFresh == Spec => FreshPicture
<1>. DEFINE Fresh == \A c \in Callers \ shared :
                       pc[c] = "waiting" /\ pc'[c] = "idle" => c \in content
<1>1. ASSUME IInv, [Next]_vars PROVE [Fresh]_vars
  <2>. SUFFICES ASSUME NEW c \in Callers \ shared, pc[c] = "waiting", pc'[c] = "idle"
                PROVE  c \in content
    OBVIOUS
  <2>0. pc \in [Callers -> {"idle", "waiting"}]
    BY <1>1 DEF IInv, TypeOK
  <2>1. PictureTaken(c)
    <3>1. PICK d \in Callers : PictureTaken(d)
      BY <1>1, <2>0 DEF Next, vars, capture, SettleBoot, SettleMap, DomKey, BeginFrame, Frame,
         FrameSettingUp, FrameCaptured, FrameDrawn, Again, FrameFails, FrameThrows, CallCapture,
         NoPictureYet, Resumes
    <3>. QED BY <3>1, <2>0 DEF PictureTaken
  <2>2. c \in Waiting /\ ready
    BY <2>1 DEF PictureTaken, Waiting
  <2>. QED BY <1>1, <2>2 DEF IInv, AloneInv
<1>. QED BY <1>1, Invariant, PTL DEF Spec, FreshPicture
=============================================================================
