--------------------------- MODULE LifetimesProofs ---------------------------
(***************************************************************************)
(* Proofs about Lifetimes for every set of objects, any number of clones    *)
(* and any number of submissions in flight.                                 *)
(***************************************************************************)
EXTENDS Lifetimes, TLAPS

Counted == [kind : Kinds \cup {"none"}, refs : 0 .. MaxRefs,
            uses : SUBSET Objs, into : SUBSET Objs]

\* How many wrappers an object has, by the places they are in.
Wrappers(w) == w["program"] + w["session"] + w["frame"] + w["call"]

\* One object and its wrappers agree: each reference has its wrapper, only what can
\* be cloned has several, only views are fields of a FrameRenderPass, and the pass
\* itself stays with the program.
Agree(x, w) ==
  /\ x \in Counted
  /\ w \in [Places -> Nat]
  /\ x.refs = Wrappers(w)
  /\ x.refs = 0 <=> x = Nothing
  /\ x.refs > 1 => x.kind \in Clonable
  /\ x.into # {} => x.kind \in Passes
  /\ w["frame"] > 0 => x.kind = "view"
  /\ x.kind = "fpass" => w["session"] = 0 /\ w["call"] = 0

\* All objects and wrappers agree.
Balanced(n, h) ==
  /\ n = [o \in Objs |-> n[o]]
  /\ h = [o \in Objs |-> h[o]]
  /\ \A o \in Objs : Agree(n[o], h[o])

-----------------------------------------------------------------------------
(* The helpers of the model keep references and wrappers in agreement *)

LEMMA PlacesOf ==
  ASSUME NEW w \in [Places -> Nat]
  PROVE  /\ w["program"] \in Nat /\ w["session"] \in Nat /\ w["frame"] \in Nat /\ w["call"] \in Nat
         /\ Wrappers(w) \in Nat
         /\ \A p \in Places : w[p] <= Wrappers(w)
         /\ Wrappers(w) = 0 => \A p \in Places : w[p] = 0
<1>1. w["program"] \in Nat /\ w["session"] \in Nat /\ w["frame"] \in Nat /\ w["call"] \in Nat
  BY DEF Places
<1>2. Wrappers(w) \in Nat
  BY <1>1 DEF Wrappers
<1>3. ASSUME NEW p \in Places
      PROVE  w[p] <= Wrappers(w) /\ (Wrappers(w) = 0 => w[p] = 0)
  <2>1. w[p] \in {w["program"], w["session"], w["frame"], w["call"]}
    BY DEF Places
  <2>. QED BY <1>1, <2>1 DEF Wrappers
<1>. QED BY <1>1, <1>2, <1>3

LEMMA OneMore ==
  ASSUME NEW w \in [Places -> Nat], NEW p \in Places
  PROVE  LET v == [w EXCEPT ![p] = @ + 1]
         IN  /\ v \in [Places -> Nat]
             /\ Wrappers(v) = Wrappers(w) + 1
             /\ \A q \in Places : v[q] = IF q = p THEN w[q] + 1 ELSE w[q]
<1>. DEFINE v == [w EXCEPT ![p] = @ + 1]
<1>1. v \in [Places -> Nat]
  OBVIOUS
<1>2. \A q \in Places : v[q] = IF q = p THEN w[p] + 1 ELSE w[q]
  OBVIOUS
<1>. HIDE DEF v
<1>3. Wrappers(v) = Wrappers(w) + 1
  BY <1>2, PlacesOf DEF Wrappers, Places
<1>. QED BY <1>1, <1>2, <1>3 DEF v

LEMMA OneFewer ==
  ASSUME NEW w \in [Places -> Nat], NEW p \in Places, w[p] > 0
  PROVE  LET v == [w EXCEPT ![p] = @ - 1]
         IN  /\ v \in [Places -> Nat]
             /\ Wrappers(v) = Wrappers(w) - 1
             /\ \A q \in Places : v[q] = IF q = p THEN w[q] - 1 ELSE w[q]
<1>. DEFINE v == [w EXCEPT ![p] = @ - 1]
<1>1. v \in [Places -> Nat]
  OBVIOUS
<1>2. \A q \in Places : v[q] = IF q = p THEN w[p] - 1 ELSE w[q]
  OBVIOUS
<1>. HIDE DEF v
<1>3. Wrappers(v) = Wrappers(w) - 1
  BY <1>2, PlacesOf DEF Wrappers, Places
<1>. QED BY <1>1, <1>2, <1>3 DEF v

LEMMA CreatedAgrees ==
  ASSUME NEW n, NEW h, Balanced(n, h), NEW o \in Objs, n[o].refs = 0,
         NEW k \in Kinds, NEW uses \in SUBSET Objs, NEW into \in SUBSET Objs,
         into # {} => k \in Passes,
         NEW p \in Places, p = "frame" => k = "view", k = "fpass" => p = "program"
  PROVE  Balanced([n EXCEPT ![o] = Object(k, uses, into)], Put(h, {o}, p))
<1>. DEFINE x == Object(k, uses, into)
            w == [h[o] EXCEPT ![p] = @ + 1]
<1>1. h[o] \in [Places -> Nat] /\ Wrappers(h[o]) = 0
  BY DEF Balanced, Agree
<1>2. w \in [Places -> Nat] /\ Wrappers(w) = 1
  BY <1>1, OneMore
<1>3. /\ w["frame"] > 0 => k = "view"
      /\ k = "fpass" => w["session"] = 0 /\ w["call"] = 0
  <2>1. \A q \in Places : w[q] = IF q = p THEN 1 ELSE 0
    BY <1>1, OneMore, PlacesOf
  <2>. HIDE DEF w
  <2>. QED BY <2>1 DEF Places
<1>4. x \in Counted
  BY LifetimesAssumption DEF Object, Counted
<1>5. x.refs = 1 /\ x.kind = k /\ x.into = into /\ x # Nothing
  BY DEF Object, Nothing
<1>. HIDE DEF x, w
<1>6. Agree(x, w)
  BY <1>2, <1>3, <1>4, <1>5 DEF Agree
<1>. QED BY <1>6 DEF Balanced, Put, x, w

LEMMA OneLess ==
  ASSUME NEW x \in Counted, x.refs > 1
  PROVE  LET y == [x EXCEPT !.refs = @ - 1]
         IN  y \in Counted /\ y.refs = x.refs - 1 /\ y.kind = x.kind /\ y.into = x.into
BY LifetimesAssumption DEF Counted

LEMMA ReleasedAgrees ==
  ASSUME NEW n, NEW h, Balanced(n, h), NEW p \in Places,
         NEW S \in SUBSET Objs, \A o \in S : h[o][p] > 0
  PROVE  Balanced(Release(n, S), Take(h, S, p))
<1>1. ASSUME NEW o \in S
      PROVE  Agree(Release(n, S)[o], [h[o] EXCEPT ![p] = @ - 1])
  <2>. DEFINE w == [h[o] EXCEPT ![p] = @ - 1]
              y == [n[o] EXCEPT !.refs = @ - 1]
  <2>1. h[o] \in [Places -> Nat] /\ h[o][p] > 0 /\ Agree(n[o], h[o])
    BY DEF Balanced, Agree
  <2>2. /\ w \in [Places -> Nat] /\ Wrappers(w) = n[o].refs - 1
        /\ w["frame"] > 0 => n[o].kind = "view"
        /\ n[o].kind = "fpass" => w["session"] = 0 /\ w["call"] = 0
    <3>1. /\ w \in [Places -> Nat] /\ Wrappers(w) = n[o].refs - 1
          /\ \A q \in Places : w[q] = IF q = p THEN h[o][q] - 1 ELSE h[o][q]
      BY <2>1, OneFewer DEF Agree
    <3>2. \A q \in Places : w[q] \in Nat /\ h[o][q] \in Nat /\ w[q] <= h[o][q]
      BY <2>1, <3>1
    <3>. HIDE DEF w
    <3>. QED BY <2>1, <3>1, <3>2 DEF Agree, Places
  <2>3. n[o].refs \in Nat /\ n[o].refs > 0 /\ n[o] \in Counted
    BY <2>1, PlacesOf DEF Agree
  <2>. HIDE DEF w
  <2>4. CASE n[o].refs = 1
    <3>1. Release(n, S)[o] = Nothing
      BY <2>4 DEF Release
    <3>2. Wrappers(w) = 0 /\ w["frame"] = 0
      BY <2>2, <2>4, PlacesOf DEF Places
    <3>3. /\ Nothing \in Counted /\ Nothing.refs = 0 /\ Nothing.into = {}
          /\ Nothing.kind # "fpass"
      BY LifetimesAssumption DEF Nothing, Counted
    <3>4. Agree(Nothing, w)
      BY <2>2, <3>2, <3>3 DEF Agree
    <3>. QED BY <3>1, <3>4 DEF w
  <2>5. CASE n[o].refs # 1
    <3>1. Release(n, S)[o] = y
      BY <2>5 DEF Release
    <3>2. y \in Counted /\ y.refs = n[o].refs - 1 /\ y.kind = n[o].kind /\ y.into = n[o].into
      BY <2>3, <2>5, OneLess
    <3>3. n[o].kind \in Clonable /\ (n[o].into # {} => n[o].kind \in Passes)
      BY <2>1, <2>3, <2>5 DEF Agree
    <3>4. y # Nothing
      BY <2>3, <2>5, <3>2 DEF Nothing
    <3>. HIDE DEF y
    <3>5. Agree(y, w)
      BY <2>2, <2>3, <2>5, <3>2, <3>3, <3>4 DEF Agree
    <3>. QED BY <3>1, <3>5 DEF w
  <2>. QED BY <2>4, <2>5
<1>2. \A o \in Objs \ S : Release(n, S)[o] = n[o] /\ Take(h, S, p)[o] = h[o]
  BY DEF Release, Take
<1>3. \A o \in S : Take(h, S, p)[o] = [h[o] EXCEPT ![p] = @ - 1]
  BY DEF Take
<1>4. Release(n, S) = [o \in Objs |-> Release(n, S)[o]] /\ Take(h, S, p) = [o \in Objs |-> Take(h, S, p)[o]]
  BY DEF Release, Take
<1>. QED BY <1>1, <1>2, <1>3, <1>4 DEF Balanced

LEMMA MovedAgrees ==
  ASSUME NEW n, NEW h, Balanced(n, h), NEW p \in Places, NEW q \in Places, p # q,
         NEW o \in Objs, h[o][p] > 0, q = "frame" => n[o].kind = "view",
         n[o].kind # "fpass"
  PROVE  Balanced(n, Move(h, {o}, p, q))
<1>. DEFINE w == [[h[o] EXCEPT ![p] = @ - 1] EXCEPT ![q] = @ + 1]
<1>1. h[o] \in [Places -> Nat] /\ Agree(n[o], h[o])
  BY DEF Balanced, Agree
<1>2. w \in [Places -> Nat]
  BY <1>1
<1>3. Wrappers(w) = Wrappers(h[o])
  BY <1>1 DEF Wrappers, Places
<1>4. w["frame"] > 0 => n[o].kind = "view"
  BY <1>1 DEF Agree, Places
<1>5. Agree(n[o], w)
  BY <1>1, <1>2, <1>3, <1>4 DEF Agree
<1>. QED BY <1>5 DEF Balanced, Move, Put, Take

LEMMA ClonedAgrees ==
  ASSUME NEW n, NEW h, Balanced(n, h), NEW o \in Objs,
         n[o].kind \in Clonable, n[o].refs < MaxRefs
  PROVE  Balanced(AddRef(n, o), Put(h, {o}, "program"))
<1>1. h[o] \in [Places -> Nat] /\ Agree(n[o], h[o]) /\ n[o] \in Counted
  BY DEF Balanced, Agree
<1>. DEFINE w == [h[o] EXCEPT !["program"] = @ + 1]
            x == [n[o] EXCEPT !.refs = @ + 1]
<1>2. w \in [Places -> Nat] /\ Wrappers(w) = Wrappers(h[o]) + 1 /\ w["frame"] = h[o]["frame"]
  BY <1>1 DEF Wrappers, Places
<1>3. x \in Counted /\ x.refs = n[o].refs + 1 /\ x.refs > 0 /\ x.kind = n[o].kind /\ x.into = n[o].into
  BY <1>1, LifetimesAssumption DEF Counted
<1>4. x.kind # "fpass"
  BY <1>3 DEF Clonable, Pinnable
<1>5. Agree(x, w)
  BY <1>1, <1>2, <1>3, <1>4 DEF Agree, Nothing
<1>. QED BY <1>5 DEF Balanced, AddRef, Put

LEMMA RecordedAgrees ==
  ASSUME NEW n, NEW h, Balanced(n, h), NEW o \in Objs, n[o].refs > 0,
         NEW uses \in SUBSET Objs
  PROVE  Balanced([n EXCEPT ![o].uses = uses], h)
<1>1. Agree(n[o], h[o]) /\ n[o] \in Counted
  BY DEF Balanced, Agree
<1>2. Agree([n[o] EXCEPT !.uses = uses], h[o])
  BY <1>1 DEF Agree, Nothing, Counted
<1>. QED BY <1>2 DEF Balanced

-----------------------------------------------------------------------------
(* The invariant *)

\* The view of the open FrameRenderPass, and nothing else, is a field of it.
FrameInv ==
  /\ \A p, q \in Objs : native[p].kind = "fpass" /\ native[q].kind = "fpass" => p = q
  /\ NoFrame => At("frame") = {}
  /\ \A o \in Objs : held[o]["frame"] <= 1
  /\ FrameViewKept

\* What a function of the facade may count on between its calls.  The caller's
\* buffers stay in its variables only if it pins them.
CallInv ==
  /\ call.api = "none" => call = NoCall
  /\ call.pc = "none" => call.api = "none"
  /\ call.pc \in {"bind", "submit"} => CanSubmit
  /\ call.pc = "bind" => call.api = "GPU.dispatch"
  /\ call.pc = "poll" => call.passes = {} /\ InFacade("poll")
  /\ call.api = "Session.submit" => \A c \in call.passes : native[c].kind \in {"cmd", "none"}
  /\ InFacade("submit") => call.passes \subseteq At("call") /\ call.passes \cap call.uses = {}
  /\ CallerPins /\ call.pc = "bind" => call.passes \subseteq At("program")
  /\ CallerPins /\ call.api \in {"GPU.dispatch", "GPU.read"} =>
       call.uses \subseteq At("program") \cup At("call")

OthersTyped ==
  /\ flight \in Seq(SUBSET Objs) /\ Len(flight) <= MaxFlight
  /\ session \in BOOLEAN
  /\ call \in [api : {"none", "Session.submit", "GPU.dispatch", "GPU.read"},
               pc : {"none", "bind", "submit", "poll"},
               passes : SUBSET Objs, uses : SUBSET Objs]

IInv == Balanced(native, held) /\ OthersTyped /\ FrameInv /\ CallInv

\* A change that leaves the open FrameRenderPass and its view alone.
Calm(n, h, m, g) ==
  \A o \in Objs :
    /\ m[o].kind = "fpass" <=> n[o].kind = "fpass"
    /\ n[o].kind = "fpass" => n[o].uses \subseteq m[o].uses
    /\ g[o]["frame"] = h[o]["frame"]

LEMMA InvariantIsTyped == IInv => TypeOK
<1>. SUFFICES ASSUME IInv PROVE TypeOK
  OBVIOUS
<1>1. \A o \in Objs : Agree(native[o], held[o])
  BY DEF IInv, Balanced
<1>2. native \in [Objs -> [kind : Kinds \cup {"none"}, refs : 0 .. MaxRefs,
                           uses : SUBSET Objs, into : SUBSET Objs]]
  BY <1>1 DEF IInv, Balanced, Agree, Counted
<1>3. \A o \in Objs : held[o] \in [Places -> 0 .. MaxRefs]
  <2>. SUFFICES ASSUME NEW o \in Objs PROVE held[o] \in [Places -> 0 .. MaxRefs]
    OBVIOUS
  <2>1. held[o] \in [Places -> Nat] /\ Wrappers(held[o]) <= MaxRefs
    BY <1>1, LifetimesAssumption DEF Agree, Counted
  <2>2. \A p \in Places : held[o][p] \in Nat /\ held[o][p] <= MaxRefs
    BY <2>1, PlacesOf, LifetimesAssumption
  <2>. QED BY <2>1, <2>2, LifetimesAssumption
<1>4. held \in [Objs -> [Places -> 0 .. MaxRefs]]
  BY <1>3 DEF IInv, Balanced
<1>5. \A o \in Objs : /\ native[o].refs = 0 <=> native[o] = Nothing
                      /\ native[o].into # {} => native[o].kind \in Passes
  BY <1>1 DEF Agree
<1>. QED BY <1>2, <1>4, <1>5 DEF IInv, OthersTyped, TypeOK

LEMMA InvariantBalances == IInv => RefsMatchOwners
BY DEF IInv, Balanced, Agree, Wrappers, RefsMatchOwners

LEMMA InvariantOwns == IInv => (CallerPins => HandlesOwned /\ KeptUntilDone)
<1>. SUFFICES ASSUME IInv, CallerPins PROVE HandlesOwned /\ KeptUntilDone
  OBVIOUS
<1>1. \A o \in At("program") \cup At("call") : o \in Objs /\ native[o].refs > 0
  <2>. SUFFICES ASSUME NEW o \in Objs, NEW p \in Places, held[o][p] > 0
                PROVE  native[o].refs > 0
    BY DEF At, Places
  <2>. QED BY PlacesOf DEF IInv, Balanced, Agree
<1>2. HandlesOwned
  <2>. SUFFICES ASSUME call.api # "Session.submit", call.passes # {}
                PROVE  call.passes \subseteq At("program") \cup At("call")
    BY <1>1 DEF HandlesOwned
  <2>1. call.api \in {"GPU.dispatch", "GPU.read"}
    BY DEF IInv, OthersTyped, CallInv, NoCall
  <2>2. call.pc \in {"none", "bind", "submit"}
    BY DEF IInv, OthersTyped, CallInv
  <2>3. call.pc # "none"
    BY <2>1 DEF IInv, CallInv
  <2>. QED BY <2>1, <2>2, <2>3 DEF IInv, CallInv, InFacade
<1>3. KeptUntilDone
  BY <1>1 DEF KeptUntilDone, IInv, CallInv, InFacade
<1>. QED BY <1>2, <1>3

-----------------------------------------------------------------------------
(* Calm changes *)

LEMMA CalmTwice ==
  ASSUME NEW n1, NEW h1, NEW n2, NEW h2, NEW n3, NEW h3,
         Balanced(n1, h1), Balanced(n2, h2), Balanced(n3, h3),
         Calm(n1, h1, n2, h2), Calm(n2, h2, n3, h3)
  PROVE  Calm(n1, h1, n3, h3)
BY DEF Calm

LEMMA CreatedCalm ==
  ASSUME NEW n, NEW h, Balanced(n, h), NEW o \in Objs, n[o].refs = 0,
         NEW k \in Kinds \ {"fpass"}, NEW uses \in SUBSET Objs, NEW into \in SUBSET Objs,
         NEW p \in {"program", "call"}
  PROVE  Calm(n, h, [n EXCEPT ![o] = Object(k, uses, into)], Put(h, {o}, p))
<1>1. n[o].kind # "fpass"
  BY DEF Balanced, Agree, Nothing
<1>2. \A q \in Objs : h[q] \in [Places -> Nat]
  BY DEF Balanced, Agree
<1>3. \A q \in Objs : Put(h, {o}, p)[q]["frame"] = h[q]["frame"]
  BY <1>2 DEF Put, Places
<1>4. \A q \in Objs : /\ q = o => [n EXCEPT ![o] = Object(k, uses, into)][q].kind = k
                      /\ q # o => [n EXCEPT ![o] = Object(k, uses, into)][q] = n[q]
  BY DEF Balanced, Object
<1>. DEFINE m == [n EXCEPT ![o] = Object(k, uses, into)]
            g == Put(h, {o}, p)
<1>. HIDE DEF m, g
<1>5. \A q \in Objs : m[q].kind = "fpass" <=> n[q].kind = "fpass"
  BY <1>1, <1>4 DEF m
<1>6. \A q \in Objs : n[q].kind = "fpass" => m[q].uses = n[q].uses
  BY <1>1, <1>4 DEF m
<1>7. \A q \in Objs : g[q]["frame"] = h[q]["frame"]
  BY <1>3 DEF g
<1>8. Calm(n, h, m, g)
  BY <1>5, <1>6, <1>7 DEF Calm
<1>. QED BY <1>8 DEF m, g

LEMMA ReleasedCalm ==
  ASSUME NEW n, NEW h, Balanced(n, h), NEW p \in {"program", "call"},
         NEW S \in SUBSET Objs, \A o \in S : h[o][p] > 0 /\ n[o].kind # "fpass"
  PROVE  Calm(n, h, Release(n, S), Take(h, S, p))
<1>2. \A q \in Objs : h[q] \in [Places -> Nat]
  BY DEF Balanced, Agree
<1>3. \A q \in Objs : Take(h, S, p)[q]["frame"] = h[q]["frame"]
  BY <1>2 DEF Take, Places
<1>4. \A q \in Objs : /\ q \in S => Release(n, S)[q].kind \in {"none", n[q].kind}
                      /\ q \notin S => Release(n, S)[q] = n[q]
  <2>. SUFFICES ASSUME NEW q \in Objs
                PROVE  /\ q \in S => Release(n, S)[q].kind \in {"none", n[q].kind}
                       /\ q \notin S => Release(n, S)[q] = n[q]
    OBVIOUS
  <2>1. n[q] \in Counted
    BY DEF Balanced, Agree
  <2>2. [n[q] EXCEPT !.refs = @ - 1].kind = n[q].kind
    BY <2>1 DEF Counted
  <2>3. Nothing.kind = "none"
    BY DEF Nothing
  <2>. QED BY <2>2, <2>3 DEF Release
<1>. QED BY <1>3, <1>4 DEF Calm

LEMMA MovedCalm ==
  ASSUME NEW n, NEW h, Balanced(n, h), NEW q \in {"session", "call"}, NEW o \in Objs
  PROVE  Calm(n, h, n, Move(h, {o}, "program", q))
<1>2. \A r \in Objs : h[r] \in [Places -> Nat]
  BY DEF Balanced, Agree
<1>3. \A r \in Objs : Move(h, {o}, "program", q)[r]["frame"] = h[r]["frame"]
  BY <1>2 DEF Move, Put, Take, Places
<1>. QED BY <1>3 DEF Calm

LEMMA RecordedCalm ==
  ASSUME NEW n, NEW h, Balanced(n, h), NEW o \in Objs,
         NEW uses \in SUBSET Objs, n[o].kind = "fpass" => n[o].uses \subseteq uses
  PROVE  Calm(n, h, [n EXCEPT ![o].uses = uses], h)
<1>1. n[o] \in Counted
  BY DEF Balanced, Agree
<1>2. [n[o] EXCEPT !.uses = uses].kind = n[o].kind /\ [n[o] EXCEPT !.uses = uses].uses = uses
  BY <1>1 DEF Counted
<1>3. \A r \in Objs : [n EXCEPT ![o].uses = uses][r] =
                        IF r = o THEN [n[o] EXCEPT !.uses = uses] ELSE n[r]
  BY DEF Balanced
<1>. QED BY <1>1, <1>2, <1>3 DEF Calm

LEMMA ClonedCalm ==
  ASSUME NEW n, NEW h, Balanced(n, h), NEW o \in Objs
  PROVE  Calm(n, h, AddRef(n, o), Put(h, {o}, "program"))
<1>1. n[o] \in Counted /\ \A q \in Objs : h[q] \in [Places -> Nat]
  BY DEF Balanced, Agree
<1>2. [n[o] EXCEPT !.refs = @ + 1].kind = n[o].kind /\ [n[o] EXCEPT !.refs = @ + 1].uses = n[o].uses
  BY <1>1 DEF Counted
<1>3. \A r \in Objs : AddRef(n, o)[r] = IF r = o THEN [n[o] EXCEPT !.refs = @ + 1] ELSE n[r]
  BY DEF Balanced, AddRef
<1>. DEFINE m == AddRef(n, o)
            g == Put(h, {o}, "program")
<1>4. \A q \in Objs : g[q]["frame"] = h[q]["frame"]
  BY <1>1 DEF Put, Places
<1>. HIDE DEF m, g
<1>5. \A q \in Objs : m[q].kind = n[q].kind /\ m[q].uses = n[q].uses
  BY <1>2, <1>3 DEF m
<1>6. Calm(n, h, m, g)
  BY <1>4, <1>5 DEF Calm
<1>. QED BY <1>6 DEF m, g

LEMMA CalmKeeps ==
  ASSUME IInv, Balanced(native', held'), Calm(native, held, native', held')
  PROVE  FrameInv'
<1>1. \A o \in Objs : /\ held'[o]["frame"] = held[o]["frame"]
                      /\ Agree(native[o], held[o]) /\ Agree(native'[o], held'[o])
  BY DEF Calm, Balanced, IInv
<1>2. FrameViewKept'
  <2>. SUFFICES ASSUME NEW p \in Objs, native'[p].kind = "fpass"
                PROVE  \E v \in native'[p].uses : native'[v].kind = "view" /\ held'[v]["frame"] = 1
    BY DEF FrameViewKept
  <2>1. PICK v \in native[p].uses : native[v].kind = "view" /\ held[v]["frame"] = 1
    BY DEF Calm, IInv, FrameInv, FrameViewKept
  <2>2. v \in Objs /\ v \in native'[p].uses
    BY <1>1, <2>1 DEF Calm, Agree, Counted
  <2>3. held'[v]["frame"] = 1 /\ native'[v].kind = "view"
    BY <1>1, <2>1, <2>2 DEF Agree
  <2>. QED BY <2>2, <2>3
<1>3. NoFrame' => At("frame")' = {}
  BY <1>1 DEF NoFrame, At, Calm, IInv, FrameInv
<1>4. \A p, q \in Objs : native'[p].kind = "fpass" /\ native'[q].kind = "fpass" => p = q
  BY DEF Calm, IInv, FrameInv
<1>5. \A o \in Objs : held'[o]["frame"] <= 1
  BY <1>1 DEF IInv, FrameInv
<1>. QED BY <1>2, <1>3, <1>4, <1>5 DEF FrameInv

-----------------------------------------------------------------------------
(* Calls of the program that borrow their arguments *)

LEMMA FreshIsFree == \A o \in Fresh : o \in Objs /\ native[o].refs = 0
BY DEF Fresh

LEMMA MineIsHeld ==
  ASSUME IInv, NEW kinds, NEW o \in Mine(kinds)
  PROVE  /\ o \in Objs /\ native[o].kind \in kinds
         /\ held[o]["program"] > 0 /\ native[o].refs > 0
<1>1. o \in Objs /\ native[o].kind \in kinds /\ held[o]["program"] > 0
  BY DEF Mine, At
<1>2. Agree(native[o], held[o])
  BY <1>1 DEF IInv, Balanced
<1>3. native[o].refs > 0
  BY <1>1, <1>2, PlacesOf DEF Agree, Places
<1>. QED BY <1>1, <1>3

LEMMA UsesAreObjects == IInv => \A o \in Objs : native[o].uses \in SUBSET Objs
BY DEF IInv, Balanced, Agree, Counted

LEMMA ClosureIsObjects ==
  ASSUME IInv, NEW S \in SUBSET Objs
  PROVE  Closure(S) \in SUBSET Objs
BY DEF Closure, IInv, Balanced, Agree, Counted

\* Nothing but the objects and their wrappers changes while no function is in progress.
LEMMA StepKeepsOthers ==
  ASSUME IInv, NEW n, NEW h, Step(n, h)
  PROVE  OthersTyped' /\ CallInv' /\ native' = n /\ held' = h
<1>1. OthersTyped'
  BY DEF IInv, OthersTyped, Step
<1>2. CallInv'
  BY DEF IInv, CallInv, Step, NoCall, InFacade
<1>. QED BY <1>1, <1>2 DEF Step

LEMMA StepKeeps ==
  ASSUME IInv, NEW n, NEW h, Step(n, h), Balanced(n, h), Calm(native, held, n, h)
  PROVE  IInv'
BY StepKeepsOthers, CalmKeeps DEF IInv

LEMMA MakeKeeps ==
  ASSUME IInv, NEW k \in Kinds \ {"fpass"}, NEW uses \in SUBSET Objs, Make(k, uses)
  PROVE  IInv'
<1>1. PICK o \in Fresh : Step([native EXCEPT ![o] = Object(k, uses, {})],
                              Put(held, {o}, "program"))
  BY DEF Make
<1>2. o \in Objs /\ native[o].refs = 0 /\ Balanced(native, held) /\ k \in Kinds /\ k # "fpass"
  BY FreshIsFree DEF IInv
<1>3. Balanced([native EXCEPT ![o] = Object(k, uses, {})], Put(held, {o}, "program"))
  BY <1>2, CreatedAgrees DEF Places
<1>4. Calm(native, held, [native EXCEPT ![o] = Object(k, uses, {})], Put(held, {o}, "program"))
  BY <1>2, CreatedCalm
<1>. QED BY <1>1, <1>3, <1>4, StepKeeps

LEMMA CreateKeeps ==
  ASSUME IInv, Create
  PROVE  IInv'
<1>1. \A k \in Kinds \ {"fpass"}, uses \in SUBSET Objs : Make(k, uses) => IInv'
  BY MakeKeeps
<1>2. /\ {"buffer", "texture", "view", "sampler", "shader", "bgl", "playout", "cpipeline",
          "rpipeline", "query", "encoder", "bundleEncoder", "program"} \subseteq Kinds \ {"fpass"}
      /\ "group" \in Kinds \ {"fpass"} /\ "view" \in Kinds \ {"fpass"}
  BY DEF Kinds, Clonable, Pinnable, Linear, Passes
<1>3. ASSUME CreateTextureView
      PROVE  IInv'
  <2>1. PICK t \in Mine({"texture"}) : Make("view", {t})
    BY <1>3 DEF CreateTextureView
  <2>2. {t} \in SUBSET Objs
    BY DEF Mine, At
  <2>. QED BY <1>1, <1>2, <2>1, <2>2
<1>4. ASSUME CreateGroup
      PROVE  IInv'
  <2>1. PICK R \in SUBSET Mine({"buffer", "sampler", "view"}) : Make("group", Closure(R))
    BY <1>4 DEF CreateGroup
  <2>2. Closure(R) \in SUBSET Objs
    BY ClosureIsObjects DEF Mine, At
  <2>. QED BY <1>1, <1>2, <2>1, <2>2
<1>5. ASSUME \/ CreateBuffer \/ CreateTexture \/ CreateFrameView \/ CreateSampler
             \/ CreateShader \/ CreateLayout
      PROVE  IInv'
  BY <1>1, <1>2, <1>5 DEF CreateBuffer, CreateTexture, CreateFrameView, CreateSampler,
     CreateShader, CreateLayout
<1>6. ASSUME CreatePipelineLayout \/ CreateComputePipeline \/ CreateRenderPipeline
             \/ GetBindGroupLayout
      PROVE  IInv'
  BY <1>1, <1>2, <1>6 DEF CreatePipelineLayout, CreateComputePipeline, CreateRenderPipeline,
     GetBindGroupLayout
<1>7. ASSUME \/ CreateQuerySet \/ CreateCommandEncoder \/ CreateBundleEncoder
             \/ CompileCompute
      PROVE  IInv'
  BY <1>1, <1>2, <1>7 DEF CreateQuerySet, CreateCommandEncoder, CreateBundleEncoder,
     CompileCompute
<1>. QED BY <1>3, <1>4, <1>5, <1>6, <1>7 DEF Create

-----------------------------------------------------------------------------
(* Encoders and passes *)

LEMMA CloneKeeps ==
  ASSUME IInv, NEW o \in Objs, Clone(o)
  PROVE  IInv'
<1>1. native[o].kind \in Clonable /\ native[o].refs < MaxRefs
  BY MineIsHeld DEF Clone
<1>2. Balanced(AddRef(native, o), Put(held, {o}, "program"))
  BY <1>1, ClonedAgrees DEF IInv
<1>3. Calm(native, held, AddRef(native, o), Put(held, {o}, "program"))
  BY ClonedCalm DEF IInv
<1>. QED BY <1>2, <1>3, StepKeeps DEF Clone

LEMMA DropKeeps ==
  ASSUME IInv, NEW o \in Objs, Drop(o)
  PROVE  IInv'
<1>1. held[o]["program"] > 0 /\ native[o].kind # "fpass"
  BY MineIsHeld DEF Drop, Linear, Passes
<1>2. Balanced(Release(native, {o}), Take(held, {o}, "program"))
  BY <1>1, ReleasedAgrees DEF IInv, Places
<1>3. Calm(native, held, Release(native, {o}), Take(held, {o}, "program"))
  BY <1>1, ReleasedCalm DEF IInv
<1>. QED BY <1>2, <1>3, StepKeeps DEF Drop

LEMMA OpenKeeps ==
  ASSUME IInv, NEW k \in {"cpass", "rpass"}, NEW e \in Objs, NEW uses \in SUBSET Objs,
         Open(k, e, uses)
  PROVE  IInv'
<1>1. PICK p \in Fresh : Step([native EXCEPT ![p] = Object(k, uses, {e})],
                              Put(held, {p}, "program"))
  BY DEF Open
<1>2. p \in Objs /\ native[p].refs = 0 /\ Balanced(native, held) /\ {e} \in SUBSET Objs
  BY FreshIsFree DEF IInv
<1>3. k \in Passes /\ k \in Kinds /\ k # "fpass"
  BY DEF Passes, Kinds, Linear
<1>4. Balanced([native EXCEPT ![p] = Object(k, uses, {e})], Put(held, {p}, "program"))
  BY <1>2, <1>3, CreatedAgrees DEF Places
<1>5. Calm(native, held, [native EXCEPT ![p] = Object(k, uses, {e})], Put(held, {p}, "program"))
  BY <1>2, <1>3, CreatedCalm
<1>. QED BY <1>1, <1>4, <1>5, StepKeeps

LEMMA RecordKeeps ==
  ASSUME IInv, NEW kinds, NEW p \in Mine(kinds), NEW S \in SUBSET Objs, Record(p, S)
  PROVE  IInv'
<1>1. p \in Objs /\ native[p].refs > 0 /\ native[p] \in Counted
  BY MineIsHeld DEF IInv, Balanced, Agree
<1>. DEFINE u == native[p].uses \cup Closure(S)
<1>2. u \in SUBSET Objs /\ native[p].uses \subseteq u
  BY <1>1, ClosureIsObjects DEF Counted
<1>3. Step([native EXCEPT ![p].uses = u], held)
  BY DEF Record
<1>. HIDE DEF u
<1>4. Balanced([native EXCEPT ![p].uses = u], held)
  BY <1>1, <1>2, RecordedAgrees DEF IInv
<1>5. Calm(native, held, [native EXCEPT ![p].uses = u], held)
  BY <1>1, <1>2, RecordedCalm DEF IInv
<1>. QED BY <1>3, <1>4, <1>5, StepKeeps

\* The only FrameRenderPass is p, and its field is the view v.
LEMMA FrameOpens ==
  ASSUME IInv, Balanced(native', held'), NEW p \in Objs, NEW v \in Objs,
         native'[p].kind = "fpass", v \in native'[p].uses,
         \A o \in Objs \ {p} : native'[o].kind # "fpass",
         \A o \in Objs : held'[o]["frame"] = IF o = v THEN 1 ELSE 0
  PROVE  FrameInv'
<1>1. native'[v].kind = "view"
  BY DEF Balanced, Agree
<1>2. FrameViewKept'
  BY <1>1 DEF FrameViewKept
<1>. QED BY <1>2 DEF FrameInv, NoFrame

LEMMA NoFrameNoView ==
  ASSUME IInv, NoFrame, NEW o \in Objs
  PROVE  held[o]["frame"] = 0 /\ native[o].kind # "fpass"
<1>1. held[o]["frame"] \in Nat
  BY PlacesOf DEF IInv, Balanced, Agree
<1>. QED BY <1>1 DEF IInv, FrameInv, At, NoFrame

LEMMA BeginFramePassKeeps ==
  ASSUME IInv, NEW e \in Objs, NEW v \in Objs, BeginFramePass(e, v)
  PROVE  IInv'
<1>. DEFINE h == Move(held, {v}, "program", "frame")
            U == Closure({v})
<1>1. PICK p \in Fresh : Step([native EXCEPT ![p] = Object("fpass", U, {e})],
                              Put(h, {p}, "program"))
  BY DEF BeginFramePass
<1>2. native[v].kind = "view" /\ held[v]["program"] > 0 /\ native[v].refs > 0
  BY MineIsHeld DEF BeginFramePass
<1>3. p \in Objs /\ native[p].refs = 0 /\ p # v /\ {e} \in SUBSET Objs
  BY <1>2, FreshIsFree
<1>4. U \in SUBSET Objs /\ v \in U
  BY ClosureIsObjects DEF Closure
<1>5. Balanced(native, h)
  BY <1>2, MovedAgrees DEF IInv, Places
<1>6. Balanced([native EXCEPT ![p] = Object("fpass", U, {e})], Put(h, {p}, "program"))
  BY <1>3, <1>4, <1>5, CreatedAgrees DEF Kinds, Linear, Passes, Places
<1>7. \A o \in Objs : Put(h, {p}, "program")[o]["frame"] = IF o = v THEN 1 ELSE 0
  <2>. SUFFICES ASSUME NEW o \in Objs
                PROVE  Put(h, {p}, "program")[o]["frame"] = IF o = v THEN 1 ELSE 0
    OBVIOUS
  <2>1. held[o] \in [Places -> Nat] /\ held[o]["frame"] = 0
    BY NoFrameNoView DEF BeginFramePass, IInv, Balanced, Agree
  <2>. QED BY <1>3, <2>1 DEF Put, Move, Take, Places
<1>8. native' = [native EXCEPT ![p] = Object("fpass", U, {e})] /\ held' = Put(h, {p}, "program")
      /\ OthersTyped' /\ CallInv'
  BY <1>1, StepKeepsOthers
<1>. HIDE DEF h, U
<1>9. FrameInv'
  <2>1. native'[p].kind = "fpass" /\ native'[p].uses = U
    BY <1>3, <1>8 DEF IInv, Balanced, Object
  <2>2. \A o \in Objs \ {p} : native'[o].kind # "fpass"
    BY <1>8, NoFrameNoView DEF BeginFramePass, IInv, Balanced
  <2>. QED BY <1>3, <1>4, <1>6, <1>7, <1>8, <2>1, <2>2, FrameOpens
<1>. QED BY <1>6, <1>8, <1>9 DEF IInv

LEMMA BeginSurfacePassKeeps ==
  ASSUME IInv, NEW e \in Objs, BeginSurfacePass(e)
  PROVE  IInv'
<1>0. PICK p \in Fresh : \E v \in Fresh \ {p} :
        Step([native EXCEPT ![v] = Object("view", {}, {}), ![p] = Object("fpass", {v}, {e})],
             Put(Put(held, {v}, "frame"), {p}, "program"))
  BY DEF BeginSurfacePass
<1>1. PICK v \in Fresh \ {p} :
        Step([native EXCEPT ![v] = Object("view", {}, {}), ![p] = Object("fpass", {v}, {e})],
             Put(Put(held, {v}, "frame"), {p}, "program"))
  BY <1>0
<1>. DEFINE m == [native EXCEPT ![v] = Object("view", {}, {})]
            h == Put(held, {v}, "frame")
<1>2. /\ p \in Objs /\ v \in Objs /\ p # v
      /\ native[p].refs = 0 /\ native[v].refs = 0 /\ {e} \in SUBSET Objs /\ {v} \in SUBSET Objs
  BY FreshIsFree
<1>3. Balanced(m, h)
  BY <1>2, CreatedAgrees DEF IInv, Kinds, Clonable, Pinnable, Places
<1>4. m[p].refs = 0
  BY <1>2
<1>5. Balanced([m EXCEPT ![p] = Object("fpass", {v}, {e})], Put(h, {p}, "program"))
  BY <1>2, <1>3, <1>4, CreatedAgrees DEF Kinds, Linear, Passes, Places
<1>6. \A o \in Objs : Put(h, {p}, "program")[o]["frame"] = IF o = v THEN 1 ELSE 0
  <2>. SUFFICES ASSUME NEW o \in Objs
                PROVE  Put(h, {p}, "program")[o]["frame"] = IF o = v THEN 1 ELSE 0
    OBVIOUS
  <2>1. held[o] \in [Places -> Nat] /\ held[o]["frame"] = 0
    BY NoFrameNoView DEF BeginSurfacePass, IInv, Balanced, Agree
  <2>. QED BY <1>2, <2>1 DEF Put, Places
<1>7. /\ native' = [m EXCEPT ![p] = Object("fpass", {v}, {e})]
      /\ held' = Put(h, {p}, "program") /\ OthersTyped' /\ CallInv'
  BY <1>1, StepKeepsOthers
<1>8. \A o \in Objs : native'[o] = IF o = p THEN Object("fpass", {v}, {e})
                                   ELSE IF o = v THEN Object("view", {}, {}) ELSE native[o]
  BY <1>2, <1>7 DEF IInv, Balanced
<1>. HIDE DEF m, h
<1>9. FrameInv'
  <2>1. native'[p].kind = "fpass" /\ native'[p].uses = {v}
    BY <1>2, <1>8 DEF Object
  <2>2. \A o \in Objs \ {p} : native'[o].kind # "fpass"
    BY <1>8, NoFrameNoView DEF BeginSurfacePass, Object
  <2>. QED BY <1>2, <1>5, <1>6, <1>7, <2>1, <2>2, FrameOpens
<1>. QED BY <1>5, <1>7, <1>9 DEF IInv

LEMMA ReleasedKind ==
  ASSUME NEW n, NEW S \in SUBSET Objs, NEW o \in Objs, n[o] \in Counted
  PROVE  Release(n, S)[o].kind \in {"none", n[o].kind}
<1>1. [n[o] EXCEPT !.refs = @ - 1].kind = n[o].kind /\ Nothing.kind = "none"
  BY DEF Counted, Nothing
<1>. QED BY <1>1 DEF Release

LEMMA AllReleased ==
  ASSUME NEW n, NEW p \in Objs, NEW V \in SUBSET Objs, p \notin V
  PROVE  Release(Release(n, {p}), V) = Release(n, V \cup {p})
BY DEF Release

LEMMA ConsumeKeeps ==
  ASSUME IInv, NEW p \in Mine(Linear), NEW n, Balanced(n, held), Consume(n, p),
         \A o \in Objs : /\ n[o].kind = native[o].kind /\ n[o].refs = native[o].refs
                         /\ n[o].kind = "fpass" => n[o].uses = native[o].uses
  PROVE  IInv'
<1>. DEFINE V == IF native[p].kind = "fpass" THEN At("frame") ELSE {}
            m == Release(n, {p})
            h == Take(held, {p}, "program")
<1>1. Step(Release(n, V \cup {p}), Take(h, V, "frame"))
  BY DEF Consume
<1>2. p \in Objs /\ native[p].kind \in Linear /\ held[p]["program"] > 0 /\ native[p].refs > 0
  BY MineIsHeld
<1>3. Balanced(m, h)
  BY <1>2, ReleasedAgrees DEF Places
<1>4. CASE native[p].kind # "fpass"
  <2>1. V = {} /\ V \cup {p} = {p}
    BY <1>4
  <2>2. Take(h, {}, "frame") = h
    BY DEF Take
  <2>3. Step(m, h)
    BY <1>1, <2>1, <2>2
  <2>4. Calm(n, held, m, h)
    BY <1>2, <1>4, ReleasedCalm
  <2>5. Calm(native, held, n, held)
    BY PlacesOf DEF Calm, IInv, Balanced, Agree
  <2>6. Calm(native, held, m, h)
    BY <1>3, <2>4, <2>5, CalmTwice DEF IInv
  <2>. HIDE DEF m, h
  <2>. QED BY <1>3, <2>3, <2>6, StepKeeps
<1>5. CASE native[p].kind = "fpass"
  <2>1. V = At("frame") /\ V \in SUBSET Objs
    BY <1>5 DEF At
  <2>2. \A o \in Objs : held[o] \in [Places -> Nat] /\ h[o]["frame"] = held[o]["frame"]
    <3>. SUFFICES ASSUME NEW o \in Objs
                  PROVE  held[o] \in [Places -> Nat] /\ h[o]["frame"] = held[o]["frame"]
      OBVIOUS
    <3>1. held[o] \in [Places -> Nat]
      BY DEF IInv, Balanced, Agree
    <3>. QED BY <3>1, PlacesOf DEF Take, Places
  <2>3. p \notin V
    BY <1>2, <1>5, <2>1 DEF At, IInv, Balanced, Agree
  <2>4. Balanced(Release(m, V), Take(h, V, "frame"))
    BY <1>3, <2>1, <2>2, ReleasedAgrees DEF At, Places
  <2>5. Release(m, V) = Release(n, V \cup {p})
    BY <1>2, <2>1, <2>3, AllReleased
  <2>6. native' = Release(m, V) /\ held' = Take(h, V, "frame") /\ OthersTyped' /\ CallInv'
    BY <1>1, <2>5, StepKeepsOthers
  <2>7. native[p].refs = 1
    <3>1. native[p].kind \notin Clonable
      BY <1>5 DEF Clonable, Pinnable
    <3>2. native[p].refs \in Nat
      BY <1>2, LifetimesAssumption DEF IInv, Balanced, Agree, Counted
    <3>. QED BY <1>2, <3>1, <3>2 DEF IInv, Balanced, Agree
  <2>8. m[p].kind = "none" /\ m[p] \in Counted
    BY <1>2, <1>3, <2>7 DEF Release, Nothing, Balanced, Agree
  <2>9. \A o \in Objs : native'[o].kind # "fpass"
    <3>. SUFFICES ASSUME NEW o \in Objs PROVE native'[o].kind # "fpass"
      OBVIOUS
    <3>1. n[o] \in Counted /\ m[o] \in Counted
      BY <1>3 DEF Balanced, Agree
    <3>2. CASE o = p
      BY <2>1, <2>6, <2>8, <3>1, <3>2, ReleasedKind
    <3>3. CASE o # p
      <4>1. n[o].kind # "fpass"
        BY <1>2, <1>5, <3>3 DEF IInv, FrameInv
      <4>. HIDE DEF V
      <4>. QED BY <1>2, <2>1, <2>5, <2>6, <3>1, <4>1, ReleasedKind
    <3>. QED BY <3>2, <3>3
  <2>10. \A o \in Objs : held'[o]["frame"] = 0
    <3>. SUFFICES ASSUME NEW o \in Objs PROVE held'[o]["frame"] = 0
      OBVIOUS
    <3>1. held[o]["frame"] \in {0, 1} /\ (o \in V <=> held[o]["frame"] = 1)
      BY <2>1, <2>2, PlacesOf DEF At, IInv, FrameInv
    <3>2. h[o] \in [Places -> Nat]
      BY <1>3 DEF Balanced, Agree
    <3>. HIDE DEF V, h
    <3>. QED BY <2>2, <2>6, <3>1, <3>2 DEF Take, Places
  <2>11. FrameInv'
    BY <2>9, <2>10 DEF FrameInv, FrameViewKept, At
  <2>. QED BY <2>4, <2>6, <2>11 DEF IInv
<1>. QED BY <1>4, <1>5

LEMMA EndPassKeeps ==
  ASSUME IInv, NEW p \in Objs, EndPass(p)
  PROVE  IInv'
<1>. DEFINE given(o) == [native[o] EXCEPT !.uses = @ \cup native[p].uses]
            n == [o \in Objs |-> IF o \in native[p].into /\ native[o].kind = "encoder"
                                 THEN given(o) ELSE native[o]]
<1>1. p \in Mine(Linear) /\ Consume(n, p)
  BY DEF EndPass, Mine, Linear
<1>2. \A o \in Objs : Agree(native[o], held[o])
  BY DEF IInv, Balanced
<1>3. ASSUME NEW o \in Objs, native[o].kind = "encoder"
      PROVE  /\ Agree(given(o), held[o]) /\ given(o).kind = "encoder"
             /\ given(o).refs = native[o].refs
  <2>1. native[o] \in Counted /\ native[p].uses \in SUBSET Objs
    BY <1>2 DEF Agree, Counted
  <2>2. native[o].refs > 0
    BY <1>2, <1>3, <2>1, LifetimesAssumption DEF Agree, Counted, Nothing
  <2>3. /\ given(o) \in Counted /\ given(o).kind = "encoder" /\ given(o).refs = native[o].refs
        /\ given(o).into = native[o].into
    BY <1>3, <2>1 DEF Counted
  <2>4. given(o) # Nothing
    BY <2>3 DEF Nothing
  <2>. HIDE DEF given
  <2>. QED BY <1>2, <1>3, <2>2, <2>3, <2>4 DEF Agree
<1>. HIDE DEF given
<1>4. Balanced(n, held)
  BY <1>2, <1>3 DEF Balanced, IInv
<1>5. \A o \in Objs : /\ n[o].kind = native[o].kind /\ n[o].refs = native[o].refs
                      /\ n[o].kind = "fpass" => n[o].uses = native[o].uses
  BY <1>3
<1>. HIDE DEF n
<1>. QED BY <1>1, <1>4, <1>5, ConsumeKeeps

LEMMA AbandonKeeps ==
  ASSUME IInv, NEW p \in Objs, Abandon(p)
  PROVE  IInv'
BY ConsumeKeeps DEF Abandon, IInv

LEMMA FinishAsKeeps ==
  ASSUME IInv, NEW e \in Objs, NEW from \in {"encoder", "bundleEncoder"},
         NEW to \in {"cmd", "bundle"}, FinishAs(e, from, to)
  PROVE  IInv'
<1>1. PICK uses \in SUBSET Objs : \E c \in Fresh :
        Step(Release([native EXCEPT ![c] = Object(to, uses, {})], {e}),
             Put(Take(held, {e}, "program"), {c}, "program"))
  <2>1. native[e].uses \in SUBSET Objs
    BY DEF IInv, Balanced, Agree, Counted
  <2>2. CASE \A p \in Objs : e \notin native[p].into
    BY <2>1, <2>2 DEF FinishAs
  <2>3. CASE ~ \A p \in Objs : e \notin native[p].into
    <3>1. \E c \in Fresh : Step(Release([native EXCEPT ![c] = Object(to, {}, {})], {e}),
                                Put(Take(held, {e}, "program"), {c}, "program"))
      BY <2>3 DEF FinishAs
    <3>. QED BY <3>1
  <2>. QED BY <2>2, <2>3
<1>2. PICK c \in Fresh : Step(Release([native EXCEPT ![c] = Object(to, uses, {})], {e}),
                              Put(Take(held, {e}, "program"), {c}, "program"))
  BY <1>1
<1>. DEFINE n == [native EXCEPT ![c] = Object(to, uses, {})]
            h == Put(held, {c}, "program")
<1>3. native[e].kind = from /\ held[e]["program"] > 0 /\ native[e].refs > 0
  BY MineIsHeld DEF FinishAs
<1>4. c \in Objs /\ native[c].refs = 0 /\ c # e
  BY <1>3, FreshIsFree
<1>5. to \in Kinds /\ to # "fpass" /\ Balanced(native, held)
  BY DEF Kinds, Clonable, IInv
<1>6. Balanced(n, h) /\ Calm(native, held, n, h)
  BY <1>4, <1>5, CreatedAgrees, CreatedCalm DEF Places
<1>7. n[e] = native[e] /\ h[e] = held[e]
  BY <1>4 DEF Put
<1>8. Take(h, {e}, "program") = Put(Take(held, {e}, "program"), {c}, "program")
  BY <1>4 DEF Put, Take
<1>. HIDE DEF n, h
<1>9. Balanced(Release(n, {e}), Take(h, {e}, "program"))
  BY <1>3, <1>6, <1>7, ReleasedAgrees DEF Places
<1>10. Calm(n, h, Release(n, {e}), Take(h, {e}, "program"))
  BY <1>3, <1>6, <1>7, ReleasedCalm
<1>11. Calm(native, held, Release(n, {e}), Take(h, {e}, "program"))
  BY <1>5, <1>6, <1>9, <1>10, CalmTwice
<1>. QED BY <1>2, <1>8, <1>9, <1>11, StepKeeps DEF n

LEMMA EncodeKeeps ==
  ASSUME IInv, Encode
  PROVE  IInv'
<1>1. ASSUME NEW e \in Objs, BeginComputePass(e)
      PROVE  IInv'
  BY <1>1, OpenKeeps DEF BeginComputePass
<1>2. ASSUME NEW e \in Objs, NEW v \in Objs, BeginRenderPass(e, v)
      PROVE  IInv'
  <2>1. Closure({v}) \in SUBSET Objs
    BY ClosureIsObjects
  <2>. QED BY <1>2, <2>1, OpenKeeps DEF BeginRenderPass
<1>3. ASSUME NEW e \in Objs, Finish(e) \/ FinishBundle(e)
      PROVE  IInv'
  BY <1>3, FinishAsKeeps DEF Finish, FinishBundle
<1>4. ASSUME NEW e \in Objs, NEW S \in SUBSET Objs, RecordCopy(e, S)
      PROVE  IInv'
  BY <1>4, RecordKeeps DEF RecordCopy
<1>5. ASSUME NEW p \in Objs, NEW o \in Objs,
             RecordCompute(p, o) \/ RecordRender(p, o) \/ RecordFrame(p, o) \/ RecordBundle(p, o)
      PROVE  IInv'
  <2>1. {o} \in SUBSET Objs
    OBVIOUS
  <2>2. CASE RecordCompute(p, o)
    BY <2>1, <2>2, RecordKeeps DEF RecordCompute
  <2>3. CASE RecordRender(p, o)
    BY <2>1, <2>3, RecordKeeps DEF RecordRender
  <2>4. CASE RecordFrame(p, o)
    BY <2>1, <2>4, RecordKeeps DEF RecordFrame
  <2>5. CASE RecordBundle(p, o)
    BY <2>1, <2>5, RecordKeeps DEF RecordBundle
  <2>. QED BY <1>5, <2>2, <2>3, <2>4, <2>5
<1>. QED BY <1>1, <1>2, <1>3, <1>4, <1>5, BeginFramePassKeeps, BeginSurfacePassKeeps,
            EndPassKeeps, AbandonKeeps DEF Encode

-----------------------------------------------------------------------------
(* Submissions and sessions *)

LEMMA StillKeeps ==
  ASSUME IInv, UNCHANGED <<native, held>>, OthersTyped', CallInv'
  PROVE  IInv'
<1>1. Balanced(native', held')
  BY DEF IInv
<1>2. Calm(native, held, native', held')
  BY PlacesOf DEF Calm, IInv, Balanced, Agree
<1>. QED BY <1>1, <1>2, CalmKeeps DEF IInv

LEMMA Submitted ==
  ASSUME NEW uses \in SUBSET Objs, OthersTyped, CanSubmit
  PROVE  Append(flight, uses) \in Seq(SUBSET Objs) /\ Len(Append(flight, uses)) <= MaxFlight
BY LifetimesAssumption DEF OthersTyped, CanSubmit

LEMMA QueueSubmitKeeps ==
  ASSUME IInv, NEW c \in Objs, QueueSubmit(c)
  PROVE  IInv'
<1>1. native[c].kind = "cmd" /\ native[c].refs > 0 /\ native[c].uses \in SUBSET Objs
  BY MineIsHeld, UsesAreObjects DEF QueueSubmit
<1>2. Balanced([native EXCEPT ![c].uses = {}], held)
  BY <1>1, RecordedAgrees DEF IInv
<1>3. Calm(native, held, [native EXCEPT ![c].uses = {}], held)
  BY <1>1, RecordedCalm DEF IInv
<1>4. OthersTyped'
  BY <1>1, Submitted DEF QueueSubmit, IInv, OthersTyped
<1>5. CallInv'
  BY DEF QueueSubmit, IInv, CallInv, NoCall, InFacade
<1>. QED BY <1>2, <1>3, <1>4, <1>5, CalmKeeps DEF QueueSubmit, IInv

LEMMA GpuFinishesKeeps ==
  ASSUME IInv, GpuFinishes
  PROVE  IInv'
<1>1. flight' \in Seq(SUBSET Objs) /\ Len(flight') <= Len(flight)
  BY DEF GpuFinishes, IInv, OthersTyped
<1>2. OthersTyped'
  BY <1>1, LifetimesAssumption DEF GpuFinishes, IInv, OthersTyped
<1>3. CanSubmit => CanSubmit'
  BY <1>1, LifetimesAssumption DEF CanSubmit, IInv, OthersTyped
<1>4. CallInv'
  BY <1>3 DEF GpuFinishes, IInv, CallInv, At, InFacade
<1>. QED BY <1>2, <1>4, StillKeeps DEF GpuFinishes

LEMMA OpenSessionKeeps ==
  ASSUME IInv, OpenSession
  PROVE  IInv'
<1>1. OthersTyped'
  BY DEF OpenSession, IInv, OthersTyped
<1>2. CallInv'
  BY DEF OpenSession, IInv, CallInv, At, InFacade, CanSubmit, NoCall
<1>. QED BY <1>1, <1>2, StillKeeps DEF OpenSession

LEMMA PinKeeps ==
  ASSUME IInv, NEW o \in Objs, Pin(o)
  PROVE  IInv'
<1>1. held[o]["program"] > 0 /\ native[o].kind # "fpass"
  BY MineIsHeld DEF Pin, Pinnable
<1>2. Balanced(native, Move(held, {o}, "program", "session"))
  BY <1>1, MovedAgrees DEF IInv, Places
<1>3. Calm(native, held, native, Move(held, {o}, "program", "session"))
  BY MovedCalm DEF IInv
<1>. QED BY <1>2, <1>3, StepKeeps DEF Pin

LEMMA SessionSubmitKeeps ==
  ASSUME IInv, NEW c \in Objs, SessionSubmit(c)
  PROVE  IInv'
<1>1. /\ held[c]["program"] > 0 /\ native[c].kind = "cmd"
      /\ native[c].uses \in SUBSET Objs
  BY MineIsHeld, UsesAreObjects DEF SessionSubmit
<1>2. Balanced(Release(native, {c}), Take(held, {c}, "program"))
  BY <1>1, ReleasedAgrees DEF IInv, Places
<1>3. Calm(native, held, Release(native, {c}), Take(held, {c}, "program"))
  BY <1>1, ReleasedCalm DEF IInv
<1>4. OthersTyped'
  BY <1>1 DEF SessionSubmit, IInv, OthersTyped
<1>5. CallInv'
  <2>1. native'[c].kind \in {"cmd", "none"}
    <3>1. native[c] \in Counted
      BY DEF IInv, Balanced, Agree
    <3>. QED BY <1>1, <3>1, ReleasedKind DEF SessionSubmit
  <2>. QED BY <2>1 DEF SessionSubmit, IInv, CallInv, InFacade, CanSubmit
<1>. QED BY <1>2, <1>3, <1>4, <1>5, CalmKeeps DEF SessionSubmit, IInv

LEMMA SessionEntersKeeps ==
  ASSUME IInv, SessionEnters
  PROVE  IInv'
<1>1. call.pc = "submit"
  BY DEF SessionEnters, IInv, OthersTyped, CallInv, InFacade
<1>2. CanSubmit /\ call.uses \in SUBSET Objs
  BY <1>1 DEF IInv, CallInv, OthersTyped
<1>3. OthersTyped'
  BY <1>2, Submitted DEF SessionEnters, IInv, OthersTyped, NoCall
<1>4. CallInv'
  BY DEF SessionEnters, CallInv, NoCall, InFacade
<1>5. ASSUME NEW o \in Objs
      PROVE  /\ Agree(native'[o], held'[o]) /\ native'[o].kind = native[o].kind
             /\ native[o].kind = "fpass" => native'[o].uses = native[o].uses
  <2>1. Agree(native[o], held[o]) /\ held'[o] = held[o]
    BY DEF SessionEnters, IInv, Balanced
  <2>2. CASE o \notin call.passes
    BY <2>1, <2>2 DEF SessionEnters
  <2>3. CASE o \in call.passes
    <3>1. native'[o] = [native[o] EXCEPT !.uses = {}] /\ native[o].kind # "fpass"
      BY <2>3 DEF SessionEnters, IInv, CallInv
    <3>. QED BY <2>1, <3>1 DEF Agree, Nothing, Counted
  <2>. QED BY <2>2, <2>3
<1>6. Balanced(native', held')
  BY <1>5 DEF Balanced, SessionEnters, IInv
<1>7. Calm(native, held, native', held')
  BY <1>5 DEF Calm, SessionEnters
<1>. QED BY <1>3, <1>4, <1>6, <1>7, CalmKeeps DEF IInv

\* One object when the lists of the session are cleared.
LEMMA UnpinAgrees ==
  ASSUME NEW x, NEW w, Agree(x, w),
         NEW v, v = [w EXCEPT !["session"] = 0],
         NEW y, y = IF w["session"] = 0 THEN x
                    ELSE IF x.refs = w["session"] THEN Nothing
                    ELSE [x EXCEPT !.refs = @ - w["session"]]
  PROVE  /\ Agree(y, v) /\ v["frame"] = w["frame"]
         /\ y.kind \in {"none", x.kind}
         /\ x.kind = "fpass" => y = x
<1>1. x \in Counted /\ w \in [Places -> Nat] /\ x.refs = Wrappers(w)
  BY DEF Agree
<1>2. /\ v \in [Places -> Nat] /\ v["program"] = w["program"] /\ v["frame"] = w["frame"]
      /\ v["call"] = w["call"] /\ v["session"] = 0
  BY <1>1 DEF Places
<1>3. Wrappers(v) = x.refs - w["session"] /\ w["session"] \in Nat /\ Wrappers(v) \in Nat
  BY <1>1, <1>2, PlacesOf DEF Wrappers
<1>4. x.refs \in Nat
  BY <1>1, PlacesOf
<1>5. CASE w["session"] = 0
  <2>1. y = x
    BY <1>5
  <2>2. Wrappers(v) = x.refs
    BY <1>3, <1>4, <1>5
  <2>3. Agree(x, v)
    BY <1>1, <1>2, <2>2 DEF Agree
  <2>. QED BY <1>2, <2>1, <2>3
<1>6. CASE w["session"] # 0 /\ x.refs = w["session"]
  <2>1. y = Nothing /\ Wrappers(v) = 0
    BY <1>3, <1>6
  <2>2. v["frame"] = 0
    BY <1>2, <2>1, PlacesOf DEF Places
  <2>3. /\ Nothing \in Counted /\ Nothing.refs = 0 /\ Nothing.into = {}
        /\ Nothing.kind = "none"
    BY LifetimesAssumption DEF Nothing, Counted
  <2>4. Agree(Nothing, v)
    BY <1>2, <2>1, <2>2, <2>3 DEF Agree
  <2>5. x.kind # "fpass"
    BY <1>6 DEF Agree
  <2>. QED BY <1>2, <2>1, <2>3, <2>4, <2>5
<1>7. CASE w["session"] # 0 /\ x.refs # w["session"]
  <2>1. x.refs - w["session"] > 0 /\ x.refs - w["session"] < x.refs
    BY <1>3, <1>4, <1>7
  <2>2. x.refs \in 0 .. MaxRefs
    BY <1>1 DEF Counted
  <2>3. x.refs - w["session"] \in 0 .. MaxRefs /\ x.refs > 1
    BY <1>3, <1>4, <2>1, <2>2, LifetimesAssumption
  <2>4. y = [x EXCEPT !.refs = @ - w["session"]]
    BY <1>7
  <2>5. /\ y \in Counted /\ y.refs = x.refs - w["session"]
        /\ y.kind = x.kind /\ y.into = x.into
    BY <1>1, <2>3, <2>4 DEF Counted
  <2>6. y # Nothing
    BY <2>1, <2>5 DEF Nothing
  <2>7. x.kind # "fpass"
    BY <1>7 DEF Agree
  <2>8. Agree(y, v)
    BY <1>2, <1>3, <2>1, <2>3, <2>5, <2>6, <2>7 DEF Agree
  <2>. QED BY <1>2, <2>5, <2>7, <2>8
<1>. QED BY <1>5, <1>6, <1>7

\* _drop_all gives back every reference the lists of the session hold.
LEMMA UnpinKeeps ==
  ASSUME IInv, call = NoCall, Unpin, session' \in BOOLEAN
  PROVE  Balanced(native', held') /\ OthersTyped' /\ FrameInv' /\ CallInv'
<1>1. ASSUME NEW o \in Objs
      PROVE  /\ Agree(native'[o], held'[o]) /\ held'[o]["frame"] = held[o]["frame"]
             /\ native'[o].kind \in {"none", native[o].kind}
             /\ native[o].kind = "fpass" => native'[o] = native[o]
  <2>1. Agree(native[o], held[o])
    BY DEF IInv, Balanced
  <2>2. held'[o] = [held[o] EXCEPT !["session"] = 0]
    BY DEF Unpin
  <2>3. native'[o] = IF held[o]["session"] = 0 THEN native[o]
                     ELSE IF native[o].refs = held[o]["session"] THEN Nothing
                     ELSE [native[o] EXCEPT !.refs = @ - held[o]["session"]]
    BY DEF Unpin
  <2>. QED BY <2>1, <2>2, <2>3, UnpinAgrees
<1>2. native' = [o \in Objs |-> native'[o]] /\ held' = [o \in Objs |-> held'[o]]
  BY DEF Unpin
<1>3. Balanced(native', held')
  BY <1>1, <1>2 DEF Balanced
<1>4. Calm(native, held, native', held')
  <2>1. \A o \in Objs : held'[o]["frame"] = held[o]["frame"]
    BY <1>1
  <2>2. \A o \in Objs : native'[o].kind = "fpass" <=> native[o].kind = "fpass"
    BY <1>1
  <2>3. \A o \in Objs : native[o].kind = "fpass" => native[o].uses \subseteq native'[o].uses
    BY <1>1
  <2>. QED BY <2>1, <2>2, <2>3 DEF Calm
<1>5. FrameInv'
  BY <1>3, <1>4, CalmKeeps
<1>6. OthersTyped'
  BY DEF Unpin, IInv, OthersTyped
<1>7. CallInv'
  BY DEF Unpin, CallInv, NoCall, InFacade
<1>. QED BY <1>3, <1>5, <1>6, <1>7

LEMMA FlushKeeps ==
  ASSUME IInv, Flush
  PROVE  IInv'
<1>1. session' \in BOOLEAN /\ Unpin /\ call = NoCall
  BY DEF Flush, IInv, OthersTyped
<1>. QED BY <1>1, UnpinKeeps DEF IInv

LEMMA DropSessionKeeps ==
  ASSUME IInv, DropSession
  PROVE  IInv'
<1>1. session' \in BOOLEAN /\ Unpin /\ call = NoCall
  BY DEF DropSession
<1>. QED BY <1>1, UnpinKeeps DEF IInv

-----------------------------------------------------------------------------
(* The GPU facade *)

LEMMA DispatchCallKeeps ==
  ASSUME IInv, NEW p \in Objs, NEW B \in SUBSET Objs, DispatchCall(p, B)
  PROVE  IInv'
<1>1. PICK D \in SUBSET B :
        /\ CallerPins => D = {}
        /\ native' = Release(native, D)
        /\ held' = Take(Move(held, {p}, "program", "call"), D, "program")
  BY DEF DispatchCall
<1>. DEFINE h == Move(held, {p}, "program", "call")
<1>2. native[p].kind = "program" /\ held[p]["program"] > 0
  BY MineIsHeld DEF DispatchCall
<1>3. \A o \in B : native[o].kind = "buffer" /\ held[o]["program"] > 0
  BY MineIsHeld DEF DispatchCall
<1>4. Balanced(native, h) /\ Calm(native, held, native, h)
  BY <1>2, MovedAgrees, MovedCalm DEF IInv, Places
<1>5. h = [o \in Objs |-> h[o]] /\ \A o \in Objs \ {p} : h[o] = held[o]
  BY DEF Move, Put, Take, IInv, Balanced
<1>6. h[p]["call"] > 0
  <2>1. held[p] \in [Places -> Nat]
    BY DEF IInv, Balanced, Agree
  <2>. QED BY <2>1 DEF Move, Put, Take, Places
<1>7. p \notin D /\ D \in SUBSET Objs
  BY <1>2, <1>3
<1>8. \A o \in D : h[o]["program"] > 0 /\ native[o].kind # "fpass"
  BY <1>3, <1>5, <1>7
<1>. HIDE DEF h
<1>9. Balanced(native', held') /\ Calm(native, h, native', held')
  BY <1>1, <1>4, <1>7, <1>8, ReleasedAgrees, ReleasedCalm DEF Places, h
<1>10. Calm(native, held, native', held')
  BY <1>4, <1>9, CalmTwice DEF IInv
<1>11. OthersTyped'
  BY DEF DispatchCall, IInv, OthersTyped
<1>12. CallInv'
  <2>1. call' = [api |-> "GPU.dispatch", pc |-> "bind", passes |-> B, uses |-> B \cup {p}]
        /\ CanSubmit' /\ CallerPins' = CallerPins
    BY DEF DispatchCall, CanSubmit
  <2>2. held'[p] = h[p]
    BY <1>1, <1>5, <1>7 DEF Take, h
  <2>3. CallerPins => \A o \in B : held'[o]["program"] > 0
    BY <1>1, <1>2, <1>3, <1>5 DEF Take, h
  <2>4. CallerPins => call'.passes \subseteq At("program")'
    BY <2>1, <2>3 DEF At
  <2>5. p \in At("call")'
    BY <1>6, <2>2 DEF At
  <2>. QED BY <2>1, <2>4, <2>5 DEF CallInv, InFacade
<1>. QED BY <1>9, <1>10, <1>11, <1>12, CalmKeeps DEF IInv

\* The facade makes two objects of its own.
LEMMA LocalsMade ==
  ASSUME IInv, NEW g \in Fresh, NEW c \in Fresh \ {g}, NEW k \in {"group", "buffer"},
         NEW u \in SUBSET Objs, NEW v \in SUBSET Objs,
         native' = [native EXCEPT ![g] = Object(k, u, {}), ![c] = Object("cmd", v, {})],
         held' = Put(held, {g, c}, "call")
  PROVE  /\ Balanced(native', held') /\ FrameInv'
         /\ \A o \in Objs : held'[o]["program"] = held[o]["program"]
         /\ At("call") \cup {g, c} \subseteq At("call")'
<1>. DEFINE m == [native EXCEPT ![g] = Object(k, u, {})]
            h == Put(held, {g}, "call")
<1>1. /\ g \in Objs /\ c \in Objs /\ g # c /\ native[g].refs = 0 /\ native[c].refs = 0
      /\ Balanced(native, held) /\ k \in Kinds /\ k # "fpass"
      /\ "cmd" \in Kinds
  BY FreshIsFree DEF IInv, Kinds, Clonable, Pinnable
<1>2. Balanced(m, h) /\ Calm(native, held, m, h)
  BY <1>1, CreatedAgrees, CreatedCalm DEF Places
<1>3. m[c].refs = 0
  BY <1>1
<1>4. native' = [m EXCEPT ![c] = Object("cmd", v, {})] /\ held' = Put(h, {c}, "call")
  BY <1>1 DEF Put
<1>5. \A o \in Objs : /\ held'[o]["program"] = held[o]["program"]
                      /\ held'[o]["call"] = IF o \in {g, c} THEN held[o]["call"] + 1
                                            ELSE held[o]["call"]
                      /\ held[o]["call"] \in Nat
  <2>. SUFFICES ASSUME NEW o \in Objs
                PROVE  /\ held'[o]["program"] = held[o]["program"]
                       /\ held'[o]["call"] = IF o \in {g, c} THEN held[o]["call"] + 1
                                             ELSE held[o]["call"]
                       /\ held[o]["call"] \in Nat
    OBVIOUS
  <2>1. held[o] \in [Places -> Nat]
    BY DEF IInv, Balanced, Agree
  <2>. QED BY <2>1 DEF Put, Places
<1>. HIDE DEF m, h
<1>6. /\ Balanced([m EXCEPT ![c] = Object("cmd", v, {})], Put(h, {c}, "call"))
      /\ Calm(m, h, [m EXCEPT ![c] = Object("cmd", v, {})], Put(h, {c}, "call"))
  BY <1>1, <1>2, <1>3, CreatedAgrees, CreatedCalm DEF Places
<1>7. Balanced(native', held')
  BY <1>4, <1>6
<1>8. Calm(native, held, [m EXCEPT ![c] = Object("cmd", v, {})], Put(h, {c}, "call"))
  BY <1>1, <1>2, <1>6, CalmTwice
<1>9. Calm(native, held, native', held')
  BY <1>4, <1>8
<1>10. At("call") \cup {g, c} \subseteq At("call")'
  <2>1. ASSUME NEW o \in Objs, held[o]["call"] > 0 \/ o \in {g, c}
        PROVE  held'[o]["call"] > 0
    <3>1. /\ held'[o]["call"] = IF o \in {g, c} THEN held[o]["call"] + 1
                                ELSE held[o]["call"]
          /\ held[o]["call"] \in Nat
      BY <1>5
    <3>2. CASE o \in {g, c}
      BY <3>1, <3>2
    <3>3. CASE o \notin {g, c}
      BY <2>1, <3>1, <3>3
    <3>. QED BY <3>2, <3>3
  <2>2. \A o \in At("call") \cup {g, c} : o \in Objs /\ (held[o]["call"] > 0 \/ o \in {g, c})
    BY <1>1 DEF At
  <2>. QED BY <2>1, <2>2 DEF At
<1>11. FrameInv'
  BY <1>7, <1>9, CalmKeeps
<1>. QED BY <1>5, <1>7, <1>10, <1>11

LEMMA DispatchRecordsKeeps ==
  ASSUME IInv, DispatchRecords
  PROVE  IInv'
<1>1. PICK g \in Fresh : \E c \in Fresh \ {g} :
        /\ native' = [native EXCEPT ![g] = Object("group", call.passes, {}),
                                    ![c] = Object("cmd", call.uses \cup {g}, {})]
        /\ held' = Put(held, {g, c}, "call")
        /\ call' = [call EXCEPT !.pc = "submit", !.passes = {c}, !.uses = @ \cup {g}]
  BY DEF DispatchRecords
<1>2. PICK c \in Fresh \ {g} :
        /\ native' = [native EXCEPT ![g] = Object("group", call.passes, {}),
                                    ![c] = Object("cmd", call.uses \cup {g}, {})]
        /\ held' = Put(held, {g, c}, "call")
        /\ call' = [call EXCEPT !.pc = "submit", !.passes = {c}, !.uses = @ \cup {g}]
  BY <1>1
<1>3. /\ call.passes \in SUBSET Objs /\ call.uses \cup {g} \in SUBSET Objs /\ c \in Objs
      /\ call.api = "GPU.dispatch" /\ call.pc = "bind" /\ c \notin call.uses
  <2>1. g \in Objs /\ c \in Objs /\ c \notin call.uses
    BY DEF Fresh, Referred
  <2>2. call.passes \in SUBSET Objs /\ call.uses \in SUBSET Objs
    BY DEF IInv, OthersTyped
  <2>3. call.pc = "bind" /\ call.api = "GPU.dispatch"
    BY DEF IInv, CallInv, DispatchRecords
  <2>. QED BY <2>1, <2>2, <2>3
<1>4. /\ Balanced(native', held') /\ FrameInv'
      /\ \A o \in Objs : held'[o]["program"] = held[o]["program"]
      /\ At("call") \cup {g, c} \subseteq At("call")'
  BY <1>2, <1>3, LocalsMade
<1>5. /\ call'.api = "GPU.dispatch" /\ call'.pc = "submit" /\ call'.passes = {c}
      /\ call'.uses = call.uses \cup {g} /\ call' \in [api : {"none", "Session.submit", "GPU.dispatch", "GPU.read"},
               pc : {"none", "bind", "submit", "poll"},
               passes : SUBSET Objs, uses : SUBSET Objs]
  BY <1>2, <1>3 DEF IInv, OthersTyped
<1>6. OthersTyped'
  BY <1>5 DEF DispatchRecords, IInv, OthersTyped
<1>7. CanSubmit'
  BY <1>3 DEF DispatchRecords, CanSubmit, IInv, CallInv
<1>8. CallerPins => call'.uses \subseteq At("program")' \cup At("call")'
  <2>1. At("program")' = At("program")
    BY <1>4 DEF At
  <2>2. CallerPins => call.uses \subseteq At("program") \cup At("call")
    BY <1>3 DEF IInv, CallInv
  <2>. QED BY <1>4, <1>5, <2>1, <2>2
<1>9. call'.passes \subseteq At("call")' /\ call'.passes \cap call'.uses = {}
  BY <1>3, <1>4, <1>5
<1>10. CallInv'
  BY <1>5, <1>7, <1>8, <1>9 DEF CallInv, InFacade
<1>. QED BY <1>4, <1>6, <1>10 DEF IInv

LEMMA ReadCallKeeps ==
  ASSUME IInv, NEW b \in Objs, ReadCall(b)
  PROVE  IInv'
<1>1. PICK s \in Fresh : \E c \in Fresh \ {s} :
        /\ native' = [native EXCEPT ![s] = Object("buffer", {}, {}),
                                    ![c] = Object("cmd", {b, s}, {})]
        /\ held' = Put(held, {s, c}, "call")
        /\ call' = [api |-> "GPU.read", pc |-> "submit", passes |-> {c}, uses |-> {b, s}]
  BY DEF ReadCall
<1>2. PICK c \in Fresh \ {s} :
        /\ native' = [native EXCEPT ![s] = Object("buffer", {}, {}),
                                    ![c] = Object("cmd", {b, s}, {})]
        /\ held' = Put(held, {s, c}, "call")
        /\ call' = [api |-> "GPU.read", pc |-> "submit", passes |-> {c}, uses |-> {b, s}]
  BY <1>1
<1>3. held[b]["program"] > 0 /\ native[b].refs > 0
  BY MineIsHeld DEF ReadCall
<1>4. c \in Objs /\ s \in Objs /\ c # b /\ {b, s} \in SUBSET Objs
  BY <1>3, FreshIsFree
<1>5. /\ Balanced(native', held') /\ FrameInv'
      /\ \A o \in Objs : held'[o]["program"] = held[o]["program"]
      /\ At("call") \cup {s, c} \subseteq At("call")'
  BY <1>2, <1>4, LocalsMade
<1>6. OthersTyped'
  BY <1>2, <1>4 DEF ReadCall, IInv, OthersTyped
<1>7. b \in At("program")'
  BY <1>3, <1>5 DEF At
<1>8. CallInv'
  BY <1>2, <1>4, <1>5, <1>7 DEF ReadCall, CallInv, InFacade, CanSubmit
<1>. QED BY <1>5, <1>6, <1>8 DEF IInv

LEMMA FacadeSubmitsKeeps ==
  ASSUME IInv, FacadeSubmits
  PROVE  IInv'
<1>1. /\ call.passes \in SUBSET Objs /\ call.passes \cap call.uses = {}
      /\ \A o \in call.passes : held[o]["call"] > 0
      /\ CanSubmit /\ call.pc = "submit" /\ call.api \in {"GPU.dispatch", "GPU.read"}
  BY DEF FacadeSubmits, InFacade, IInv, CallInv, OthersTyped, At
<1>2. \A o \in call.passes : held[o]["call"] > 0 /\ native[o].kind # "fpass"
  <2>1. \A o \in Objs : native[o].kind = "fpass" => held[o]["call"] = 0
    BY DEF IInv, Balanced, Agree
  <2>. QED BY <1>1, <2>1
<1>3. Balanced(native', held')
  BY <1>1, <1>2, ReleasedAgrees DEF FacadeSubmits, IInv, Places
<1>4. Calm(native, held, native', held')
  BY <1>1, <1>2, ReleasedCalm DEF FacadeSubmits, IInv
<1>5. OthersTyped'
  <2>1. (UNION {native[c].uses : c \in call.passes}) \in SUBSET Objs
    BY <1>1, UsesAreObjects
  <2>2. flight' \in Seq(SUBSET Objs) /\ Len(flight') <= MaxFlight
    BY <1>1, <2>1, Submitted DEF FacadeSubmits, IInv
  <2>. QED BY <2>2 DEF FacadeSubmits, IInv, OthersTyped
<1>6. CallInv'
  <2>1. \A o \in Objs \ call.passes : held'[o] = held[o]
    BY DEF FacadeSubmits, Take
  <2>2. \A o \in Objs : held'[o]["program"] = held[o]["program"]
    <3>1. \A o \in Objs : held[o] \in [Places -> Nat]
      BY DEF IInv, Balanced, Agree
    <3>. QED BY <3>1 DEF FacadeSubmits, Take, Places
  <2>3. CallerPins => call.uses \subseteq At("program") \cup At("call")
    BY <1>1 DEF IInv, CallInv
  <2>4. CallerPins => call.uses \subseteq At("program")' \cup At("call")'
    BY <1>1, <2>1, <2>2, <2>3 DEF At
  <2>5. /\ call'.api = call.api /\ call'.pc = "poll" /\ call'.passes = {}
        /\ call'.uses = call.uses
    BY DEF FacadeSubmits, IInv, OthersTyped
  <2>. QED BY <1>1, <2>4, <2>5 DEF CallInv, InFacade
<1>. QED BY <1>3, <1>4, <1>5, <1>6, CalmKeeps DEF IInv

LEMMA FacadeReturnsKeeps ==
  ASSUME IInv, FacadeReturns
  PROVE  IInv'
<1>1. \A o \in At("call") : held[o]["call"] > 0 /\ native[o].kind # "fpass"
  BY DEF At, IInv, Balanced, Agree
<1>2. At("call") \in SUBSET Objs
  BY DEF At
<1>3. Balanced(native', held')
  BY <1>1, <1>2, ReleasedAgrees DEF FacadeReturns, IInv, Places
<1>4. Calm(native, held, native', held')
  BY <1>1, <1>2, ReleasedCalm DEF FacadeReturns, IInv
<1>5. OthersTyped'
  BY DEF FacadeReturns, IInv, OthersTyped, NoCall
<1>6. CallInv'
  BY DEF FacadeReturns, CallInv, NoCall, InFacade
<1>. QED BY <1>3, <1>4, <1>5, <1>6, CalmKeeps DEF IInv

-----------------------------------------------------------------------------
(* The theorems *)

LEMMA InitInvariant == Init => IInv
<1>. SUFFICES ASSUME Init PROVE IInv
  OBVIOUS
<1>1. Balanced(native, held)
  <2>1. Nothing \in Counted /\ Nothing.refs = 0 /\ Nothing.into = {} /\ Nothing.kind = "none"
    BY LifetimesAssumption DEF Nothing, Counted
  <2>2. [p \in Places |-> 0] \in [Places -> Nat] /\ Wrappers([p \in Places |-> 0]) = 0
        /\ [p \in Places |-> 0]["frame"] = 0
    BY DEF Wrappers, Places
  <2>3. Agree(Nothing, [p \in Places |-> 0])
    BY <2>1, <2>2 DEF Agree
  <2>. QED BY <2>3 DEF Init, Balanced
<1>2. OthersTyped
  <2>1. <<>> \in Seq(SUBSET Objs) /\ Len(<<>>) <= MaxFlight
    BY LifetimesAssumption
  <2>2. NoCall \in [api : {"none", "Session.submit", "GPU.dispatch", "GPU.read"},
                    pc : {"none", "bind", "submit", "poll"},
                    passes : SUBSET Objs, uses : SUBSET Objs]
    BY DEF NoCall
  <2>. QED BY <2>1, <2>2 DEF Init, OthersTyped
<1>3. FrameInv
  BY DEF Init, FrameInv, NoFrame, FrameViewKept, At, Nothing, Places
<1>4. CallInv
  BY DEF Init, CallInv, NoCall, InFacade
<1>. QED BY <1>1, <1>2, <1>3, <1>4 DEF IInv

LEMMA NextInvariant == IInv /\ [Next]_vars => IInv'
<1>. SUFFICES ASSUME IInv, [Next]_vars PROVE IInv'
  OBVIOUS
<1>1. CASE Create
  BY <1>1, CreateKeeps
<1>2. CASE Encode
  BY <1>2, EncodeKeeps
<1>3. CASE SessionStep
  BY <1>3, OpenSessionKeeps, SessionEntersKeeps, FlushKeeps, DropSessionKeeps, PinKeeps,
     SessionSubmitKeeps DEF SessionStep
<1>4. CASE Facade
  BY <1>4, DispatchRecordsKeeps, FacadeSubmitsKeeps, FacadeReturnsKeeps, DispatchCallKeeps,
     ReadCallKeeps DEF Facade
<1>5. CASE GpuFinishes
  BY <1>5, GpuFinishesKeeps
<1>6. CASE \E o \in Objs : Clone(o) \/ Drop(o) \/ QueueSubmit(o)
  BY <1>6, CloneKeeps, DropKeeps, QueueSubmitKeeps
<1>7. CASE UNCHANGED vars
  <2>1. OthersTyped' /\ CallInv'
    BY <1>7 DEF vars, IInv, OthersTyped, CallInv, At, InFacade, CanSubmit
  <2>. QED BY <1>7, <2>1, StillKeeps DEF vars
<1>. QED BY <1>1, <1>2, <1>3, <1>4, <1>5, <1>6, <1>7 DEF Next

LEMMA SpecInvariant == Spec => []IInv
<1>. QED BY InitInvariant, NextInvariant, PTL DEF Spec

\* The variables keep their types: no number of clones, moves and drops takes a
\* reference count below zero or above what clone() can make of it.
THEOREM TypeCorrect == Spec => []TypeOK
BY SpecInvariant, InvariantIsTyped, PTL

\* Every reference wgpu counts belongs to one wrapper, whatever the program clones,
\* moves into a session or a pass, ends, finishes, submits or drops, and in whatever
\* order: no handle is released twice and none is left behind.
THEOREM ReferencesMatch == Spec => []RefsMatchOwners
BY SpecInvariant, InvariantBalances, PTL

\* While the program has a FrameRenderPass open, the view the pass draws into is a
\* field of it, whoever else has let go of that view.
THEOREM FrameViewIsKept == Spec => []FrameViewKept
<1>1. IInv => FrameViewKept
  BY DEF IInv, FrameInv
<1>. QED BY <1>1, SpecInvariant, PTL

\* If the caller of GPU.dispatch keeps its buffers to the end of the call, then every
\* handle a facade function has read out of a wrapper is owned when it reaches wgpu.
THEOREM FacadeOwns == ASSUME CallerPins PROVE Spec => []HandlesOwned
<1>1. IInv => HandlesOwned
  BY InvariantOwns
<1>. QED BY <1>1, SpecInvariant, PTL

\* Under the same hypothesis everything that the submission of a facade call uses is
\* owned until the GPU is idle.
THEOREM FacadeKeeps == ASSUME CallerPins PROVE Spec => []KeptUntilDone
<1>1. IInv => KeptUntilDone
  BY InvariantOwns
<1>. QED BY <1>1, SpecInvariant, PTL

=============================================================================
