--------------------------- MODULE KeyRotationProofs ---------------------------
(* Theorems of KeyRotation, for every set of operations, activations and   *)
(* rings, and whatever is pushed to the keys branch.                       *)
EXTENDS KeyRotation, OneEngineProofs

-----------------------------------------------------------------------------
(* The fold of activations.                                                *)

(* A history that only grew has the same activations up to its old end,    *)
(* and so the same selection, pin and generation at every old commit.      *)
Prolongs(h, g) == \A i \in 1..Len(h) : g[i] = h[i]

LEMMA SameFold ==
  ASSUME NEW h, NEW g, Len(h) \in Nat, Prolongs(h, g), NEW e \in 0..Len(h)
  PROVE  /\ Activations(g, e) = Activations(h, e)
         /\ KidsAt(g, e) = KidsAt(h, e)
         /\ PinnedAt(g, e) = PinnedAt(h, e)
         /\ GenerationAt(g, e) = GenerationAt(h, e)
         /\ EverSelected(g, e) = EverSelected(h, e)
<1>1. \A i \in 1..e : g[i] = h[i]
  BY DEF Prolongs
<1>2. Activations(g, e) = Activations(h, e)
  BY <1>1 DEF Activations
<1>3. \A i \in Activations(h, e) : g[i] = h[i]
  BY <1>1 DEF Activations
<1>4. ASSUME Activations(h, e) # {}
      PROVE  Max(Activations(h, e)) \in Activations(h, e)
  <2>1. Activations(h, e) \subseteq 0..e
    BY DEF Activations
  <2> QED BY <1>4, <2>1, MaxChosen
<1>5. EverSelected(g, e) = EverSelected(h, e)
  BY <1>2, <1>3 DEF EverSelected
<1> QED BY <1>2, <1>3, <1>4, <1>5 DEF KidsAt, PinnedAt, GenerationAt

(* What an activation must satisfy does not depend on what follows it.     *)
LEMMA SameDemand ==
  ASSUME NEW h, NEW g, Len(h) \in Nat, Prolongs(h, g), NEW i \in 1..Len(h), NEW k
  PROVE  ActivationHolds(g, i, k) <=> ActivationHolds(h, i, k)
<1>1. g[i] = h[i]
  BY DEF Prolongs
<1>2. i - 1 \in 0..Len(h) /\ i \in 0..Len(h)
  OBVIOUS
<1>3. /\ KidsAt(g, i - 1) = KidsAt(h, i - 1)
      /\ PinnedAt(g, i - 1) = PinnedAt(h, i - 1)
      /\ GenerationAt(g, i - 1) = GenerationAt(h, i - 1)
      /\ EverSelected(g, i - 1) = EverSelected(h, i - 1)
  BY <1>2, SameFold
<1>4. FreshlySelected(g, i) = FreshlySelected(h, i)
  BY <1>1, <1>3 DEF FreshlySelected
<1>5. NeverUsed(g, i, keys[k]) <=> NeverUsed(h, i, keys[k])
  BY <1>3, <1>4 DEF NeverUsed
<1>6. ActivationAdvances(g, i) <=> ActivationAdvances(h, i)
  BY <1>1, <1>3 DEF ActivationAdvances
<1> QED BY <1>1, <1>4, <1>5, <1>6 DEF ActivationHolds

(* The selection at a commit is that of an activation or of the bootstrap, *)
(* and whatever was selected once stays among what was ever selected.      *)
LEMMA SelectionIsRemembered ==
  ASSUME NEW h, NEW e \in Nat, NEW i \in 0..e, NEW cap \in Capability
  PROVE  <<cap, KidsAt(h, i)[cap]>> \in EverSelected(h, e)
<1>1. CASE Activations(h, i) = {}
  BY <1>1 DEF KidsAt, EverSelected, Selected
<1>2. CASE Activations(h, i) # {}
  <2>1. Activations(h, i) \subseteq 0..i /\ Activations(h, i) \subseteq Activations(h, e)
    BY DEF Activations
  <2>2. Max(Activations(h, i)) \in Activations(h, e)
    BY <1>2, <2>1, MaxChosen
  <2>3. <<cap, KidsAt(h, i)[cap]>> \in Selected(Activation[h[Max(Activations(h, i))]].kids)
    BY <1>2 DEF KidsAt, Selected
  <2> QED BY <2>2, <2>3 DEF EverSelected
<1> QED BY <1>1, <1>2

(* Only an activation moves the selection, to what it names.               *)
LEMMA SelectionMoves ==
  ASSUME NEW h, NEW i \in Nat, i > 0
  PROVE  IF i \in Activations(h, i)
         THEN KidsAt(h, i) = Activation[h[i]].kids /\ PinnedAt(h, i) = Activation[h[i]].candidate
         ELSE KidsAt(h, i) = KidsAt(h, i - 1) /\ PinnedAt(h, i) = PinnedAt(h, i - 1)
<1>1. CASE i \in Activations(h, i)
  <2>1. Activations(h, i) \subseteq 0..i
    BY DEF Activations
  <2>2. Max(Activations(h, i)) = i
    <3>1. /\ Max(Activations(h, i)) \in Activations(h, i)
          /\ i <= Max(Activations(h, i))
      BY <1>1, <2>1, MaxChosen
    <3> QED BY <2>1, <3>1
  <2> QED BY <1>1, <2>2 DEF KidsAt, PinnedAt
<1>2. CASE i \notin Activations(h, i)
  <2>1. Activations(h, i) = Activations(h, i - 1)
    BY <1>2 DEF Activations
  <2> QED BY <1>2, <2>1 DEF KidsAt, PinnedAt
<1> QED BY <1>1, <1>2

-----------------------------------------------------------------------------
(* Histories that authenticate.                                            *)

(* Opens, but for the wrapping of the ring it is read with.                *)
Authentic(h, k) ==
  /\ KeysAreBound(keys[1], keys[k], InitialKids)
  /\ \A i \in Activations(h, Len(h)) : ActivationHolds(h, i, k)

Authenticates(h) == \E k \in 1..Len(keys) : Authentic(h, k)

RingsHold ==
  /\ keys \in Seq({FirstRing} \union PushedRing)
  /\ Len(keys) >= 2
  /\ keys[1] = FirstRing /\ keys[2] = FirstRing

(* The ring that authenticates a history holds every key it ever selected. *)
LEMMA SelectedAreHeld ==
  ASSUME NEW h, Len(h) \in Nat, NEW k, Authentic(h, k), NEW e \in 0..Len(h)
  PROVE  EverSelected(h, e) \subseteq DOMAIN keys[k].copies
<1>1. Selected(InitialKids) \subseteq DOMAIN keys[k].copies
  BY DEF Authentic, KeysAreBound
<1>2. ASSUME NEW i \in Activations(h, e)
      PROVE  Selected(Activation[h[i]].kids) \subseteq DOMAIN keys[k].copies
  <2>1. i \in Activations(h, Len(h))
    BY DEF Activations
  <2> QED BY <2>1 DEF Authentic, ActivationHolds, KeysAreBound
<1> QED BY <1>1, <1>2 DEF EverSelected

(* A later ring that still holds its keys authenticates it as well.        *)
LEMMA LaterRingAuthenticates ==
  ASSUME NEW h, Len(h) \in Nat, NEW m \in Nat, Retains(m), NEW k \in 1..m, Authentic(h, k)
  PROVE  Authentic(h, m)
<1>1. \A d \in DOMAIN keys[k].copies :
        d \in DOMAIN keys[m].copies /\ keys[m].copies[d] = keys[k].copies[d]
  BY DEF Retains
<1>2. ASSUME NEW ring, NEW kids, KeysAreBound(ring, keys[k], kids)
      PROVE  KeysAreBound(ring, keys[m], kids)
  BY <1>1, <1>2 DEF KeysAreBound, Commits, Unwrapped
<1>3. ASSUME NEW i \in Activations(h, Len(h))
      PROVE  ActivationHolds(h, i, m)
  <2>1. i \in 1..Len(h) /\ ActivationHolds(h, i, k)
    BY DEF Authentic, Activations
  <2>2. EverSelected(h, i - 1) \subseteq DOMAIN keys[k].copies
    BY <2>1, SelectedAreHeld
  <2>3. FreshlySelected(h, i) \subseteq DOMAIN keys[k].copies
    BY <2>1 DEF ActivationHolds, KeysAreBound, FreshlySelected
  <2>4. NeverUsed(h, i, keys[m])
    BY <1>1, <2>1, <2>2, <2>3 DEF ActivationHolds, NeverUsed
  <2>5. Activation[h[i]].candidate \in Nat
    BY ActivationsAreNumbered DEF Activations
  <2> QED BY <1>2, <2>1, <2>4, <2>5 DEF ActivationHolds
<1> QED BY <1>2, <1>3 DEF Authentic

(* A ring pushed later changes nothing for a history that authenticates.   *)
LEMMA PushKeepsAuthentic ==
  ASSUME RingsHold, NEW ring \in PushedRing, PushRing(ring), NEW h, Authenticates(h)
  PROVE  Authenticates(h)'
<1>1. keys' = Append(keys, ring) /\ Len(keys') = Len(keys) + 1
  BY DEF PushRing, RingsHold
<1>2. \A i \in 1..Len(keys) : keys'[i] = keys[i]
  BY <1>1 DEF RingsHold
<1>3. PICK k \in 1..Len(keys) : Authentic(h, k)
  BY DEF Authenticates
<1>4. ASSUME NEW i \in Activations(h, Len(h))
      PROVE  ActivationHolds(h, i, k)'
  <2>1. ActivationHolds(h, i, k)
    BY <1>3 DEF Authentic
  <2>2. Activation[h[i]].candidate \in 1..Len(keys)
    <3>1. Activation[h[i]].candidate \in Nat
      BY ActivationsAreNumbered DEF Activations
    <3>2. PinnedAt(h, i - 1) \in Nat
      <4>1. CASE Activations(h, i - 1) = {}
        BY <4>1 DEF PinnedAt
      <4>2. CASE Activations(h, i - 1) # {}
        <5>1. i \in Int
          BY DEF Activations
        <5>2. i - 1 \in Nat /\ Activations(h, i - 1) \subseteq 0..(i - 1)
          BY <4>2, <5>1 DEF Activations
        <5>3. Max(Activations(h, i - 1)) \in Activations(h, i - 1)
          BY <4>2, <5>2, MaxChosen
        <5> QED BY <4>2, <5>3, ActivationsAreNumbered DEF PinnedAt, Activations
      <4> QED BY <4>1, <4>2
    <3> QED BY <2>1, <3>1, <3>2 DEF ActivationHolds, ActivationAdvances
  <2> QED BY <1>2, <1>3, <2>1, <2>2 DEF ActivationHolds
<1>5. Authentic(h, k)'
  <2>1. KeysAreBound(keys[1], keys[k], InitialKids)'
    BY <1>2, <1>3 DEF Authentic, RingsHold
  <2> QED BY <1>4, <2>1 DEF Authentic
<1> QED BY <1>1, <1>3, <1>5 DEF Authenticates, RingsHold

(* An ordinary event keeps a history authentic, since only activations     *)
(* have demands.                                                           *)
LEMMA OrdinaryEventKeepsAuthentic ==
  ASSUME NEW h \in Seq(Operation), NEW op \in Operation \ DOMAIN Activation, Authenticates(h)
  PROVE  Authenticates(Append(h, op))
<1> DEFINE g == Append(h, op)
<1>1. Len(g) = Len(h) + 1 /\ g[Len(h) + 1] = op /\ Prolongs(h, g)
  BY DEF Prolongs
<1>2. Activations(g, Len(g)) \subseteq Activations(h, Len(h))
  BY <1>1 DEF Activations, Prolongs
<1>3. PICK k \in 1..Len(keys) : Authentic(h, k)
  BY DEF Authenticates
<1>4. Authentic(g, k)
  <2>1. ASSUME NEW i \in Activations(g, Len(g))
        PROVE  ActivationHolds(g, i, k)
    <3>1. i \in 1..Len(h) /\ ActivationHolds(h, i, k)
      BY <1>2, <1>3 DEF Authentic, Activations
    <3> HIDE DEF g
    <3> QED BY <1>1, <3>1, SameDemand
  <2> QED BY <1>3, <2>1 DEF Authentic
<1> QED BY <1>3, <1>4 DEF Authenticates

(* The key in use at a commit, and the bytes its ring committed to.        *)
KeyAt(cap, e) ==
  <<KidAt(cap, e), keys[PinnedAt(events, e)].bindings[<<cap, KidAt(cap, e)>>]>>

(* They are the bytes the authenticating ring holds under its name.        *)
LEMMA KeyIsTheRings ==
  ASSUME RingsHold, Len(events) \in Nat, NEW k, Authentic(events, k),
         NEW cap \in Capability, NEW e \in 0..Len(events)
  PROVE  KeyAt(cap, e) = <<KidAt(cap, e), keys[k].copies[<<cap, KidAt(cap, e)>>]>>
<1> DEFINE key == <<cap, KidAt(cap, e)>>
<1>1. CASE Activations(events, e) = {}
  <2>1. key \in Selected(InitialKids) /\ PinnedAt(events, e) = 2
    BY <1>1 DEF KidAt, KidsAt, Selected, PinnedAt
  <2>2. keys[2].bindings[key] = keys[k].copies[key]
    BY <2>1 DEF Authentic, KeysAreBound, Commits, Unwrapped, RingsHold
  <2> QED BY <2>1, <2>2 DEF KeyAt
<1>2. CASE Activations(events, e) # {}
  <2> DEFINE i == Max(Activations(events, e))
  <2>1. Activations(events, e) \subseteq 0..e
        /\ Activations(events, e) \subseteq Activations(events, Len(events))
    BY DEF Activations
  <2>2. i \in Activations(events, Len(events))
    BY <1>2, <2>1, MaxChosen
  <2>3. PinnedAt(events, e) = Activation[events[i]].candidate
    BY <1>2 DEF PinnedAt
  <2>4. key \in Selected(Activation[events[i]].kids)
    BY <1>2 DEF KidAt, KidsAt, Selected
  <2>5. KeysAreBound(keys[Activation[events[i]].candidate], keys[k], Activation[events[i]].kids)
    BY <2>2 DEF Authentic, ActivationHolds
  <2> HIDE DEF i
  <2> QED BY <2>3, <2>4, <2>5 DEF KeyAt, KeysAreBound, Commits, Unwrapped
<1> QED BY <1>1, <1>2

(* A key in use at one commit and not at an earlier one was selected in    *)
(* between, and no key selected before has its name or its bytes.          *)
LEMMA NewKeyIsNew ==
  ASSUME Len(events) \in Nat, NEW k, Authentic(events, k), NEW cap \in Capability,
         NEW i \in 0..Len(events), NEW j \in 0..Len(events), i < j,
         NEW n \in i..Len(events), n < j, KidAt(cap, n) # KidAt(cap, j)
  PROVE  /\ KidAt(cap, i) # KidAt(cap, j)
         /\ keys[k].copies[<<cap, KidAt(cap, i)>>] # keys[k].copies[<<cap, KidAt(cap, j)>>]
<1> DEFINE kid == KidAt(cap, j)
           since == {m \in (n + 1)..j : KidAt(cap, m) = kid}
           m == Min(since)
<1>1. since \subseteq Nat /\ since # {}
  OBVIOUS
<1>2. m \in since /\ \A o \in since : m <= o
  BY <1>1, MinChosen
<1>3. m \in (n + 1)..j /\ KidAt(cap, m) = kid
  BY <1>2
<1>4. KidAt(cap, m - 1) # kid
  <2>1. CASE m - 1 = n
    BY <2>1
  <2>2. CASE m - 1 # n
    <3>1. m - 1 \in (n + 1)..j
      BY <1>3, <2>2
    <3>2. m - 1 \notin since
      BY <1>2, <1>3
    <3> QED BY <3>1, <3>2
  <2> QED BY <2>1, <2>2
<1> HIDE DEF m, since
<1>5. /\ m \in Activations(events, Len(events))
      /\ KidsAt(events, m) = Activation[events[m]].kids
  BY <1>3, <1>4, SelectionMoves DEF KidAt, Activations
<1>6. <<cap, kid>> \in FreshlySelected(events, m)
  <2>1. <<cap, kid>> \in Selected(Activation[events[m]].kids)
    BY <1>3, <1>5 DEF KidAt, Selected
  <2>2. <<cap, kid>> \notin Selected(KidsAt(events, m - 1))
    BY <1>4 DEF KidAt, Selected
  <2> QED BY <2>1, <2>2 DEF FreshlySelected
<1>7. <<cap, KidAt(cap, i)>> \in EverSelected(events, m - 1)
  <2>1. m - 1 \in Nat /\ i \in 0..(m - 1)
    BY <1>3
  <2> QED BY <2>1, SelectionIsRemembered DEF KidAt
<1>8. NeverUsed(events, m, keys[k])
  BY <1>5 DEF Authentic, ActivationHolds
<1> QED BY <1>6, <1>7, <1>8 DEF NeverUsed

(* So a key that was replaced does not come back.                          *)
LEMMA AuthenticMeansRetired ==
  ASSUME RingsHold, Len(events) \in Nat, Authenticates(events)
  PROVE  RetiredKeysStayRetired
<1>1. PICK k \in 1..Len(keys) : Authentic(events, k)
  BY DEF Authenticates
<1>2. ASSUME NEW cap \in Capability, NEW i \in 0..Len(events), NEW j \in 0..Len(events),
             NEW l \in 0..Len(events), i < j, j < l, KeyAt(cap, i) # KeyAt(cap, j)
      PROVE  KeyAt(cap, i)[1] # KeyAt(cap, l)[1] /\ KeyAt(cap, i)[2] # KeyAt(cap, l)[2]
  <2>1. \A e \in 0..Len(events) :
          KeyAt(cap, e) = <<KidAt(cap, e), keys[k].copies[<<cap, KidAt(cap, e)>>]>>
    BY <1>1, KeyIsTheRings
  <2>2. KidAt(cap, i) # KidAt(cap, j)
    BY <1>2, <2>1
  <2>3. \E n \in i..Len(events) : n < l /\ KidAt(cap, n) # KidAt(cap, l)
    <3>1. i \in i..Len(events) /\ j \in i..Len(events) /\ i < l
      BY <1>2
    <3> QED BY <1>2, <2>2, <3>1
  <2>4. PICK n \in i..Len(events) : n < l /\ KidAt(cap, n) # KidAt(cap, l)
    BY <2>3
  <2>5. /\ KidAt(cap, i) # KidAt(cap, l)
        /\ keys[k].copies[<<cap, KidAt(cap, i)>>] # keys[k].copies[<<cap, KidAt(cap, l)>>]
    BY <1>1, <1>2, <2>4, NewKeyIsNew
  <2> QED BY <2>1, <2>5
<1>3. \A cap \in Capability : \A i, j, l \in 0..Len(events) :
        i < j /\ j < l /\ KeyAt(cap, i) # KeyAt(cap, j) =>
          KeyAt(cap, i)[1] # KeyAt(cap, l)[1] /\ KeyAt(cap, i)[2] # KeyAt(cap, l)[2]
  BY <1>2
<1> QED BY <1>3, Zenon DEF RetiredKeysStayRetired, KeyAt

-----------------------------------------------------------------------------
(* Every event on its way to the branch keeps the history authentic. *)

(* Neither wrapping nor time plays a part: what authenticated still does.  *)
LEMMA AuthenticatesStays ==
  ASSUME UNCHANGED keys
  PROVE  \A h : Authenticates(h) => Authenticates(h)'
<1>1. ASSUME NEW h, NEW i, NEW k, ActivationHolds(h, i, k)
      PROVE  ActivationHolds(h, i, k)'
  BY <1>1, Zenon DEF ActivationHolds
<1>2. ASSUME NEW h, NEW k, Authentic(h, k) PROVE Authentic(h, k)'
  BY <1>1, <1>2 DEF Authentic
<1> QED BY <1>2 DEF Authenticates

Extension(op) == Append(events, op)

(* An event about to be published, or given up but still on its way.       *)
Promising(w) ==
  w.pc = "publish-event" /\ w.e = Len(events) => Authenticates(Extension(CellOf(w).op))

LatePromise == \A op \in late.events : Authenticates(Extension(op))

KeysInv ==
  /\ IInv
  /\ RingsHold
  /\ Authenticates(events)
  /\ LatePromise
  /\ \A x \in Process : Promising(worker[x])

(* The ring of the install authenticates the empty history.                *)
LEMMA KeysStart == KeyedInit => KeysInv
<1> SUFFICES ASSUME KeyedInit PROVE KeysInv
  OBVIOUS
<1>1. RingsHold
  BY DEF KeyedInit, InitKeys, RingsHold
<1>2. Authenticates(events)
  <2>1. Activations(events, Len(events)) = {}
    BY DEF KeyedInit, Init, Activations
  <2>2. Authentic(events, 1)
    BY <1>1, <2>1, FirstRingIsBound DEF Authentic, RingsHold
  <2> QED BY <1>1, <2>2 DEF Authenticates, RingsHold
<1>3. LatePromise /\ \A x \in Process : Promising(worker[x])
  BY DEF KeyedInit, Init, NothingLate, LatePromise, Promising, Idle
<1> QED BY <1>1, <1>2, <1>3, InitEstablishes DEF KeyedInit, KeysInv

-----------------------------------------------------------------------------
(* A step that publishes nothing and claims nothing. *)

OperationsExtend ==
  \/ operations' = operations
  \/ \E put : operations' = Append(operations, put)

Elsewhere(x) ==
  /\ \E w : Step(x, w) /\ w.pc # "publish-event"
  /\ events' = events
  /\ late'.events = late.events
  /\ OperationsExtend

(* A process that did not move keeps its promise while its cell stays.     *)
LEMMA PromiseStays ==
  ASSUME KeysInv, UNCHANGED <<keys, events>>, OperationsExtend, NEW x \in Process,
         UNCHANGED worker[x]
  PROVE  Promising(worker[x])'
<1>1. worker[x].o \in 1..Len(operations) /\ operations \in Seq(OwnedCell)
  BY DEF KeysInv, IInv, Branches, FitsNow, Fits
<1>2. CellOf(worker[x])' = CellOf(worker[x])
  BY <1>1 DEF OperationsExtend, CellOf
<1>3. Extension(CellOf(worker[x]).op)' = Extension(CellOf(worker[x]).op)
  BY <1>2 DEF Extension
<1>4. Promising(worker[x])
  BY DEF KeysInv
<1> QED BY <1>3, <1>4, AuthenticatesStays DEF Promising

(* Nor does it when an event lands, which leaves its head behind.          *)
LEMMA PromiseLapses ==
  ASSUME KeysInv, NEW op, events' = Append(events, op), NEW x \in Process,
         UNCHANGED worker[x]
  PROVE  Promising(worker[x])'
<1>1. worker[x].e \in 0..Len(events) /\ events \in Seq(Operation)
  BY DEF KeysInv, IInv, Branches, FitsNow, Fits
<1>2. Len(events') = Len(events) + 1 /\ Len(events) \in Nat
  BY <1>1
<1> QED BY <1>1, <1>2 DEF Promising

(* Steps elsewhere keep the promises.                                      *)
LEMMA ElsewhereKeeps ==
  ASSUME KeysInv, IInv', UNCHANGED keys, NEW x \in Process, Elsewhere(x)
  PROVE  KeysInv'
<1>1. RingsHold'
  BY DEF KeysInv, RingsHold
<1>2. Authenticates(events)'
  BY AuthenticatesStays DEF KeysInv, Elsewhere
<1>3. LatePromise'
  <2>1. \A op : Extension(op)' = Extension(op)
    BY DEF Extension, Elsewhere
  <2> QED BY <2>1, AuthenticatesStays DEF KeysInv, LatePromise, Elsewhere
<1>4. ASSUME NEW y \in Process PROVE Promising(worker[y])'
  <2>1. PICK w : Step(x, w) /\ w.pc # "publish-event"
    BY DEF Elsewhere
  <2>2. worker \in [Process -> Worker]
    BY DEF KeysInv, IInv
  <2>3. CASE y = x
    BY <2>1, <2>2, <2>3 DEF Step, Promising
  <2>4. CASE y # x
    BY <2>1, <2>2, <2>4, PromiseStays DEF Step, Elsewhere
  <2> QED BY <2>3, <2>4
<1> QED BY <1>1, <1>2, <1>3, <1>4 DEF KeysInv

(* An event that keeps the history authentic may land.                     *)
LEMMA LandingKeeps ==
  ASSUME KeysInv, IInv', UNCHANGED keys, NEW op, Authenticates(Extension(op)),
         AppendEvents(op),
         \A y \in Process : UNCHANGED worker[y] \/ worker'[y].pc # "publish-event"
  PROVE  KeysInv'
<1>1. RingsHold'
  BY DEF KeysInv, RingsHold
<1>2. Authenticates(events)'
  BY AuthenticatesStays DEF Extension, AppendEvents
<1>3. LatePromise'
  BY DEF KeysInv, IInv, Branches, LateFits, LateWrites, LatePromise, AppendEvents
<1>4. ASSUME NEW y \in Process PROVE Promising(worker[y])'
  <2>1. CASE UNCHANGED worker[y]
    BY <2>1, PromiseLapses DEF AppendEvents
  <2>2. CASE worker'[y].pc # "publish-event"
    BY <2>2 DEF Promising
  <2> QED BY <2>1, <2>2
<1> QED BY <1>1, <1>2, <1>3, <1>4 DEF KeysInv

(* The ways a process writes elsewhere. *)
LEMMA WritesElsewhere ==
  ASSUME IInv, NEW x \in Process
  PROVE  /\ \A w : Continue(x, w) /\ w.pc # "publish-event" => Elsewhere(x)
         /\ Stop(x) => Elsewhere(x)
         /\ \A put, w, onFailure :
              /\ WriteOperations(x, put, w, onFailure)
              /\ w.pc # "publish-event"
              /\ \A v \in onFailure : v.pc # "publish-event"
              => Elsewhere(x)
         /\ \A put, w :
              /\ WriteCoverage(x, put, w) \/ WriteDerived(x, put, w)
              /\ w.pc # "publish-event"
              => Elsewhere(x)
<1>1. late \in LateWrites
  BY DEF IInv, Branches, LateFits
<1>2. \A S : /\ [late EXCEPT !.operations = S].events = late.events
             /\ [late EXCEPT !.coverage = S].events = late.events
             /\ [late EXCEPT !.derived = S].events = late.events
  BY <1>1 DEF LateWrites
<1>3. Idle.pc # "publish-event"
  BY DEF Idle
<1>4. ASSUME NEW w, Continue(x, w), w.pc # "publish-event" PROVE Elsewhere(x)
  BY <1>4 DEF Continue, Elsewhere, OperationsExtend, branches
<1>5. ASSUME NEW isHead, NEW lost, NEW onFailure, LoseOrRefuse(x, isHead, lost, onFailure),
             lost.events = late.events, \A v \in onFailure : v.pc # "publish-event"
      PROVE  Elsewhere(x)
  BY <1>5 DEF LoseOrRefuse, Elsewhere, OperationsExtend, branches
<1>6. ASSUME NEW put, NEW w, NEW onFailure, WriteOperations(x, put, w, onFailure),
             w.pc # "publish-event", \A v \in onFailure : v.pc # "publish-event"
      PROVE  Elsewhere(x)
  <2>1. CASE AppendOperations(put) /\ Step(x, w)
    BY <1>2, <1>6, <2>1 DEF AppendOperations, Elsewhere, OperationsExtend
  <2> QED BY <1>2, <1>5, <1>6, <2>1 DEF WriteOperations
<1>7. ASSUME NEW put, NEW w, WriteCoverage(x, put, w), w.pc # "publish-event"
      PROVE  Elsewhere(x)
  <2>1. CASE AppendCoverage(put) /\ Step(x, w)
    BY <1>2, <1>7, <2>1 DEF AppendCoverage, Elsewhere, OperationsExtend
  <2>2. CASE LoseOrRefuse(x, Len(coverage) = worker[x].c,
               [late EXCEPT !.coverage = @ \union {put}], {Idle})
    BY <1>2, <1>3, <2>2 DEF LoseOrRefuse, Elsewhere, OperationsExtend, branches
  <2> QED BY <1>7, <2>1, <2>2 DEF WriteCoverage
<1>8. ASSUME NEW put, NEW w, WriteDerived(x, put, w), w.pc # "publish-event"
      PROVE  Elsewhere(x)
  <2>1. CASE AppendDerived(put) /\ Step(x, w)
    BY <1>2, <1>8, <2>1 DEF AppendDerived, Elsewhere, OperationsExtend
  <2>2. CASE LoseOrRefuse(x, Len(derived) = worker[x].d,
               [late EXCEPT !.derived = @ \union {put}], {Idle})
    BY <1>2, <1>3, <2>2 DEF LoseOrRefuse, Elsewhere, OperationsExtend, branches
  <2> QED BY <1>8, <2>1, <2>2 DEF WriteDerived
<1>9. Stop(x) => Elsewhere(x)
  BY <1>3, <1>4 DEF Stop, Continue
<1> QED BY <1>4, <1>6, <1>7, <1>8, <1>9

-----------------------------------------------------------------------------
(* The steps of the engine. *)

LEMMA PlacesElsewhere ==
  ASSUME NEW w \in Worker, NEW place, place # "publish-event"
  PROVE  /\ [w EXCEPT !.pc = place].pc # "publish-event"
         /\ \A n : /\ [w EXCEPT !.pc = place, !.e = n].pc # "publish-event"
                   /\ [w EXCEPT !.pc = place, !.d = n].pc # "publish-event"
                   /\ [w EXCEPT !.pc = place, !.o = n].pc # "publish-event"
                   /\ [w EXCEPT !.pc = place, !.c = n].pc # "publish-event"
                   /\ [w EXCEPT !.pc = place, !.proof = n].pc # "publish-event"
                   /\ \A m : [w EXCEPT !.pc = place, !.c = n, !.proof = m].pc # "publish-event"
         /\ \A task : [w EXCEPT !.pc = place, !.task = task].pc # "publish-event"
BY DEF Worker

(* A new snapshot claims nothing.                                          *)
LEMMA SnapshotsElsewhere ==
  /\ Idle.pc # "publish-event"
  /\ \A task, ref : Snapshot(task, ref).pc # "publish-event"
  /\ \A w : \A v \in Retried(w) : v.pc # "publish-event"
BY DEF Idle, Snapshot, Retried

(* Reading a head, recovering and taking the guards.                       *)
LEMMA BeginsElsewhere ==
  ASSUME IInv, NEW x \in Process,
         \/ StartPrepare(x) \/ StartReconcile(x)
         \/ ReadEvents(x) \/ ReadDerived(x) \/ ReadOperations(x) \/ ReadCoverage(x)
         \/ Recover(x) \/ AppendReturns(x) \/ MissFacts(x) \/ Settle(x) \/ CheckSource(x)
  PROVE  Elsewhere(x)
<1> DEFINE w == worker[x]
<1>1. w \in Worker
  BY WhatIsRead
<1>2. StartPrepare(x) \/ StartReconcile(x) \/ AppendReturns(x) \/ MissFacts(x)
      => Elsewhere(x)
  BY SnapshotsElsewhere, WritesElsewhere
     DEF StartPrepare, StartReconcile, AppendReturns, MissFacts
<1>3. ReadEvents(x) \/ ReadDerived(x) \/ ReadOperations(x) => Elsewhere(x)
  <2>1. \A n : /\ [w EXCEPT !.pc = "derived", !.e = n].pc # "publish-event"
               /\ [w EXCEPT !.pc = "operations", !.d = n].pc # "publish-event"
               /\ [w EXCEPT !.pc = "coverage", !.o = n].pc # "publish-event"
    BY <1>1, PlacesElsewhere
  <2> QED BY <2>1, SnapshotsElsewhere, WritesElsewhere DEF ReadEvents, ReadDerived, ReadOperations
<1>4. ReadCoverage(x) => Elsewhere(x)
  <2>1. \A n : /\ [w EXCEPT !.pc = "check-complete", !.c = n].pc # "publish-event"
               /\ [w EXCEPT !.pc = "decide", !.c = n].pc # "publish-event"
    BY <1>1, PlacesElsewhere
  <2>2. [w EXCEPT !.pc = IF w.task = "refresh" THEN "check-complete" ELSE "decide",
                  !.c = Len(coverage)].pc # "publish-event"
    BY <2>1
  <2> QED BY <2>2, SnapshotsElsewhere, WritesElsewhere DEF ReadCoverage
<1>5. Recover(x) => Elsewhere(x)
  <2>1. /\ [w EXCEPT !.pc = "check-public"].pc # "publish-event"
        /\ \A n : [w EXCEPT !.pc = "check-complete", !.proof = n].pc # "publish-event"
    BY <1>1, PlacesElsewhere
  <2> QED BY <2>1, SnapshotsElsewhere, WritesElsewhere DEF Recover
<1>6. Settle(x) => Elsewhere(x)
  <2>1. [w EXCEPT !.pc = "check-public"].pc # "publish-event"
    BY <1>1, PlacesElsewhere
  <2> QED BY <2>1, SnapshotsElsewhere, WritesElsewhere DEF Settle
<1>7. CheckSource(x) => Elsewhere(x)
  <2> DEFINE place == SourceCheck[w.pc]
  <2>1. CheckSource(x) => place # "publish-event"
    BY DEF CheckSource, SourceCheck
  <2> HIDE DEF place
  <2>2. CheckSource(x) => [w EXCEPT !.pc = place].pc # "publish-event"
    BY <1>1, <2>1, PlacesElsewhere
  <2> QED BY <2>2, SnapshotsElsewhere, WritesElsewhere DEF CheckSource, place
<1> QED BY <1>2, <1>3, <1>4, <1>5, <1>6, <1>7

(* Writing the guards, the cell and the projections.                       *)
LEMMA GuardsElsewhere ==
  ASSUME IInv, NEW x \in Process,
         \/ AcquireFence(x) \/ OpenMarker(x) \/ CloseMarker(x) \/ ReleaseFence(x)
         \/ PublishCoverage(x) \/ PublishShards(x) \/ PublishState(x)
  PROVE  Elsewhere(x)
<1> DEFINE w == worker[x]
<1>1. w \in Worker
  BY WhatIsRead
<1>2. AcquireFence(x) => Elsewhere(x)
  <2>1. /\ [w EXCEPT !.pc = "open-marker"].pc # "publish-event"
        /\ \A n : [w EXCEPT !.pc = "open-marker", !.c = n].pc # "publish-event"
    BY <1>1, PlacesElsewhere
  <2> QED BY <2>1, WritesElsewhere DEF AcquireFence
<1>3. OpenMarker(x) => Elsewhere(x)
  BY SnapshotsElsewhere, WritesElsewhere DEF OpenMarker
<1>4. CloseMarker(x) => Elsewhere(x)
  <2> DEFINE place == IF CellOf(w).state = "appending" THEN "land" ELSE "check-release"
             next == [w EXCEPT !.pc = place]
  <2>1. place # "publish-event"
    OBVIOUS
  <2>2. /\ [w EXCEPT !.pc = "clear"].pc # "publish-event"
        /\ next.pc # "publish-event"
    BY <1>1, PlacesElsewhere, <2>1
  <2>3. \A n : [next EXCEPT !.c = n].pc # "publish-event"
    <3>1. next \in [pc : {place}, task : Tasks, e : Nat, d : Nat, o : Nat, c : Nat,
                    ref : Nat, proof : Nat]
      BY <1>1 DEF Worker
    <3> HIDE DEF next, place
    <3> QED BY <2>1, <3>1
  <2>4. CASE Continue(x, [w EXCEPT !.pc = "clear"]) \/ Stop(x) \/ Continue(x, next)
    BY <2>2, <2>4, WritesElsewhere
  <2>5. CASE WriteCoverage(x, [coverage[w.c] EXCEPT !.marker = None], [next EXCEPT !.c = w.c + 1])
    BY <2>3, <2>5, WritesElsewhere
  <2> QED BY <2>4, <2>5 DEF CloseMarker
<1>5. ReleaseFence(x) => Elsewhere(x)
  <2>1. \A n, m : [w EXCEPT !.pc = "clear", !.c = n, !.proof = m].pc # "publish-event"
    BY <1>1, PlacesElsewhere
  <2> QED BY <2>1, WritesElsewhere DEF ReleaseFence
<1>6. PublishCoverage(x) => Elsewhere(x)
  <2>1. /\ [w EXCEPT !.pc = "check-private"].pc # "publish-event"
        /\ \A n : [w EXCEPT !.pc = "check-private", !.c = n].pc # "publish-event"
    BY <1>1, PlacesElsewhere
  <2> QED BY <2>1, WritesElsewhere DEF PublishCoverage
<1>7. \A v \in Worker : Published(v).pc # "publish-event"
  BY PlacesElsewhere, SnapshotsElsewhere DEF Published
<1>8. PublishShards(x) => Elsewhere(x)
  <2>1. \A n : [w EXCEPT !.pc = "check-state", !.d = n].pc # "publish-event"
    BY <1>1, PlacesElsewhere
  <2> QED BY <1>1, <1>7, <2>1, WritesElsewhere DEF PublishShards
<1>9. PublishState(x) => Elsewhere(x)
  <2>1. [w EXCEPT !.d = w.d + 1] \in Worker
    BY <1>1 DEF Worker
  <2> QED BY <1>7, <2>1, WritesElsewhere DEF PublishState
<1> QED BY <1>2, <1>3, <1>4, <1>5, <1>6, <1>8, <1>9

LEMMA CellElsewhere ==
  ASSUME IInv, NEW x \in Process,
         \/ Prepare(x) \/ DiscoverLanded(x) \/ FindConflict(x) \/ FindInapplicable(x)
         \/ TerminateLanded(x) \/ Clear(x)
  PROVE  Elsewhere(x)
<1> DEFINE w == worker[x]
           settle == Snapshot("settle", 0)
<1>1. w \in Worker
  BY WhatIsRead
<1>2. ASSUME NEW put, NEW onFailure, WriteOperations(x, put, settle, onFailure),
             onFailure = {Idle} \/ onFailure = Retried(w)
      PROVE  Elsewhere(x)
  <2>1. settle.pc # "publish-event"
        /\ \A v \in onFailure : v.pc # "publish-event"
    BY <1>2, SnapshotsElsewhere
  <2> HIDE DEF settle
  <2> QED BY <1>2, <2>1, WritesElsewhere
<1>3. Prepare(x) => Elsewhere(x)
  BY SnapshotsElsewhere, WritesElsewhere DEF Prepare
<1>4. DiscoverLanded(x) => Elsewhere(x)
  BY <1>2, SnapshotsElsewhere, WritesElsewhere DEF DiscoverLanded, ClaimAt
<1>5. FindConflict(x) \/ FindInapplicable(x) => Elsewhere(x)
  BY <1>2, WritesElsewhere DEF FindConflict, FindInapplicable, TerminateAbsent
<1>6. TerminateLanded(x) => Elsewhere(x)
  <2> DEFINE next == [w EXCEPT !.pc = "check-release", !.o = w.o + 1]
             put == TerminalCell(CellOf(w), "landed", w.e, FirstTaken(CellOf(w).op, w.e))
  <2>1. next.pc # "publish-event" /\ \A v \in {Idle} : v.pc # "publish-event"
    BY <1>1, PlacesElsewhere, SnapshotsElsewhere
  <2>2. TerminateLanded(x) => WriteOperations(x, put, next, {Idle}) \/ Stop(x)
    BY DEF TerminateLanded
  <2> HIDE DEF next, put
  <2> QED BY <2>1, <2>2, WritesElsewhere
<1>7. Clear(x) => Elsewhere(x)
  BY SnapshotsElsewhere, WritesElsewhere DEF Clear
<1> QED BY <1>3, <1>4, <1>5, <1>6, <1>7

(* A crash writes nothing.                                                 *)
LEMMA CrashElsewhere ==
  ASSUME NEW x \in Process, Crash(x)
  PROVE  Elsewhere(x)
BY SnapshotsElsewhere DEF Crash, Elsewhere, OperationsExtend, branches

-----------------------------------------------------------------------------
(* The steps that keep or carry a promise. *)

(* The claim is the promise: the history with the event at its end has     *)
(* just been opened, or the process turns back for evidence.               *)
LEMMA ClaimKeepsKeys ==
  ASSUME KeysInv, IInv', UNCHANGED keys, NEW x \in Process, ClaimAppend(x), Proceed(x)
  PROVE  KeysInv'
<1> DEFINE w == worker[x]
           op == CellOf(w).op
           put == Claimed(CellOf(w), w.e)
           held == [w EXCEPT !.pc = "publish-event"]
           written == [w EXCEPT !.pc = "publish-event", !.o = w.o + 1]
<1>1. /\ w \in Worker /\ CellOf(w) \in Cell /\ worker \in [Process -> Worker]
      /\ w.o \in 1..Len(operations) /\ operations \in Seq(OwnedCell)
      /\ w.e \in 0..Len(events) /\ events \in Seq(Operation)
  BY WhatIsRead DEF KeysInv, IInv, Branches, FitsNow, Fits
<1>2. CASE Elsewhere(x)
  BY <1>2, ElsewhereKeeps
<1>3. CASE ~ Elsewhere(x)
  <2>1. ~ MissFacts(x)
    BY <1>3, BeginsElsewhere DEF KeysInv
  <2>2. ProspectOpens(x)
    BY <2>1 DEF Proceed, ClaimAppend
  <2>3. w.e = Len(events) => Authenticates(Extension(op))
    <3>1. ASSUME w.e = Len(events) PROVE SubSeq(events, 1, w.e) = events
      BY <1>1, <3>1
    <3>2. Len(keys) \in 1..Len(keys)
      BY DEF KeysInv, RingsHold
    <3> QED BY <2>2, <3>1, <3>2 DEF ProspectOpens, Opens, Authentic, Authenticates, Extension
  <2>4. /\ events' = events
        /\ late'.events = late.events
        /\ OperationsExtend
        /\ \/ Step(x, held) /\ operations' = operations
           \/ Step(x, written) /\ Len(operations) = w.o /\ operations' = Append(operations, put)
    <3> HIDE DEF held, written, put
    <3>1. CASE Continue(x, held)
      BY <3>1 DEF Continue, branches, OperationsExtend
    <3>2. CASE WriteOperations(x, put, written, Retried(w))
      <4>1. CASE /\ Len(operations) = w.o
                 /\ AppendOperations(put)
                 /\ Step(x, written)
                 /\ UNCHANGED faults
        <5>1. late'.events = late.events
          BY <4>1 DEF AppendOperations, KeysInv, IInv, Branches, LateFits, LateWrites
        <5> QED BY <4>1, <5>1 DEF AppendOperations, OperationsExtend
      <4>2. CASE LoseOrRefuse(x, Len(operations) = w.o,
                   [late EXCEPT !.operations = @ \union {put}], Retried(w))
        <5>1. [late EXCEPT !.operations = @ \union {put}].events = late.events
          BY DEF KeysInv, IInv, Branches, LateFits, LateWrites
        <5>2. Elsewhere(x)
          BY <4>2, <5>1, SnapshotsElsewhere DEF LoseOrRefuse, Elsewhere, OperationsExtend, branches
        <5> QED BY <1>3, <5>2
      <4> QED BY <3>2, <4>1, <4>2 DEF WriteOperations
    <3>3. CASE Stop(x)
      BY <1>3, <3>3, WritesElsewhere DEF KeysInv
    <3> QED BY <3>1, <3>2, <3>3 DEF ClaimAppend, ClaimAt, held, written, put
  <2>5. RingsHold'
    BY DEF KeysInv, RingsHold
  <2>6. Authenticates(events)'
    BY <2>4, AuthenticatesStays DEF KeysInv
  <2>7. LatePromise'
    <3>1. \A o : Extension(o)' = Extension(o)
      BY <2>4 DEF Extension
    <3> QED BY <2>4, <3>1, AuthenticatesStays DEF KeysInv, LatePromise
  <2>8. Promising(worker[x])'
    <3>1. worker'[x].e = w.e /\ CellOf(worker[x])'.op = op
      <4>1. CASE Step(x, held) /\ operations' = operations
        <5>1. worker'[x] = held /\ held.e = w.e /\ held.o = w.o
          BY <1>1, <4>1 DEF Step, Worker
        <5> HIDE DEF held
        <5> QED BY <4>1, <5>1 DEF CellOf
      <4>2. CASE Step(x, written) /\ Len(operations) = w.o /\ operations' = Append(operations, put)
        <5>1. worker'[x] = written /\ written.e = w.e /\ written.o = w.o + 1
          BY <1>1, <4>2 DEF Step, Worker
        <5>2. put.op = op
          BY <1>1 DEF Claimed, Cell
        <5>3. operations'[w.o + 1] = put
          <6> HIDE DEF put
          <6> QED BY <1>1, <4>2
        <5> HIDE DEF written, put
        <5> QED BY <5>1, <5>2, <5>3 DEF CellOf
      <4> QED BY <2>4, <4>1, <4>2
    <3>2. Extension(CellOf(worker[x]).op)' = Extension(op)
      BY <2>4, <3>1 DEF Extension
    <3> QED BY <2>3, <2>4, <3>1, <3>2, AuthenticatesStays DEF Promising
  <2>9. ASSUME NEW y \in Process, y # x PROVE Promising(worker[y])'
    <3>1. UNCHANGED worker[y]
      BY <1>1, <2>4, <2>9 DEF Step
    <3> QED BY <2>4, <3>1, PromiseStays
  <2> QED BY <2>5, <2>6, <2>7, <2>8, <2>9 DEF KeysInv
<1> QED BY <1>2, <1>3

(* The publication writes the very event the process claimed.              *)
LEMMA PublicationKeepsKeys ==
  ASSUME KeysInv, IInv', UNCHANGED keys, NEW x \in Process, UpdateEvents(x)
  PROVE  KeysInv'
<1> DEFINE w == worker[x]
           op == CellOf(w).op
           settle == Snapshot("settle", 0)
<1>1. worker \in [Process -> Worker] /\ late \in LateWrites
  BY DEF KeysInv, IInv, Branches, LateFits
<1>2. w.e = Len(events) => Authenticates(Extension(op))
  BY DEF KeysInv, Promising, UpdateEvents
<1>3. CASE Len(events) = w.e /\ AppendEvents(op) /\ Step(x, settle)
  <2>1. \A y \in Process : UNCHANGED worker[y] \/ worker'[y].pc # "publish-event"
    <3>1. settle.pc # "publish-event"
      BY SnapshotsElsewhere
    <3> HIDE DEF settle
    <3> QED BY <1>1, <1>3, <3>1 DEF Step
  <2> HIDE DEF op
  <2> QED BY <1>2, <1>3, <2>1, LandingKeeps
<1>4. CASE LoseOrRefuse(x, Len(events) = w.e, [late EXCEPT !.events = @ \union {op}], Retried(w))
  <2>1. PICK v \in Retried(w) : Step(x, v)
    BY <1>4 DEF LoseOrRefuse
  <2>2. UNCHANGED branches
    BY <1>4 DEF LoseOrRefuse
  <2>3. RingsHold'
    BY DEF KeysInv, RingsHold
  <2>4. Authenticates(events)'
    BY <2>2, AuthenticatesStays DEF KeysInv, branches
  <2>5. LatePromise'
    <3>1. \A o : Extension(o)' = Extension(o)
      BY <2>2 DEF Extension, branches
    <3>2. \A o \in late'.events : o \in late.events \/ (o = op /\ w.e = Len(events))
      <4> DEFINE lost == [late EXCEPT !.events = @ \union {op}]
      <4>1. lost.events = late.events \union {op}
        BY <1>1 DEF LateWrites
      <4>2. late' = late \/ (Len(events) = w.e /\ late' = lost)
        BY <1>4 DEF LoseOrRefuse
      <4> HIDE DEF lost, op
      <4> QED BY <4>1, <4>2
    <3>3. \A o \in late'.events : Authenticates(Extension(o))
      BY <1>2, <3>2 DEF KeysInv, LatePromise
    <3> QED BY <3>1, <3>3, AuthenticatesStays DEF LatePromise
  <2>6. ASSUME NEW y \in Process PROVE Promising(worker[y])'
    <3>1. CASE y = x
      <4>1. v.pc # "publish-event"
        BY SnapshotsElsewhere
      <4> QED BY <1>1, <2>1, <3>1, <4>1 DEF Step, Promising
    <3>2. CASE y # x
      <4>1. UNCHANGED worker[y]
        BY <1>1, <2>1, <3>2 DEF Step
      <4> QED BY <2>2, <4>1, PromiseStays DEF OperationsExtend, branches
    <3> QED BY <3>1, <3>2
  <2> QED BY <2>3, <2>4, <2>5, <2>6 DEF KeysInv
<1> QED BY <1>3, <1>4 DEF UpdateEvents, WriteEvents

(* The environment delivers what was promised, or an ordinary event of     *)
(* another writer.                                                         *)
LEMMA EnvironmentKeepsKeys ==
  ASSUME KeysInv, IInv', UNCHANGED keys, Competitor \intersect DOMAIN Activation = {}, Environment
  PROVE  KeysInv'
<1>1. ASSUME NEW op, Authenticates(Extension(op)), AppendEvents(op), UNCHANGED worker
      PROVE  KeysInv'
  BY <1>1, LandingKeeps
<1>2. ASSUME UNCHANGED <<worker, events>>, late'.events = late.events, OperationsExtend
      PROVE  KeysInv'
  <2>1. RingsHold'
    BY DEF KeysInv, RingsHold
  <2>2. Authenticates(events)'
    BY <1>2, AuthenticatesStays DEF KeysInv
  <2>3. LatePromise'
    <3>1. \A o : Extension(o)' = Extension(o)
      BY <1>2 DEF Extension
    <3> QED BY <1>2, <3>1, AuthenticatesStays DEF KeysInv, LatePromise
  <2>4. \A y \in Process : Promising(worker[y])'
    BY <1>2, PromiseStays
  <2> QED BY <2>1, <2>2, <2>3, <2>4 DEF KeysInv
<1>3. late \in LateWrites
  BY DEF KeysInv, IInv, Branches, LateFits
<1>4. CASE Deliver
  <2>1. ASSUME NEW put \in late.events, AppendEvents(put), UNCHANGED worker PROVE KeysInv'
    BY <1>1, <2>1 DEF KeysInv, LatePromise
  <2>2. ASSUME NEW put, AppendOperations(put), UNCHANGED worker PROVE KeysInv'
    BY <1>2, <1>3, <2>2 DEF AppendOperations, OperationsExtend, LateWrites
  <2>3. ASSUME NEW put, AppendCoverage(put), UNCHANGED worker PROVE KeysInv'
    BY <1>2, <1>3, <2>3 DEF AppendCoverage, OperationsExtend, LateWrites
  <2>4. ASSUME NEW put, AppendDerived(put), UNCHANGED worker PROVE KeysInv'
    BY <1>2, <1>3, <2>4 DEF AppendDerived, OperationsExtend, LateWrites
  <2> QED BY <1>4, <2>1, <2>2, <2>3, <2>4 DEF Deliver
<1>5. ASSUME NEW put, AppendCoverage(put), UNCHANGED worker PROVE KeysInv'
  BY <1>2, <1>3, <1>5 DEF AppendCoverage, OperationsExtend, LateWrites
<1>6. CASE ReserveSuccess \/ ReleaseSuccess
  BY <1>5, <1>6 DEF ReserveSuccess, ReleaseSuccess
<1>7. ASSUME NEW op \in Competitor, Compete(op) PROVE KeysInv'
  <2>1. op \in Operation \ DOMAIN Activation
    BY CompetitorsAreOperations
  <2>2. Authenticates(Extension(op))
    BY <2>1, OrdinaryEventKeepsAuthentic DEF KeysInv, IInv, Branches, Extension
  <2> QED BY <1>1, <1>7, <2>2 DEF Compete
<1> QED BY <1>4, <1>6, <1>7 DEF Environment

(* Every step of the composition keeps the invariant.                      *)
LEMMA KeyedNextKeeps ==
  ASSUME Competitor \intersect DOMAIN Activation = {}, KeysInv, [KeyedNext]_allVars
  PROVE  KeysInv'
<1>1. CASE UNCHANGED allVars
  <2>1. UNCHANGED <<vars, keys>>
    BY <1>1 DEF allVars, keyed
  <2>2. IInv'
    BY <2>1, NextKeeps DEF KeysInv
  <2>3. UNCHANGED <<events, late, operations, worker>>
    BY <2>1 DEF vars
  <2>4. \A o : Extension(o)' = Extension(o)
    BY <2>3 DEF Extension
  <2>5. \A y \in Process : Promising(worker[y])'
    BY <2>1, <2>3, PromiseStays DEF OperationsExtend
  <2> QED BY <2>1, <2>2, <2>3, <2>4, <2>5, AuthenticatesStays DEF KeysInv, RingsHold, LatePromise
<1>2. ASSUME NEW x \in Process, UNCHANGED keys,
             StartPrepare(x) \/ Proceed(x) \/ Refuse(x) \/ Crash(x)
      PROVE  KeysInv'
  <2>1. IInv'
    BY <1>2, NextKeeps, StopKeeps DEF KeysInv, Proceed, Refuse, Next
  <2>2. CASE ClaimAppend(x) /\ Proceed(x)
    BY <1>2, <2>1, <2>2, ClaimKeepsKeys
  <2>3. CASE UpdateEvents(x)
    BY <1>2, <2>1, <2>3, PublicationKeepsKeys
  <2>4. CASE Elsewhere(x)
    BY <1>2, <2>1, <2>4, ElsewhereKeeps
  <2>5. Stop(x) => Elsewhere(x)
    BY WritesElsewhere DEF KeysInv
  <2>6. Prepare(x) => Elsewhere(x)
    BY CellElsewhere DEF KeysInv
  <2>7. Reconcile(x) => Elsewhere(x) \/ ClaimAppend(x) \/ UpdateEvents(x)
    BY BeginsElsewhere, GuardsElsewhere, CellElsewhere DEF KeysInv, Reconcile
  <2>8. StartPrepare(x) \/ Crash(x) => Elsewhere(x)
    BY BeginsElsewhere, CrashElsewhere DEF KeysInv
  <2> QED BY <1>2, <2>2, <2>3, <2>4, <2>5, <2>6, <2>7, <2>8 DEF Proceed, Refuse
<1>3. CASE Environment /\ UNCHANGED keys
  <2>1. IInv'
    BY <1>3, NextKeeps DEF KeysInv, Next
  <2> QED BY <1>3, <2>1, EnvironmentKeepsKeys
<1>4. ASSUME NEW ring \in PushedRing, PushRing(ring), UNCHANGED vars
      PROVE  KeysInv'
  <2>1. IInv'
    BY <1>4, NextKeeps DEF KeysInv
  <2>2. RingsHold /\ Len(keys) \in Nat
    BY DEF KeysInv, RingsHold
  <2>3. RingsHold'
    BY <1>4, <2>2 DEF PushRing, RingsHold
  <2>4. \A h : Authenticates(h) => Authenticates(h)'
    BY <1>4, <2>2, PushKeepsAuthentic
  <2>5. UNCHANGED <<events, late, operations, worker>>
    BY <1>4 DEF vars
  <2>6. Authenticates(events)'
    BY <2>4, <2>5 DEF KeysInv
  <2>7. \A o : Extension(o)' = Extension(o)
    BY <2>5 DEF Extension
  <2>8. LatePromise'
    BY <2>4, <2>5, <2>7 DEF KeysInv, LatePromise
  <2>9. ASSUME NEW y \in Process PROVE Promising(worker[y])'
    <3>1. CellOf(worker[y])' = CellOf(worker[y])
      BY <2>5 DEF CellOf
    <3>2. Extension(CellOf(worker[y]).op)' = Extension(CellOf(worker[y]).op)
      BY <2>7, <3>1 DEF Extension
    <3> QED BY <2>4, <2>5, <3>2 DEF KeysInv, Promising
  <2> QED BY <2>1, <2>3, <2>6, <2>8, <2>9 DEF KeysInv
<1> QED BY <1>1, <1>2, <1>3, <1>4 DEF KeyedNext

(* The invariant holds of every reachable state, unless another writer     *)
(* activates keys, which this code never does.                             *)
THEOREM KeysInvariant ==
  ASSUME Competitor \intersect DOMAIN Activation = {}
  PROVE  KeyedSpec => []KeysInv
<1>1. KeysInv /\ [KeyedNext]_allVars => KeysInv'
  BY KeyedNextKeeps
<1> QED BY <1>1, KeysStart, PTL DEF KeyedSpec

(* A ring that retains the keys of all before it opens the history: no     *)
(* interleaving of engines, pushed rings, lost answers and crashes lands   *)
(* an activation that open_history then refuses to authenticate.           *)
THEOREM LandedHistoryOpens ==
  ASSUME Competitor \intersect DOMAIN Activation = {}
  PROVE  KeyedSpec => []HistoryStaysOpen
<1>1. KeysInv => HistoryStaysOpen
  <2> SUFFICES ASSUME KeysInv, Retains(Len(keys)) PROVE Opens(events, Len(keys))
    BY DEF HistoryStaysOpen
  <2>1. PICK k \in 1..Len(keys) : Authentic(events, k)
    BY DEF KeysInv, Authenticates
  <2>2. Len(keys) \in Nat /\ Len(events) \in Nat
    BY DEF KeysInv, RingsHold, IInv, Branches
  <2>3. Authentic(events, Len(keys))
    BY <2>1, <2>2, LaterRingAuthenticates
  <2> QED BY <2>3 DEF Opens, Authentic, Retains
<1> QED BY <1>1, KeysInvariant, PTL

(* A key that was replaced, by its name or by its bytes, is in use again   *)
(* at no later canonical commit.                                           *)
THEOREM ReplacedKeysAreRetired ==
  ASSUME Competitor \intersect DOMAIN Activation = {}
  PROVE  KeyedSpec => []RetiredKeysStayRetired
<1>1. KeysInv => RetiredKeysStayRetired
  BY AuthenticMeansRetired DEF KeysInv, IInv, Branches
<1> QED BY <1>1, KeysInvariant, PTL

-----------------------------------------------------------------------------
(* What the guards are encrypted under, with one engine and no other       *)
(* canonical writer: the guards under the keys at the source of the        *)
(* coverage they stand with, a live cell under those at the head it was    *)
(* prepared on.                                                            *)

Alone == OneEngine /\ Competitor = {}

Top == Len(events)

(* Its event is the last canonical one, on the head the cell was prepared  *)
(* and claimed at.                                                         *)
Landing(cell) ==
  /\ cell.state = "appending" /\ Top > 0 /\ cell.op = events[Top]
  /\ cell.head = Top - 1 /\ cell.base = Top - 1

AllLand == \A cell \in Cells : Landing(cell)

Rooted(cell) == Live(cell) => cell.base = Top \/ Landing(cell)

CellsRooted ==
  /\ \A cell \in Cells : Rooted(cell)
  /\ CellNow.state = "terminal" => Rooted(operations[Len(operations) - 1])

(* Coverage lags behind one event at most, whose guards are still closed.  *)
Covering(v) == v.src = Top \/ (v.src = Top - 1 /\ v.marker # None /\ AllLand)

TipsCover == \A v \in Tips : Covering(v)

Ascends == \A i \in 1..Len(coverage) : coverage[i].src <= Tip.src

(* So does a process, unless it knows that its operation is settled.       *)
Current(w) ==
  HasE(w) => \/ w.e = Top
             \/ /\ w.e = Top - 1 /\ ~ Settled(w) /\ AllLand
                /\ \A v \in Tips : v.marker # None

AllCurrent == \A x \in Process : Current(worker[x])

BaseInv == TraceInv /\ HeadInv /\ CellsRooted /\ TipsCover /\ Ascends /\ AllCurrent

LEMMA WhatBaseSays ==
  ASSUME BaseInv
  PROVE  /\ OneInv /\ Branches /\ Facts /\ GuardsOK /\ late \in LateWrites
         /\ Tips \subseteq Coverage /\ Tip \in Tips /\ late.coverage \subseteq Tips
         /\ Cells \subseteq OwnedCell /\ CellNow \in Cells /\ late.operations \subseteq Cells
         /\ Top \in Nat
         /\ \A v \in Tips : v.src \in 0..Top
         /\ \A v \in Tips : ~ Held(v) => v.marker = None /\ CellNow.state # "appending"
         /\ worker \in [Process -> Worker]
<1>1. OneInv
  BY DEF BaseInv, HeadInv
<1>2. Branches /\ Facts /\ GuardsOK /\ worker \in [Process -> Worker]
  BY <1>1 DEF OneInv, PInv, IInv
<1>3. late \in LateWrites
  BY <1>2 DEF Branches, LateFits
<1>4. \A v \in Tips : Bound(CellNow, v)
  BY <1>2, HeadsFit DEF GuardsOK, GuardsBound
<1> QED BY <1>1, <1>2, <1>3, <1>4, HeadsFit, SourcesFit, WhatBoundSays DEF Top

(* Whoever sees a reason why no event can be landing is at the top.        *)
LEMMA AtTheTop ==
  ASSUME BaseInv, NEW x \in Process, HasE(worker[x]),
         \/ Settled(worker[x])
         \/ \E v \in Tips : v.marker = None
         \/ \E cell \in Cells : ~ Landing(cell)
  PROVE  worker[x].e = Top
BY DEF BaseInv, AllCurrent, Current, AllLand

(* ... and then the coverage does not lag either.                          *)
LEMMA NoneLags ==
  ASSUME BaseInv,
         \/ Tip.src = Top
         \/ Tip.marker = None
         \/ \E cell \in Cells : ~ Landing(cell)
  PROVE  \A v \in Tips : v.src = Top
<1>1. Tip.src = Top
  BY WhatBaseSays DEF BaseInv, TipsCover, Covering, AllLand
<1>2. \A put \in late.coverage : Between(Tip.src, put.src, Len(events))
  BY WhatBaseSays DEF Facts, LateHold, Covers
<1>3. \A put \in late.coverage : put.src = Top
  BY <1>1, <1>2, WhatBaseSays DEF Between, Top
<1> QED BY <1>1, <1>3 DEF Tips

-----------------------------------------------------------------------------
(* What a process writes: a cell prepared at its own head, or terminal at  *)
(* the top, and guards over coverage of its own head.                      *)

CellRecorded(put, e) ==
  /\ Live(put) => put.base = e
  /\ put.state = "terminal" => Live(CellNow)
  /\ Landing(put) \/ (e = Top /\ \A v \in Tips : v.src = Top)

TipRecorded(put, e) ==
  /\ put.src = e /\ Tip.src <= e
  /\ e = Top \/ (e = Top - 1 /\ put.marker # None /\ AllLand)

CellWritten(e) ==
  \/ UNCHANGED operations /\ late'.operations = late.operations
  \/ \E put \in OwnedCell :
       /\ CellRecorded(put, e)
       /\ \/ AppendOperations(put)
          \/ /\ UNCHANGED branches
             /\ late' = [late EXCEPT !.operations = @ \union {put}]

TipWritten(e) ==
  \/ UNCHANGED coverage /\ late'.coverage = late.coverage
  \/ \E put \in Coverage :
       /\ TipRecorded(put, e)
       /\ \/ AppendCoverage(put)
          \/ UNCHANGED branches /\ late' = [late EXCEPT !.coverage = @ \union {put}]

(* It goes on from its head or from the top, and knows of settlement only  *)
(* what it knew.                                                           *)
Advancing(w, v) ==
  HasE(v) => v.e = Top \/ (HasE(w) /\ v.e = w.e /\ (Settled(v) => Settled(w)))

SealStep(x) ==
  /\ CellWritten(worker[x].e) /\ TipWritten(worker[x].e)
  /\ \E v : Step(x, v) /\ v.pc # worker[x].pc /\ Advancing(worker[x], v)

(* The ways of a process again. *)
LEMMA FreshAdvances ==
  /\ \A w, v : Fresh(v) => Advancing(w, v)
  /\ Fresh(Idle) /\ Idle.pc = "idle"
  /\ \A task, ref : /\ task # "refresh" => Fresh(Snapshot(task, ref))
                    /\ Snapshot(task, ref).pc = "events"
  /\ \A w : \A v \in Retried(w) : Fresh(v) /\ v.pc \in {"idle", "events"}
BY FreshContinues DEF Fresh, Advancing, HasE, Knowing, Idle, Snapshot, Retried

LEMMA OnwardAdvances ==
  ASSUME NEW w, HasE(w), NEW v, v.e = w.e, v.task = w.task,
         v.pc \in Publishing => w.pc \in Publishing
  PROVE  Advancing(w, v)
BY DEF Advancing, Settled

LEMMA SealQuiet ==
  ASSUME NEW x \in Process, NEW v, Step(x, v), v.pc # worker[x].pc, Advancing(worker[x], v),
         UNCHANGED <<operations, coverage>>,
         late'.operations = late.operations, late'.coverage = late.coverage
  PROVE  SealStep(x)
BY DEF SealStep, CellWritten, TipWritten

LEMMA SealContinue ==
  ASSUME NEW x \in Process, NEW v, Continue(x, v), v.pc # worker[x].pc, Advancing(worker[x], v)
  PROVE  SealStep(x)
BY SealQuiet DEF Continue, branches

LEMMA SealStop ==
  ASSUME NEW x \in Process, Stop(x), worker[x].pc # "idle" PROVE SealStep(x)
BY FreshAdvances, SealQuiet DEF Stop, branches

(* The write of an event or of the private projection.                     *)
LEMMA SealElsewhere ==
  ASSUME OneInv, NEW x \in Process, NEW put, NEW v, v.pc # worker[x].pc, Advancing(worker[x], v),
         NEW onFailure, \A f \in onFailure : Fresh(f) /\ f.pc # worker[x].pc,
         worker[x].pc # "idle",
         WriteEvents(x, put, v, onFailure) \/ WriteDerived(x, put, v)
  PROVE  SealStep(x)
<1>1. late \in LateWrites
  BY DEF OneInv, PInv, IInv, Branches, LateFits
<1>2. \E f \in {v, Idle} \union onFailure : Step(x, f)
  BY DEF WriteEvents, WriteDerived, LoseOrRefuse
<1>3. /\ UNCHANGED <<operations, coverage>>
      /\ late'.operations = late.operations /\ late'.coverage = late.coverage
  BY <1>1 DEF WriteEvents, WriteDerived, LoseOrRefuse, AppendEvents, AppendDerived, branches,
              LateWrites
<1> QED BY <1>2, <1>3, FreshAdvances, SealQuiet

(* The write of the cell,                                                  *)
LEMMA SealCell ==
  ASSUME OneInv, NEW x \in Process, NEW put \in OwnedCell,
         NEW v, v.pc # worker[x].pc, Advancing(worker[x], v),
         NEW onFailure, \A f \in onFailure : Fresh(f) /\ f.pc # worker[x].pc,
         Len(operations) = worker[x].o => CellRecorded(put, worker[x].e),
         WriteOperations(x, put, v, onFailure)
  PROVE  SealStep(x)
<1>1. late \in LateWrites
  BY DEF OneInv, PInv, IInv, Branches, LateFits
<1>2. CASE Len(operations) = worker[x].o /\ AppendOperations(put) /\ Step(x, v)
  <2>1. UNCHANGED coverage /\ late'.coverage = late.coverage
    BY <1>1, <1>2 DEF AppendOperations, LateWrites
  <2> QED BY <1>2, <2>1 DEF SealStep, CellWritten, TipWritten
<1>3. CASE LoseOrRefuse(x, Len(operations) = worker[x].o,
             [late EXCEPT !.operations = @ \union {put}], onFailure)
  <2>1. PICK f \in onFailure : Step(x, f)
    BY <1>3 DEF LoseOrRefuse
  <2>2. /\ UNCHANGED branches
        /\ \/ late' = late
           \/ /\ Len(operations) = worker[x].o
              /\ late' = [late EXCEPT !.operations = @ \union {put}]
    BY <1>3 DEF LoseOrRefuse
  <2>3. UNCHANGED coverage /\ late'.coverage = late.coverage
    BY <1>1, <2>2 DEF LateWrites, branches
  <2>4. CellWritten(worker[x].e)
    BY <2>2 DEF CellWritten, branches
  <2> QED BY <2>1, <2>3, <2>4, FreshAdvances DEF SealStep, TipWritten
<1> QED BY <1>2, <1>3 DEF WriteOperations

(* ... and of the guards.                                                  *)
LEMMA SealTip ==
  ASSUME OneInv, NEW x \in Process, NEW put \in Coverage, worker[x].pc # "idle",
         NEW v, v.pc # worker[x].pc, Advancing(worker[x], v),
         Len(coverage) = worker[x].c => TipRecorded(put, worker[x].e),
         WriteCoverage(x, put, v)
  PROVE  SealStep(x)
<1>1. late \in LateWrites
  BY DEF OneInv, PInv, IInv, Branches, LateFits
<1>2. CASE Len(coverage) = worker[x].c /\ AppendCoverage(put) /\ Step(x, v)
  <2>1. UNCHANGED operations /\ late'.operations = late.operations
    BY <1>1, <1>2 DEF AppendCoverage, LateWrites
  <2> QED BY <1>2, <2>1 DEF SealStep, CellWritten, TipWritten
<1>3. CASE LoseOrRefuse(x, Len(coverage) = worker[x].c,
             [late EXCEPT !.coverage = @ \union {put}], {Idle})
  <2>1. Step(x, Idle)
    BY <1>3 DEF LoseOrRefuse
  <2>2. /\ UNCHANGED branches
        /\ \/ late' = late
           \/ /\ Len(coverage) = worker[x].c
              /\ late' = [late EXCEPT !.coverage = @ \union {put}]
    BY <1>3 DEF LoseOrRefuse
  <2>3. UNCHANGED operations /\ late'.operations = late.operations
    BY <1>1, <2>2 DEF LateWrites, branches
  <2>4. TipWritten(worker[x].e)
    BY <2>2 DEF TipWritten, branches
  <2> QED BY <2>1, <2>3, <2>4, FreshAdvances DEF SealStep, CellWritten
<1> QED BY <1>2, <1>3 DEF WriteCoverage

-----------------------------------------------------------------------------
(* Every step of the process is such a step. *)

(* The heads are read.                                                     *)
LEMMA SealReads ==
  ASSUME BaseInv, NEW x \in Process,
         \/ StartPrepare(x) \/ StartReconcile(x)
         \/ ReadEvents(x) \/ ReadDerived(x) \/ ReadOperations(x) \/ ReadCoverage(x)
  PROVE  SealStep(x)
<1> DEFINE w == worker[x]
<1>1. w \in Worker
  BY WhatBaseSays
<1>2. CASE StartPrepare(x) \/ StartReconcile(x)
  BY <1>2, FreshAdvances, SealContinue DEF StartPrepare, StartReconcile
<1>3. CASE Continue(x, Idle) /\ w.pc # "idle"
  BY <1>3, FreshAdvances, SealContinue
<1>4. CASE w.pc = "events" /\ Continue(x, [w EXCEPT !.pc = "derived", !.e = Len(events)])
  <2>1. PICK v : v = [w EXCEPT !.pc = "derived", !.e = Len(events)]
    OBVIOUS
  <2>2. v.pc = "derived" /\ v.e = Top
    BY <1>1, <2>1 DEF Worker, Top
  <2> QED BY <1>4, <2>1, <2>2, SealContinue DEF Advancing
<1>5. ASSUME NEW v, Continue(x, v), v.e = w.e, v.task = w.task, HasE(w),
             v.pc \notin Publishing, v.pc # w.pc
      PROVE  SealStep(x)
  BY <1>5, OnwardAdvances, SealContinue
<1>6. CASE w.pc = "derived" /\ Continue(x, [w EXCEPT !.pc = "operations", !.d = Len(derived)])
  <2>1. PICK v : v = [w EXCEPT !.pc = "operations", !.d = Len(derived)]
    OBVIOUS
  <2>2. v.pc = "operations" /\ v.e = w.e /\ v.task = w.task
    BY <1>1, <2>1 DEF Worker
  <2> QED BY <1>5, <1>6, <2>1, <2>2 DEF HasE, Knowing, Publishing
<1>7. CASE w.pc = "operations"
           /\ Continue(x, [w EXCEPT !.pc = "coverage", !.o = Len(operations)])
  <2>1. PICK v : v = [w EXCEPT !.pc = "coverage", !.o = Len(operations)]
    OBVIOUS
  <2>2. v.pc = "coverage" /\ v.e = w.e /\ v.task = w.task
    BY <1>1, <2>1 DEF Worker
  <2> QED BY <1>5, <1>7, <2>1, <2>2 DEF HasE, Knowing, Publishing
<1>8. CASE ReadCoverage(x) /\ ~ Continue(x, Idle)
  <2> DEFINE place == IF w.task = "refresh" THEN "check-complete" ELSE "decide"
  <2>1. place \in {"check-complete", "decide"}
    OBVIOUS
  <2> HIDE DEF place
  <2>2. PICK v : v = [w EXCEPT !.pc = place, !.c = Len(coverage)]
    OBVIOUS
  <2>3. v.pc = place /\ v.e = w.e /\ v.task = w.task
    BY <1>1, <2>2 DEF Worker
  <2>4. Continue(x, v) /\ w.pc = "coverage"
    BY <1>8, <2>2 DEF ReadCoverage, place
  <2> QED BY <1>5, <2>1, <2>3, <2>4 DEF HasE, Knowing, Publishing
<1> QED BY <1>2, <1>3, <1>4, <1>6, <1>7, <1>8 DEF ReadEvents, ReadDerived, ReadOperations, ReadCoverage

(* The steps that write nothing but go on by what is found.                *)
LEMMA SealDecides ==
  ASSUME BaseInv, NEW x \in Process,
         \/ Recover(x) \/ Settle(x) \/ CheckSource(x)
         \/ AppendReturns(x) \/ MissFacts(x)
  PROVE  SealStep(x)
<1> DEFINE w == worker[x]
<1>1. /\ w \in Worker /\ OneInv /\ Known(w) /\ Informed(w)
      /\ CellOf(w) \in OwnedCell
  BY WhatBaseSays, WhatItKnows
<1>2. ASSUME NEW v, Continue(x, v), Fresh(v), v.pc # w.pc PROVE SealStep(x)
  BY <1>2, FreshAdvances, SealContinue
<1>3. CASE AppendReturns(x) \/ MissFacts(x)
  BY <1>2, <1>3, FreshAdvances
     DEF AppendReturns, MissFacts, Applicable, Absent, MayAppend, Decides
<1>4. CASE Recover(x)
  <2>1. w.pc = "decide" /\ w.task = "recover" /\ HasE(w) /\ HasC(w)
    BY <1>4 DEF Recover, Decides, HasE, HasC, Knowing
  <2>2. CASE Continue(x, Idle) \/ Continue(x, Snapshot("begin", RecoveredReference(w)))
    BY <1>2, <2>1, <2>2, FreshAdvances
  <2>3. CASE RecoversUnderGuards(w) /\ ~ Live(CellOf(w))
             /\ Continue(x, [w EXCEPT !.pc = "check-public"])
    <3>1. PICK v : v = [w EXCEPT !.pc = "check-public"]
      OBVIOUS
    <3>2. v.pc = "check-public" /\ v.e = w.e
      BY <1>1, <3>1 DEF Worker
    <3>3. Held(coverage[w.c])
      BY <2>3 DEF RecoversUnderGuards, Live, FenceOf, Held
    <3>4. CellOf(w).state = "terminal"
      <4>1. CellOf(w).state # "idle"
        BY <2>3, <3>3 DEF RecoversUnderGuards, CrossBound, ReferenceAgrees, FenceOf, Held
      <4> QED BY <1>1, <2>3, <4>1 DEF OwnedCell, Cell, Live
    <3>5. \A c \in Cells : c = CellOf(w)
      BY <1>1, <2>1, <3>3, <3>4 DEF Known, GuardsKnown
    <3>6. CellNow \in Cells /\ ~ Landing(CellNow)
      BY <3>4, <3>5, WhatBaseSays DEF Landing
    <3>7. w.e = Top
      BY <2>1, <3>6, AtTheTop
    <3> QED BY <2>1, <2>3, <3>1, <3>2, <3>7, SealContinue DEF Advancing
  <2>4. CASE Continue(x, [w EXCEPT !.pc = "check-complete",
                                   !.proof = CHOOSE k \in ReleaseProofs(w) : TRUE])
    <3> DEFINE proof == CHOOSE k \in ReleaseProofs(w) : TRUE
    <3> HIDE DEF proof
    <3>1. PICK v : v = [w EXCEPT !.pc = "check-complete", !.proof = proof]
      OBVIOUS
    <3>2. v.pc = "check-complete" /\ v.e = w.e /\ v.task = w.task
      BY <1>1, <3>1 DEF Worker
    <3>3. Advancing(w, v)
      BY <2>1, <3>2, OnwardAdvances DEF Publishing
    <3> QED BY <2>1, <2>4, <3>1, <3>2, <3>3, SealContinue DEF proof
  <2> QED BY <1>4, <2>2, <2>3, <2>4 DEF Recover
<1>5. CASE Settle(x)
  <2>1. w.pc = "decide" /\ w.task \in {"settle", "repair"} /\ HasE(w)
    BY <1>5 DEF Settle, Decides, HasE, Knowing
  <2>2. PICK v : v = [w EXCEPT !.pc = "check-public"]
    OBVIOUS
  <2>3. v.pc = "check-public" /\ v.e = w.e /\ v.task = w.task
    BY <1>1, <2>2 DEF Worker
  <2>4. Advancing(w, v)
    BY <2>1, <2>3 DEF Advancing, Settled
  <2> QED BY <1>2, <1>5, <2>1, <2>2, <2>3, <2>4, FreshAdvances, SealContinue DEF Settle
<1>6. CASE CheckSource(x)
  <2> DEFINE place == SourceCheck[w.pc]
  <2>1. /\ w.pc \in {"check-public", "check-private", "check-state", "check-complete",
                     "check-release"}
        /\ place # w.pc /\ HasE(w)
        /\ place \in Publishing => w.pc \in Publishing
    BY <1>6 DEF CheckSource, SourceCheck, HasE, Knowing, Publishing
  <2> HIDE DEF place
  <2>2. PICK v : v = [w EXCEPT !.pc = place]
    OBVIOUS
  <2>3. v.pc = place /\ v.e = w.e /\ v.task = w.task
    BY <1>1, <2>2 DEF Worker
  <2>4. Advancing(w, v)
    BY <2>1, <2>3, OnwardAdvances
  <2>5. Continue(x, v) \/ Continue(x, Idle)
    BY <1>6, <2>2 DEF CheckSource, place
  <2> QED BY <1>2, <2>1, <2>3, <2>4, <2>5, FreshAdvances, SealContinue
<1> QED BY <1>3, <1>4, <1>5, <1>6

(* The guards are taken.                                                   *)
LEMMA SealBegins ==
  ASSUME BaseInv, NEW x \in Process, AcquireFence(x) \/ OpenMarker(x)
  PROVE  SealStep(x)
<1> DEFINE w == worker[x]
<1>1. /\ w \in Worker /\ OneInv /\ HasE(w) /\ w.pc \in {"decide", "open-marker"}
      /\ coverage[w.c] \in Coverage /\ CellOf(w) \in OwnedCell
  BY WhatBaseSays, WhatItKnows DEF AcquireFence, OpenMarker, Decides, HasE, Knowing
<1>2. CASE Stop(x)
  BY <1>1, <1>2, SealStop
<1>3. ASSUME Len(coverage) = w.c, MarkerOf(w) = None
      PROVE  w.e = Top /\ Tip = coverage[w.c] /\ Tip.src = Top
  <2>1. Tip = coverage[w.c] /\ Tip \in Tips /\ Tip.marker = None
    BY <1>1, <1>3, WhatBaseSays, AtTheHeads DEF MarkerOf
  <2>2. w.e = Top
    BY <1>1, <2>1, AtTheTop
  <2> QED BY <2>1, <2>2, NoneLags
<1>4. ASSUME NEW put \in Coverage, put.src = coverage[w.c].src, Len(coverage) = w.c,
             MarkerOf(w) = None
      PROVE  TipRecorded(put, w.e)
  <2>1. Tip.src <= w.e
    BY <1>1, <1>3, <1>4 DEF Worker
  <2> QED BY <1>3, <1>4, <2>1 DEF TipRecorded
<1>5. CASE AcquireFence(x)
  <2> DEFINE wanted == MutationFence(FenceOf(w), ReferenceAt(w.ref))
  <2>1. w.pc = "decide"
    BY <1>5 DEF AcquireFence, Decides
  <2>2. CASE Continue(x, [w EXCEPT !.pc = "open-marker"])
    <3>1. PICK v : v = [w EXCEPT !.pc = "open-marker"]
      OBVIOUS
    <3>2. v.pc = "open-marker" /\ v.e = w.e /\ v.task = w.task
      BY <1>1, <3>1 DEF Worker
    <3>3. Advancing(w, v)
      BY <1>1, <3>2, OnwardAdvances DEF Publishing
    <3> QED BY <2>1, <2>2, <3>1, <3>2, <3>3, SealContinue
  <2>3. CASE /\ CanAcquire(FenceOf(w), CellOf(w), ReferenceAt(w.ref)) /\ MarkerOf(w) = None
             /\ WriteCoverage(x, [coverage[w.c] EXCEPT !.fence = wanted],
                              [w EXCEPT !.pc = "open-marker", !.c = w.c + 1])
    <3>1. PICK put, v : /\ put = [coverage[w.c] EXCEPT !.fence = wanted]
                        /\ v = [w EXCEPT !.pc = "open-marker", !.c = w.c + 1]
      OBVIOUS
    <3>2. put \in Coverage /\ put.src = coverage[w.c].src
      BY <1>1, <2>3, <3>1 DEF CanAcquire, ReferenceAgrees, MutationFence, ReferenceAt, Reference,
            Fence, Cell, OwnedCell, Worker, Coverage, FenceOf
    <3>3. v.pc = "open-marker" /\ v.e = w.e /\ v.task = w.task
      BY <1>1, <3>1 DEF Worker
    <3>4. Advancing(w, v)
      BY <1>1, <3>3, OnwardAdvances DEF Publishing
    <3>5. Len(coverage) = w.c => TipRecorded(put, w.e)
      BY <1>4, <2>3, <3>2
    <3>6. WriteCoverage(x, put, v)
      BY <2>3, <3>1
    <3> HIDE DEF wanted
    <3> QED BY <1>1, <2>1, <3>2, <3>3, <3>4, <3>5, <3>6, SealTip
  <2> QED BY <1>2, <1>5, <2>2, <2>3 DEF AcquireFence
<1>6. CASE OpenMarker(x)
  <2>1. w.pc = "open-marker"
    BY <1>6 DEF OpenMarker
  <2>2. PICK v : v = Snapshot("append", w.ref)
    OBVIOUS
  <2>3. Advancing(w, v) /\ v.pc = "events"
    BY <2>2, FreshAdvances
  <2>4. CASE Continue(x, v)
    BY <2>1, <2>3, <2>4, SealContinue
  <2>5. CASE /\ CanOpen(CellOf(w), FenceOf(w), MarkerOf(w), ReferenceAt(w.ref))
             /\ MarkerOf(w) = None
             /\ WriteCoverage(x, [coverage[w.c] EXCEPT !.marker = FenceOf(w).op], v)
    <3>1. PICK put : put = [coverage[w.c] EXCEPT !.marker = FenceOf(w).op]
      OBVIOUS
    <3>2. put \in Coverage /\ put.src = coverage[w.c].src
      BY <1>1, <2>5, <3>1
         DEF CanOpen, MutationBound, CrossBound, ReferenceAgrees, FenceOf, Coverage, Fence,
             OwnedCell, Cell
    <3>3. Len(coverage) = w.c => TipRecorded(put, w.e)
      BY <1>4, <2>5, <3>2
    <3>4. WriteCoverage(x, put, v)
      BY <2>5, <3>1
    <3> QED BY <1>1, <2>1, <2>3, <3>2, <3>3, <3>4, SealTip
  <2> QED BY <1>2, <1>6, <2>2, <2>4, <2>5 DEF OpenMarker
<1> QED BY <1>5, <1>6

(* The projections are published.                                          *)
LEMMA SealPublishes ==
  ASSUME BaseInv, NEW x \in Process, PublishCoverage(x) \/ PublishShards(x) \/ PublishState(x)
  PROVE  SealStep(x)
<1> DEFINE w == worker[x]
<1>1. /\ w \in Worker /\ OneInv /\ HasE(w) /\ w.pc \in {"public", "private", "state"}
      /\ coverage[w.c] \in Coverage /\ Informed(w) /\ Knows(w)
  BY WhatBaseSays, WhatItKnows DEF PublishCoverage, PublishShards, PublishState, HasE, Knowing
<1>2. w.task \in {"recover", "settle", "repair"}
  BY <1>1, WhatPublishingKnows DEF Publishing
<1>3. CASE PublishCoverage(x)
  <2>1. w.pc = "public"
    BY <1>3 DEF PublishCoverage
  <2>2. CASE Continue(x, [w EXCEPT !.pc = "check-private"])
    <3>1. PICK v : v = [w EXCEPT !.pc = "check-private"]
      OBVIOUS
    <3>2. v.pc = "check-private" /\ v.e = w.e /\ v.task = w.task
      BY <1>1, <3>1 DEF Worker
    <3>3. Advancing(w, v)
      BY <1>1, <2>1, <3>2, OnwardAdvances DEF Publishing
    <3> QED BY <2>1, <2>2, <3>1, <3>2, <3>3, SealContinue
  <2>3. CASE WriteCoverage(x, [coverage[w.c] EXCEPT !.src = w.e],
                           [w EXCEPT !.pc = "check-private", !.c = w.c + 1])
    <3>1. PICK put, v : /\ put = [coverage[w.c] EXCEPT !.src = w.e]
                        /\ v = [w EXCEPT !.pc = "check-private", !.c = w.c + 1]
      OBVIOUS
    <3>2. /\ put \in Coverage /\ put.src = w.e /\ put.marker = coverage[w.c].marker
      BY <1>1, <3>1 DEF Coverage, Worker
    <3>3. v.pc = "check-private" /\ v.e = w.e /\ v.task = w.task
      BY <1>1, <3>1 DEF Worker
    <3>4. Advancing(w, v)
      BY <1>1, <2>1, <3>3, OnwardAdvances DEF Publishing
    <3>5. ASSUME Len(coverage) = w.c PROVE TipRecorded(put, w.e)
      <4>1. Tip = coverage[w.c] /\ Tip \in Tips /\ Tip.src <= w.e
        BY <1>1, <2>1, <3>5, WhatBaseSays, AtTheHeads DEF Knows
      <4>2. w.e = Top \/ (w.e = Top - 1 /\ AllLand /\ \A u \in Tips : u.marker # None)
        BY <1>1 DEF BaseInv, AllCurrent, Current
      <4> QED BY <3>2, <4>1, <4>2 DEF TipRecorded
    <3>6. WriteCoverage(x, put, v)
      BY <2>3, <3>1
    <3> QED BY <1>1, <2>1, <3>2, <3>3, <3>4, <3>5, <3>6, SealTip
  <2> QED BY <1>3, <2>2, <2>3 DEF PublishCoverage
<1>4. ASSUME NEW v, v \in Worker, v.e = w.e, v.task = w.task
      PROVE  Advancing(w, Published(v)) /\ Published(v).pc \in {"idle", "events"}
  <2>1. CASE v.task = "repair"
    BY <2>1, FreshAdvances DEF Published
  <2>2. CASE v.task # "repair"
    <3>1. PICK u : u = [v EXCEPT !.pc = "events", !.task = "refresh"]
      OBVIOUS
    <3>2. u.pc = "events" /\ u.e = w.e
      BY <1>4, <3>1 DEF Worker
    <3>3. Settled(w)
      BY <1>1, <1>2, <1>4, <2>2 DEF Settled, Publishing
    <3> QED BY <1>1, <2>2, <3>1, <3>2, <3>3 DEF Published, Advancing
  <2> QED BY <2>1, <2>2
<1>5. ASSUME NEW put, NEW v, v.pc # w.pc, Advancing(w, v), WriteDerived(x, put, v)
      PROVE  SealStep(x)
  <2>1. PICK quit : quit = {Idle} /\ \A f \in quit : Fresh(f) /\ f.pc # w.pc
    BY <1>1, FreshAdvances
  <2> QED BY <1>1, <1>5, <2>1, SealElsewhere
<1>6. CASE PublishShards(x)
  <2>1. w.pc = "private"
    BY <1>6 DEF PublishShards
  <2>2. CASE Continue(x, Published(w))
    BY <1>1, <1>4, <2>1, <2>2, SealContinue
  <2>3. CASE WriteDerived(x, [derived[w.d] EXCEPT !.sealed = FALSE],
                          [w EXCEPT !.pc = "check-state", !.d = w.d + 1])
    <3>1. PICK v : v = [w EXCEPT !.pc = "check-state", !.d = w.d + 1]
      OBVIOUS
    <3>2. v.pc = "check-state" /\ v.e = w.e /\ v.task = w.task
      BY <1>1, <3>1 DEF Worker
    <3>3. Advancing(w, v)
      BY <1>1, <2>1, <3>2, OnwardAdvances DEF Publishing
    <3> QED BY <1>5, <2>1, <2>3, <3>1, <3>2, <3>3
  <2> QED BY <1>6, <2>2, <2>3 DEF PublishShards
<1>7. CASE PublishState(x)
  <2>1. w.pc = "state"
    BY <1>7 DEF PublishState
  <2>2. PICK v : v = [w EXCEPT !.d = w.d + 1]
    OBVIOUS
  <2>3. v \in Worker /\ v.e = w.e /\ v.task = w.task
    BY <1>1, <2>2 DEF Worker
  <2>4. WriteDerived(x, [gen |-> Generation(w.e), sealed |-> TRUE], Published(v))
    BY <1>7, <2>2 DEF PublishState
  <2> QED BY <1>4, <1>5, <2>1, <2>3, <2>4
<1> QED BY <1>3, <1>6, <1>7

(* The operation is completed.                                             *)
LEMMA SealCompletes ==
  ASSUME BaseInv, NEW x \in Process, CloseMarker(x) \/ ReleaseFence(x)
  PROVE  SealStep(x)
<1> DEFINE w == worker[x]
<1>1. /\ w \in Worker /\ OneInv /\ HasE(w) /\ w.pc \in {"close", "release"}
      /\ coverage[w.c] \in Coverage /\ Informed(w)
  BY WhatBaseSays, WhatItKnows DEF CloseMarker, ReleaseFence, HasE, Knowing
<1>2. /\ w.proof = 0 => w.task = "refresh" /\ coverage[w.c].src = w.e
      /\ w.proof # 0 => \A v \in Tips : ~ Held(v)
  BY <1>1, WhatCompletingKnows DEF Completing, Refreshed
<1>3. w.proof = 0 => w.e = Top
  BY <1>1, <1>2, AtTheTop DEF Settled
<1>4. CASE Stop(x)
  BY <1>1, <1>4, SealStop
<1>5. ASSUME NEW put \in Coverage, put.src = coverage[w.c].src, Len(coverage) = w.c,
             w.proof = 0
      PROVE  TipRecorded(put, w.e)
  <2>1. Tip = coverage[w.c]
    BY <1>5, AtTheHeads
  <2> QED BY <1>1, <1>2, <1>3, <1>5, <2>1 DEF TipRecorded, Worker
<1>6. ASSUME NEW v, v.e = w.e, v.task = w.task, v.pc \notin Publishing PROVE Advancing(w, v)
  BY <1>1, <1>6, OnwardAdvances
<1>7. CASE CloseMarker(x)
  <2> DEFINE place == IF CellOf(w).state = "appending" THEN "land" ELSE "check-release"
             next == [w EXCEPT !.pc = place]
  <2>1. w.pc = "close" /\ place \in {"land", "check-release"}
    BY <1>7 DEF CloseMarker
  <2>2. PICK u, v, z : /\ u = [w EXCEPT !.pc = "clear"] /\ v = next
                       /\ z = [next EXCEPT !.c = w.c + 1]
    OBVIOUS
  <2>3. \/ w.proof # 0 /\ Continue(x, u)
        \/ Stop(x)
        \/ Continue(x, v)
        \/ w.proof = 0 /\ WriteCoverage(x, [coverage[w.c] EXCEPT !.marker = None], z)
    BY <1>7, <2>2 DEF CloseMarker
  <2> HIDE DEF place
  <2>4. /\ u.pc = "clear" /\ u.e = w.e /\ u.task = w.task
        /\ v.pc = place /\ v.e = w.e /\ v.task = w.task
    BY <1>1, <2>2 DEF Worker
  <2>5. z.pc = place /\ z.e = w.e /\ z.task = w.task
    BY <1>1, <2>2 DEF Worker
  <2>6. CASE Continue(x, u) \/ Continue(x, v)
    BY <1>6, <2>1, <2>4, <2>6, SealContinue DEF Publishing
  <2>7. CASE w.proof = 0 /\ WriteCoverage(x, [coverage[w.c] EXCEPT !.marker = None], z)
    <3>1. PICK put : put = [coverage[w.c] EXCEPT !.marker = None]
      OBVIOUS
    <3>2. put \in Coverage /\ put.src = coverage[w.c].src
      BY <1>1, <3>1 DEF Coverage
    <3>3. Advancing(w, z)
      BY <1>6, <2>1, <2>5 DEF Publishing
    <3> QED BY <1>1, <1>5, <2>1, <2>5, <2>7, <3>1, <3>2, <3>3, SealTip
  <2> QED BY <1>4, <2>3, <2>6, <2>7
<1>8. CASE ReleaseFence(x) /\ ~ Stop(x)
  <2>1. PICK put, v : /\ put = [coverage[w.c] EXCEPT !.fence = Released(FenceOf(w))]
                      /\ v = [w EXCEPT !.pc = "clear", !.c = w.c + 1, !.proof = w.c]
    OBVIOUS
  <2>2. /\ w.pc = "release" /\ Held(coverage[w.c]) /\ WriteCoverage(x, put, v)
    BY <1>8, <2>1 DEF ReleaseFence, CanRelease, FenceOf, Held
  <2>3. put \in Coverage /\ put.src = coverage[w.c].src
    BY <1>1, <2>1 DEF Coverage, Released, IdleFence, Fence, FenceOf
  <2>4. v.pc = "clear" /\ v.e = w.e /\ v.task = w.task
    BY <1>1, <2>1 DEF Worker
  <2>5. Len(coverage) = w.c => w.proof = 0
    BY <1>2, <2>2, WhatBaseSays, AtTheHeads
  <2>6. Advancing(w, v)
    BY <1>6, <2>4 DEF Publishing
  <2>7. Len(coverage) = w.c => TipRecorded(put, w.e)
    BY <1>5, <2>3, <2>5
  <2> QED BY <1>1, <2>2, <2>3, <2>4, <2>6, <2>7, SealTip
<1> QED BY <1>4, <1>7, <1>8

(* What the write of a cell must satisfy besides, when it is not landing.  *)
LEMMA SealOverCell ==
  ASSUME BaseInv, NEW x \in Process, HasE(worker[x]), worker[x].pc # "idle",
         NEW put \in OwnedCell, NEW v, v.pc # worker[x].pc, Advancing(worker[x], v),
         NEW onFailure, \A f \in onFailure : Fresh(f) /\ f.pc # worker[x].pc,
         Len(operations) = worker[x].o =>
           /\ ~ Landing(CellNow)
           /\ put.state = "terminal" => Live(CellNow)
           /\ Live(put) => put.base = Top,
         WriteOperations(x, put, v, onFailure)
  PROVE  SealStep(x)
<1>1. OneInv /\ CellNow \in Cells
  BY WhatBaseSays
<1>2. ASSUME Len(operations) = worker[x].o PROVE CellRecorded(put, worker[x].e)
  <2>1. worker[x].e = Top
    BY <1>1, <1>2, AtTheTop
  <2>2. \A u \in Tips : u.src = Top
    BY <1>1, <1>2, NoneLags
  <2> QED BY <1>2, <2>1, <2>2 DEF CellRecorded
<1> QED BY <1>1, <1>2, SealCell

LEMMA SealPrepares ==
  ASSUME BaseInv, NEW x \in Process, Prepare(x) \/ Clear(x)
  PROVE  SealStep(x)
<1> DEFINE w == worker[x]
<1>1. /\ w \in Worker /\ HasE(w) /\ w.pc \in {"decide", "clear"} /\ Informed(w)
  BY WhatBaseSays, WhatItKnows DEF Prepare, Clear, Decides, HasE, Knowing
<1>2. CASE Stop(x)
  BY <1>1, <1>2, SealStop
<1>3. PICK quit : quit = {Idle} /\ \A f \in quit : Fresh(f) /\ f.pc # w.pc
  BY <1>1, FreshAdvances
<1>4. Advancing(w, Idle) /\ Idle.pc # w.pc /\ w.pc # "idle"
  BY <1>1, FreshAdvances
<1>5. CASE Prepare(x) /\ ~ Stop(x)
  <2>1. PICK op \in Operation : /\ CellOf(w).state = "idle"
                                /\ WriteOperations(x, PreparedCell(op, w.e), Idle, quit)
    BY <1>3, <1>5 DEF Prepare
  <2>2. PICK put : put = PreparedCell(op, w.e)
    OBVIOUS
  <2>3. put \in OwnedCell /\ put.state = "prepared" /\ put.base = w.e
    BY <1>1, <2>2 DEF PreparedCell, IdleCell, OwnedCell, Cell, Worker
  <2>4. ASSUME Len(operations) = w.o PROVE ~ Landing(CellNow) /\ w.e = Top
    <3>1. ~ Landing(CellNow)
      BY <2>1, <2>4, AtTheHeads DEF Landing
    <3> QED BY <1>1, <3>1, WhatBaseSays, AtTheTop
  <2> QED BY <1>1, <1>3, <1>4, <2>1, <2>2, <2>3, <2>4, SealOverCell
<1>6. CASE Clear(x) /\ ~ Stop(x)
  <2>1. WriteOperations(x, IdleCell, Idle, quit) /\ w.pc = "clear"
    BY <1>3, <1>6 DEF Clear
  <2>2. \A v \in Tips : ~ Held(v)
    BY <1>1, <2>1 DEF Informed, HasReleased
  <2>3. ~ Landing(CellNow)
    BY <2>2, WhatBaseSays DEF Landing
  <2>4. PICK put : put = IdleCell
    OBVIOUS
  <2>5. put \in OwnedCell /\ put.state = "idle"
    BY <2>4 DEF IdleCell, OwnedCell, Cell
  <2> QED BY <1>1, <1>3, <1>4, <2>1, <2>3, <2>4, <2>5, SealOverCell DEF Live
<1> QED BY <1>2, <1>5, <1>6

(* The claim of a cell that is not landing.                                *)
LEMMA SealClaimAt ==
  ASSUME BaseInv, NEW x \in Process, worker[x].pc = "decide", HasE(worker[x]),
         NEW head \in Nat,
         NEW held, held.pc # "decide", Advancing(worker[x], held),
         NEW written, written.pc # "decide", Advancing(worker[x], written),
         /\ CellNow = CellOf(worker[x]) /\ Live(CellNow) /\ Claimed(CellNow, head) # CellNow
         => ~ Landing(CellNow),
         ClaimAt(x, head, held, written)
  PROVE  SealStep(x)
<1> DEFINE w == worker[x]
<1>1. w \in Worker /\ CellOf(w) \in OwnedCell
  BY WhatBaseSays, WhatItKnows
<1>2. PICK retried : retried = Retried(w) /\ \A f \in retried : Fresh(f) /\ f.pc # w.pc
  BY FreshAdvances
<1>3. CASE Stop(x)
  BY <1>3, SealStop
<1>4. CASE Continue(x, held)
  BY <1>4, SealContinue
<1>5. CASE /\ CanClaim(CellOf(w), FenceOf(w), MarkerOf(w), ReferenceAt(w.ref))
           /\ Claimed(CellOf(w), head) # CellOf(w)
           /\ WriteOperations(x, Claimed(CellOf(w), head), written, retried)
  <2>1. PICK put : put = Claimed(CellOf(w), head)
    OBVIOUS
  <2>2. Live(CellOf(w))
    BY <1>5 DEF CanClaim
  <2>3. put \in OwnedCell /\ put.state = "appending" /\ put.base = CellOf(w).base
    BY <1>1, <2>1, <2>2 DEF Claimed, Live, OwnedCell, Cell
  <2>4. ASSUME Len(operations) = w.o PROVE ~ Landing(CellNow) /\ put.base = Top
    <3>1. CellNow = CellOf(w)
      BY <2>4, AtTheHeads
    <3>2. ~ Landing(CellNow)
      BY <1>5, <2>2, <3>1
    <3>3. Rooted(CellNow)
      BY WhatBaseSays DEF BaseInv, CellsRooted
    <3> QED BY <2>2, <2>3, <3>1, <3>2, <3>3 DEF Rooted
  <2>5. WriteOperations(x, put, written, retried)
    BY <1>5, <2>1
  <2> QED BY <1>2, <2>3, <2>4, <2>5, SealOverCell
<1> QED BY <1>2, <1>3, <1>4, <1>5 DEF ClaimAt

(* The event has landed, or is about to.                                   *)
LEMMA SealClaims ==
  ASSUME BaseInv, NEW x \in Process, DiscoverLanded(x) \/ ClaimAppend(x)
  PROVE  SealStep(x)
<1> DEFINE w == worker[x]
<1>1. /\ w \in Worker /\ Branches /\ FitsNow(w) /\ w.pc = "decide" /\ HasE(w)
      /\ w.task = "append" /\ CellOf(w) \in OwnedCell
  BY WhatBaseSays, WhatItKnows
     DEF DiscoverLanded, ClaimAppend, Applicable, Absent, MayAppend, Decides, HasE, Knowing
<1>2. PICK settle : settle = Snapshot("settle", 0) /\ settle.pc = "events" /\ Fresh(settle)
  BY FreshAdvances
<1>3. CASE DiscoverLanded(x)
  <2>1. HasLanded(CellOf(w).op, w.e) /\ Live(CellOf(w))
    BY <1>3 DEF DiscoverLanded, MayAppend
  <2>2. PICK head : head = FirstTaken(CellOf(w).op, w.e) - 1
    OBVIOUS
  <2>3. head \in Nat
    BY <1>1, <2>1, <2>2, FirstTakenExists DEF HasLanded, Worker
  <2>4. CASE Continue(x, settle)
    BY <1>1, <1>2, <2>4, FreshAdvances, SealContinue
  <2>5. CASE CellOf(w).state # "appending" /\ ClaimAt(x, head, settle, settle)
    <3>1. CellNow = CellOf(w) => ~ Landing(CellNow)
      BY <2>5 DEF Landing
    <3> QED BY <1>1, <1>2, <2>3, <2>5, <3>1, FreshAdvances, SealClaimAt
  <2> QED BY <1>2, <1>3, <2>2, <2>4, <2>5 DEF DiscoverLanded
<1>4. CASE ClaimAppend(x)
  <2>1. PICK held, written : /\ held = [w EXCEPT !.pc = "publish-event"]
                             /\ written = [w EXCEPT !.pc = "publish-event", !.o = w.o + 1]
    OBVIOUS
  <2>2. /\ held.pc = "publish-event" /\ held.e = w.e /\ held.task = "append"
        /\ written.pc = "publish-event" /\ written.e = w.e /\ written.task = "append"
    BY <1>1, <2>1 DEF Worker
  <2>3. Advancing(w, held) /\ Advancing(w, written)
    BY <1>1, <2>2, OnwardAdvances DEF Publishing
  <2>4. KeyTakenAt(CellOf(w).op, w.e) = {} /\ ClaimAt(x, w.e, held, written)
    BY <1>4, <2>1 DEF ClaimAppend, Applicable, Absent
  <2>5. ASSUME CellNow = CellOf(w), Claimed(CellNow, w.e) # CellNow PROVE ~ Landing(CellNow)
    <3>1. CASE w.e = Top
      <4>1. Top > 0 => Top \in 1..w.e
        BY <3>1, WhatBaseSays
      <4> QED BY <2>4, <2>5, <4>1 DEF KeyTakenAt, SameKey, Landing
    <3>2. CASE w.e # Top
      <4>1. Landing(CellNow) /\ w.e = Top - 1
        BY <1>1, <3>2, WhatBaseSays DEF BaseInv, AllCurrent, Current, AllLand
      <4>2. CellNow.state = "appending" /\ CellNow.head = w.e
        BY <4>1 DEF Landing
      <4>3. Claimed(CellNow, w.e) = CellNow
        BY <1>1, <2>5, <4>2 DEF Claimed, OwnedCell, Cell
      <4> QED BY <2>5, <4>3
    <3> QED BY <3>1, <3>2
  <2>6. w.e \in Nat
    BY <1>1 DEF Worker
  <2> QED BY <1>1, <2>2, <2>3, <2>4, <2>5, <2>6, SealClaimAt
<1> QED BY <1>3, <1>4

(* The prepared cell becomes terminal without an event, ...                *)
LEMMA SealFinds ==
  ASSUME BaseInv, NEW x \in Process, FindConflict(x) \/ FindInapplicable(x)
  PROVE  SealStep(x)
<1> DEFINE w == worker[x]
<1>1. /\ w \in Worker /\ w.pc = "decide" /\ HasE(w) /\ CellOf(w) \in OwnedCell
  BY WhatBaseSays, WhatItKnows
     DEF FindConflict, FindInapplicable, Absent, MayAppend, Decides, HasE, Knowing
<1>2. CASE Stop(x)
  BY <1>1, <1>2, SealStop
<1>3. PICK quit, retried :
         /\ quit = {Idle} /\ \A f \in quit : Fresh(f) /\ f.pc # w.pc
         /\ retried = Retried(w) /\ \A f \in retried : Fresh(f) /\ f.pc # w.pc
  BY <1>1, FreshAdvances
<1>4. PICK settle : settle = Snapshot("settle", 0) /\ settle.pc = "events" /\ Fresh(settle)
  BY FreshAdvances
<1>5. ASSUME NEW result \in {"semantic_noop", "conflict"},
             NEW onFailure, \A f \in onFailure : Fresh(f) /\ f.pc # w.pc,
             CellOf(w).state # "appending", TerminateAbsent(x, result, onFailure), ~ Stop(x)
      PROVE  SealStep(x)
  <2>1. /\ CanTerminate(CellOf(w), FenceOf(w), MarkerOf(w), ReferenceAt(w.ref), result, FALSE)
        /\ WriteOperations(x, TerminalCell(CellOf(w), result, w.e, 0), settle, onFailure)
    BY <1>4, <1>5 DEF TerminateAbsent
  <2>2. PICK put : put = TerminalCell(CellOf(w), result, w.e, 0)
    OBVIOUS
  <2>3. Live(CellOf(w))
    BY <2>1 DEF CanTerminate
  <2>4. put \in OwnedCell /\ put.state = "terminal"
    BY <1>1, <1>5, <2>2, <2>3
       DEF TerminalCell, IdleCell, OwnedCell, Cell, Worker, Results, Live
  <2>5. Len(operations) = w.o => ~ Landing(CellNow) /\ Live(CellNow)
    BY <1>5, <2>3, AtTheHeads DEF Landing
  <2>6. WriteOperations(x, put, settle, onFailure)
    BY <2>1, <2>2
  <2>7. ~ Live(put)
    BY <2>4 DEF Live
  <2> QED BY <1>1, <1>4, <1>5, <2>4, <2>5, <2>6, <2>7, FreshAdvances, SealOverCell
<1>6. CASE FindConflict(x)
  BY <1>2, <1>3, <1>5, <1>6 DEF FindConflict
<1>7. CASE FindInapplicable(x)
  <2>1. \/ Stop(x)
        \/ \E result \in {"semantic_noop", "conflict"} :
             CellOf(w).state # "appending" /\ TerminateAbsent(x, result, retried)
    BY <1>3, <1>7 DEF FindInapplicable
  <2> QED BY <1>2, <1>3, <1>5, <2>1
<1> QED BY <1>6, <1>7

(* ... or landed, over coverage of the top.                                *)
LEMMA SealLands ==
  ASSUME BaseInv, NEW x \in Process, TerminateLanded(x)
  PROVE  SealStep(x)
<1> DEFINE w == worker[x]
           op == CellOf(w).op
<1>1. /\ w \in Worker /\ Branches /\ OneInv /\ FitsNow(w) /\ HasE(w) /\ w.pc = "land"
      /\ CellOf(w) \in OwnedCell /\ Informed(w)
  BY WhatBaseSays, WhatItKnows DEF TerminateLanded, HasE, Knowing
<1>2. CASE Stop(x)
  BY <1>1, <1>2, SealStop
<1>3. CASE ~ Stop(x)
  <2>1. PICK put, v : /\ put = TerminalCell(CellOf(w), "landed", w.e, FirstTaken(op, w.e))
                      /\ v = [w EXCEPT !.pc = "check-release", !.o = w.o + 1]
    OBVIOUS
  <2>2. PICK quit : quit = {Idle} /\ \A f \in quit : Fresh(f) /\ f.pc # w.pc
    BY <1>1, FreshAdvances
  <2>3. /\ HasLanded(op, w.e)
        /\ CanTerminate(CellOf(w), FenceOf(w), MarkerOf(w), FencedReference(w), "landed", TRUE)
        /\ WriteOperations(x, put, v, quit)
    BY <1>3, <2>1, <2>2 DEF TerminateLanded
  <2>4. CellOf(w).state = "appending"
    BY <2>3 DEF CanTerminate
  <2>5. FirstTaken(op, w.e) \in 1..w.e
    BY <1>1, <2>3, FirstTakenExists DEF HasLanded, Worker
  <2>6. put \in OwnedCell /\ put.state = "terminal"
    <3>1. PICK i \in Nat : i = FirstTaken(op, w.e)
      BY <2>5
    <3>2. put = TerminalCell(CellOf(w), "landed", w.e, i)
      BY <2>1, <3>1
    <3> QED BY <1>1, <2>4, <3>2 DEF TerminalCell, IdleCell, OwnedCell, Cell, Results, Worker
  <2>7. v.pc = "check-release" /\ v.e = w.e /\ v.task = w.task
    BY <1>1, <2>1 DEF Worker
  <2>8. Advancing(w, v)
    BY <1>1, <2>7, OnwardAdvances DEF Publishing
  <2>9. ASSUME Len(operations) = w.o PROVE CellRecorded(put, w.e)
    <3>1. CellNow = CellOf(w)
      BY <2>9, AtTheHeads
    <3>2. w.proof = 0
      BY <1>1, <2>4, <3>1, WhatBaseSays, WhatCompletingKnows DEF Completing
    <3>3. Settled(w) /\ coverage[w.c].src = w.e
      BY <1>1, <3>2, WhatCompletingKnows DEF Completing, Refreshed, Settled
    <3>4. w.e = Top
      BY <1>1, <3>3, AtTheTop
    <3>5. Tip.src = Top
      <4>1. w.c \in 1..Len(coverage)
        BY <1>1 DEF FitsNow, Fits
      <4>2. Top <= Tip.src
        BY <3>3, <3>4, <4>1 DEF BaseInv, Ascends
      <4> QED BY <4>2, WhatBaseSays
    <3>6. \A u \in Tips : u.src = Top
      BY <3>5, NoneLags
    <3> QED BY <2>4, <2>6, <3>1, <3>4, <3>6 DEF CellRecorded, Live
  <2> QED BY <1>1, <2>2, <2>3, <2>6, <2>7, <2>8, <2>9, SealCell
<1> QED BY <1>2, <1>3

LEMMA SealUpdates ==
  ASSUME BaseInv, NEW x \in Process, UpdateEvents(x)
  PROVE  SealStep(x)
<1> DEFINE w == worker[x]
<1>1. OneInv /\ w.pc = "publish-event"
  BY WhatBaseSays DEF UpdateEvents
<1>2. PICK settle, retried :
         /\ settle = Snapshot("settle", 0) /\ settle.pc = "events" /\ Fresh(settle)
         /\ retried = Retried(w) /\ \A f \in retried : Fresh(f) /\ f.pc # w.pc
  BY <1>1, FreshAdvances
<1>3. PICK op : op = CellOf(w).op /\ WriteEvents(x, op, settle, retried)
  BY <1>2 DEF UpdateEvents
<1> QED BY <1>1, <1>2, <1>3, FreshAdvances, SealElsewhere

LEMMA SealCrash ==
  ASSUME NEW x \in Process, Crash(x) PROVE SealStep(x)
BY FreshAdvances, SealQuiet DEF Crash, branches

LEMMA SealSteps ==
  ASSUME BaseInv, NEW x \in Process, Proceeds(x)
  PROVE  SealStep(x)
<1>1. CASE \/ StartPrepare(x) \/ StartReconcile(x)
           \/ ReadEvents(x) \/ ReadDerived(x) \/ ReadOperations(x) \/ ReadCoverage(x)
           \/ Recover(x) \/ Settle(x) \/ CheckSource(x) \/ AppendReturns(x) \/ MissFacts(x)
  BY <1>1, SealReads, SealDecides
<1>2. CASE \/ AcquireFence(x) \/ OpenMarker(x)
           \/ PublishCoverage(x) \/ PublishShards(x) \/ PublishState(x)
           \/ CloseMarker(x) \/ ReleaseFence(x) \/ Prepare(x) \/ Clear(x)
  BY <1>2, SealBegins, SealPublishes, SealCompletes, SealPrepares
<1>3. CASE \/ DiscoverLanded(x) \/ ClaimAppend(x) \/ FindConflict(x) \/ FindInapplicable(x)
           \/ TerminateLanded(x) \/ UpdateEvents(x) \/ Crash(x)
  BY <1>3, SealClaims, SealFinds, SealLands, SealUpdates, SealCrash
<1> QED BY <1>1, <1>2, <1>3 DEF Proceeds, Reconcile

-----------------------------------------------------------------------------
(* The invariant is kept by every write of a cell, ... *)

BaseFacts == CellsRooted /\ TipsCover /\ Ascends

(* What such a step leaves to be known of the process.                     *)
Stays(w) == Current(w) => Current(w)'

LEMMA CellKeepsBase ==
  ASSUME BaseInv, NEW put \in OwnedCell,
         Rooted(put), put.state = "terminal" => Live(CellNow),
         Landing(put) \/ \A v \in Tips : v.src = Top,
         \/ AppendOperations(put)
         \/ UNCHANGED branches /\ late' = [late EXCEPT !.operations = @ \union {put}]
  PROVE  /\ BaseFacts' /\ UNCHANGED events
         /\ \A w : HasE(w) /\ w.e = Top => Current(w)'
         /\ Landing(put) => \A w : Stays(w)
<1>1. Branches /\ Cells \subseteq OwnedCell /\ late \in LateWrites /\ CellNow \in Cells
      /\ CellsRooted /\ TipsCover /\ Ascends
  BY WhatBaseSays DEF BaseInv
<1>2. /\ UNCHANGED <<events, coverage>> /\ late'.coverage = late.coverage
      /\ Tips' = Tips /\ Tip' = Tip
      /\ Cells' \subseteq Cells \union {put}
      /\ \/ UNCHANGED operations /\ CellNow' = CellNow
         \/ /\ CellNow' = put /\ Len(operations') = Len(operations) + 1
            /\ operations'[Len(operations)] = CellNow
  <2>1. CASE AppendOperations(put)
    <3>1. Len(operations) \in 1..Len(operations)
      BY <1>1 DEF Branches
    <3> QED BY <1>1, <2>1, <3>1, AfterOperations DEF CellNow
  <2>2. CASE UNCHANGED branches /\ late' = [late EXCEPT !.operations = @ \union {put}]
    <3>1. late'.operations = late.operations \union {put} /\ late'.coverage = late.coverage
          /\ UNCHANGED <<events, operations, coverage>>
      BY <1>1, <2>2 DEF LateWrites, branches
    <3> QED BY <3>1 DEF Cells, Tips, CellNow, Tip
  <2> QED BY <2>1, <2>2
<1>3. Top' = Top /\ \A cell : /\ Landing(cell)' <=> Landing(cell)
                              /\ Rooted(cell)' <=> Rooted(cell)
  BY <1>2 DEF Top, Landing, Rooted
<1>4. CellsRooted'
  <2>1. \A cell \in Cells' : Rooted(cell)'
    BY <1>1, <1>2, <1>3 DEF CellsRooted
  <2>2. CASE UNCHANGED operations /\ CellNow' = CellNow
    BY <1>1, <1>3, <2>1, <2>2 DEF CellsRooted, Rooted, Landing
  <2>3. CASE /\ CellNow' = put /\ Len(operations') = Len(operations) + 1
             /\ operations'[Len(operations)] = CellNow
    <3>1. operations'[Len(operations') - 1] = CellNow
      BY <1>1, <2>3 DEF Branches
    <3>2. Rooted(CellNow)
      BY <1>1 DEF CellsRooted
    <3> QED BY <1>3, <2>1, <2>3, <3>1, <3>2 DEF CellsRooted, Rooted, Landing
  <2> QED BY <1>2, <2>2, <2>3
<1>5. AllLand /\ Landing(put) => AllLand'
  BY <1>2, <1>3 DEF AllLand
<1>6. TipsCover'
  <2> SUFFICES ASSUME NEW v \in Tips PROVE Covering(v)'
    BY <1>2 DEF TipsCover
  <2>1. Covering(v)
    BY <1>1 DEF TipsCover
  <2> QED BY <1>3, <1>5, <2>1 DEF Covering
<1>7. Ascends'
  BY <1>1, <1>2 DEF Ascends
<1>8. ASSUME NEW w, Landing(put) PROVE Stays(w)
  BY <1>2, <1>3, <1>5, <1>8 DEF Stays, Current, HasE, Knowing, Settled
<1>9. ASSUME NEW w, HasE(w), w.e = Top PROVE Current(w)'
  BY <1>3, <1>9 DEF Current
<1> QED BY <1>2, <1>4, <1>6, <1>7, <1>8, <1>9 DEF BaseFacts

(* ... of the guards,                                                      *)
LEMMA TipKeepsBase ==
  ASSUME BaseInv, NEW put \in Coverage, Covering(put), Tip.src <= put.src,
         \/ AppendCoverage(put)
         \/ UNCHANGED branches /\ late' = [late EXCEPT !.coverage = @ \union {put}]
  PROVE  /\ BaseFacts' /\ UNCHANGED events
         /\ \A w : HasE(w) /\ w.e = Top => Current(w)'
         /\ put.marker # None => \A w : Stays(w)
<1>1. Branches /\ late \in LateWrites /\ Tip \in Tips /\ TipsCover /\ Ascends /\ CellsRooted
      /\ Tips \subseteq Coverage
  BY WhatBaseSays DEF BaseInv
<1>2. /\ UNCHANGED <<events, operations>> /\ late'.operations = late.operations
      /\ Cells' = Cells /\ CellNow' = CellNow
      /\ Tips' \subseteq Tips \union {put}
      /\ \/ UNCHANGED coverage /\ Tip' = Tip
         \/ /\ Tip' = put /\ Len(coverage') = Len(coverage) + 1
            /\ coverage'[Len(coverage) + 1] = put
            /\ \A i \in 1..Len(coverage) : coverage'[i] = coverage[i]
  <2>1. CASE AppendCoverage(put)
    BY <1>1, <2>1, AfterCoverage
  <2>2. CASE UNCHANGED branches /\ late' = [late EXCEPT !.coverage = @ \union {put}]
    <3>1. late'.coverage = late.coverage \union {put} /\ late'.operations = late.operations
          /\ UNCHANGED <<events, operations, coverage>>
      BY <1>1, <2>2 DEF LateWrites, branches
    <3> QED BY <3>1 DEF Cells, Tips, CellNow, Tip
  <2> QED BY <2>1, <2>2
<1>3. Top' = Top /\ \A cell : Landing(cell)' <=> Landing(cell)
  BY <1>2 DEF Top, Landing
<1>4. CellsRooted'
  BY <1>1, <1>2, <1>3 DEF CellsRooted, Rooted, Landing
<1>5. AllLand' <=> AllLand
  BY <1>2, <1>3 DEF AllLand
<1>6. TipsCover'
  <2> SUFFICES ASSUME NEW v \in Tips \union {put} PROVE Covering(v)'
    BY <1>2 DEF TipsCover
  <2>1. Covering(v)
    BY <1>1 DEF TipsCover
  <2> QED BY <1>3, <1>5, <2>1 DEF Covering
<1>7. Ascends'
  <2>1. CASE UNCHANGED coverage /\ Tip' = Tip
    BY <1>1, <2>1 DEF Ascends
  <2>2. CASE /\ Tip' = put /\ Len(coverage') = Len(coverage) + 1
             /\ coverage'[Len(coverage) + 1] = put
             /\ \A i \in 1..Len(coverage) : coverage'[i] = coverage[i]
    <3>1. Len(coverage) \in Nat /\ \A i \in 1..Len(coverage) : coverage[i] \in Coverage
      BY <1>1 DEF Branches
    <3>2. /\ Tip.src \in Nat /\ put.src \in Nat
          /\ \A i \in 1..Len(coverage) : coverage[i].src \in Nat
      BY <1>1, <3>1 DEF Coverage
    <3>3. ASSUME NEW i \in 1..Len(coverage') PROVE coverage'[i].src <= put.src
      <4>1. CASE i \in 1..Len(coverage)
        BY <1>1, <2>2, <3>1, <3>2, <4>1 DEF Ascends
      <4>2. CASE i = Len(coverage) + 1
        BY <2>2, <3>2, <4>2
      <4> QED BY <2>2, <3>1, <4>1, <4>2
    <3> QED BY <2>2, <3>3 DEF Ascends
  <2> QED BY <1>2, <2>1, <2>2
<1>8. ASSUME NEW w, put.marker # None PROVE Stays(w)
  BY <1>2, <1>3, <1>5, <1>8 DEF Stays, Current, HasE, Knowing, Settled
<1>9. ASSUME NEW w, HasE(w), w.e = Top PROVE Current(w)'
  BY <1>3, <1>9 DEF Current
<1> QED BY <1>2, <1>4, <1>6, <1>7, <1>8, <1>9 DEF BaseFacts

LEMMA StillBase ==
  ASSUME BaseInv, UNCHANGED <<events, operations, coverage>>,
         late'.operations = late.operations, late'.coverage = late.coverage
  PROVE  /\ BaseFacts' /\ UNCHANGED events
         /\ \A w : HasE(w) /\ w.e = Top => Current(w)'
         /\ \A w : Stays(w)
<1>1. Cells' = Cells /\ CellNow' = CellNow /\ Tips' = Tips /\ Tip' = Tip /\ Top' = Top
  BY DEF Cells, Tips, CellNow, Tip, Top
<1>2. \A cell : (Landing(cell)' <=> Landing(cell)) /\ (Rooted(cell)' <=> Rooted(cell))
  BY <1>1 DEF Landing, Rooted, Top
<1>3. AllLand' <=> AllLand
  BY <1>1, <1>2 DEF AllLand
<1>4. CellsRooted'
  BY <1>1, <1>2 DEF BaseInv, CellsRooted, Rooted, Landing
<1>5. TipsCover' /\ Ascends'
  BY <1>1, <1>3 DEF BaseInv, TipsCover, Covering, Ascends
<1>6. \A w : Stays(w)
  BY <1>1, <1>3 DEF Stays, Current, HasE, Knowing, Settled
<1>7. \A w : HasE(w) /\ w.e = Top => Current(w)'
  BY <1>1 DEF Current
<1> QED BY <1>4, <1>5, <1>6, <1>7 DEF BaseFacts

(* ... and of the event, which lands where the cell was claimed.           *)
LEMMA EventKeepsBase ==
  ASSUME Alone, BaseInv, EventMoves, \A cell \in Claims : cell.head = Top
  PROVE  /\ BaseFacts'
         /\ \A w : Informed(w) /\ Current(w) => Current(w)'
<1>1. Branches /\ GuardsOK /\ CellNow \in Cells /\ Cells \subseteq OwnedCell /\ Top \in Nat
      /\ Tip \in Tips
  BY WhatBaseSays
<1>2. PICK op \in Operation : EventFits(op) /\ AppendEvents(op)
  BY DEF EventMoves
<1>3. IsOfClaim(op) /\ ~ HasEvent(op)
  BY <1>2 DEF Alone, EventFits
<1>4. /\ \A v \in Tips : Held(v) /\ v.marker = op
      /\ \A cell \in Cells : cell.state = "appending" /\ cell.op = op
  BY <1>1, <1>3, ClaimIsGuarded
<1>5. /\ Tips' = Tips /\ Tip' = Tip /\ Cells' = Cells /\ CellNow' = CellNow
      /\ UNCHANGED <<operations, coverage>>
      /\ Top' = Top + 1 /\ events'[Top + 1] = op
  BY <1>1, <1>2, AfterEvents DEF Top
<1>6. ASSUME NEW cell \in Cells PROVE ~ Landing(cell) /\ cell.base = Top /\ cell.head = Top
  <2>1. ~ Landing(cell)
    BY <1>1, <1>3, <1>4, <1>6 DEF Landing, HasEvent, Top
  <2>2. cell.base = Top
    BY <1>4, <1>6, <2>1 DEF BaseInv, CellsRooted, Rooted, Live
  <2>3. cell.head = Top
    BY <1>4, <1>6 DEF Claims
  <2> QED BY <2>1, <2>2, <2>3
<1>7. AllLand'
  BY <1>1, <1>4, <1>5, <1>6 DEF AllLand, Landing
<1>8. \A v \in Tips : v.src = Top /\ v.marker # None
  BY <1>1, <1>2, <1>4, <1>6, NoneLags, NoneIsNoOperation
<1>9. CellsRooted'
  BY <1>1, <1>4, <1>5, <1>7 DEF CellsRooted, Rooted, AllLand
<1>10. TipsCover'
  BY <1>1, <1>5, <1>7, <1>8 DEF TipsCover, Covering
<1>11. Ascends'
  BY <1>5 DEF BaseInv, Ascends
<1>12. ASSUME NEW w, Informed(w), Current(w), HasE(w) PROVE Current(w)'
  <2>1. w.e = Top
    BY <1>1, <1>6, <1>12 DEF Current, AllLand
  <2>2. ~ SettledHolds
    BY <1>1, <1>3, <1>4 DEF SettledHolds
  <2>3. ~ HasReleased(w)
    BY <1>1, <1>4, <1>12 DEF Informed
  <2>4. ~ Settled(w)
    BY <1>12, <2>2, <2>3 DEF Informed, Settled, AtWork
  <2> QED BY <1>1, <1>5, <1>7, <1>8, <2>1, <2>4 DEF Current
<1>13. ASSUME NEW w, ~ HasE(w) PROVE Current(w)'
  BY <1>13 DEF Current, HasE, Knowing
<1> QED BY <1>9, <1>10, <1>11, <1>12, <1>13 DEF BaseFacts

-----------------------------------------------------------------------------
(* Every step keeps it. *)

LEMMA SealKeepsBase ==
  ASSUME Alone, BaseInv, NEW x \in Process, SealStep(x), UNCHANGED events
  PROVE  BaseFacts' /\ AllCurrent'
<1> DEFINE w == worker[x]
<1>1. /\ w \in Worker /\ worker \in [Process -> Worker] /\ Top \in Nat /\ Current(w)
      /\ Branches
  BY WhatBaseSays, WhatItKnows DEF BaseInv, AllCurrent
<1>2. PICK v : Step(x, v) /\ Advancing(w, v)
  BY DEF SealStep
<1>3. Current(v) /\ (w.e = Top /\ HasE(v) => v.e = Top)
  BY <1>2, <1>1 DEF Advancing, Current
<1>4. ASSUME Current(v)' PROVE AllCurrent'
  <2> SUFFICES ASSUME NEW y \in Process PROVE Current(worker[y])'
    BY DEF AllCurrent
  <2>1. worker'[y] = v
    BY <1>1, <1>2 DEF Alone, OneEngine, Step
  <2> QED BY <1>4, <2>1
<1>5. ~ HasE(v) => Current(v)'
  BY DEF Current, HasE, Knowing
<1>6. ASSUME \A u : HasE(u) /\ u.e = Top => Current(u)',
             w.e = Top \/ \A u : Stays(u)
      PROVE  AllCurrent'
  BY <1>3, <1>4, <1>5, <1>6 DEF Stays
<1>7. ASSUME NEW put \in OwnedCell, CellRecorded(put, w.e),
             \/ AppendOperations(put)
             \/ UNCHANGED branches /\ late' = [late EXCEPT !.operations = @ \union {put}]
      PROVE  BaseFacts' /\ AllCurrent'
  <2>1. Rooted(put) /\ (Landing(put) \/ \A u \in Tips : u.src = Top)
    BY <1>7 DEF CellRecorded, Rooted
  <2>2. put.state = "terminal" => Live(CellNow)
    BY <1>7 DEF CellRecorded
  <2>3. w.e = Top \/ Landing(put)
    BY <1>7 DEF CellRecorded
  <2> QED BY <1>6, <1>7, <2>1, <2>2, <2>3, CellKeepsBase
<1>8. ASSUME NEW put \in Coverage, TipRecorded(put, w.e),
             \/ AppendCoverage(put)
             \/ UNCHANGED branches /\ late' = [late EXCEPT !.coverage = @ \union {put}]
      PROVE  BaseFacts' /\ AllCurrent'
  <2>1. Covering(put) /\ Tip.src <= put.src /\ (w.e = Top \/ put.marker # None)
    BY <1>8 DEF TipRecorded, Covering
  <2> QED BY <1>6, <1>8, <2>1, TipKeepsBase
<1>9. CASE /\ UNCHANGED operations /\ late'.operations = late.operations
           /\ UNCHANGED coverage /\ late'.coverage = late.coverage
  BY <1>6, <1>9, StillBase
<1> QED BY <1>7, <1>8, <1>9 DEF SealStep, CellWritten, TipWritten

(* The event is published.                                                 *)
LEMMA PublicationKeepsBase ==
  ASSUME Alone, BaseInv, NEW x \in Process, Proceeds(x), events' # events
  PROVE  BaseFacts' /\ AllCurrent'
<1> DEFINE w == worker[x]
<1>1. /\ w \in Worker /\ worker \in [Process -> Worker] /\ OneInv /\ IInv
      /\ HeadKnown(w)
  BY WhatBaseSays, WhatItKnows DEF BaseInv, HeadInv, HeadsKnown, OneInv, PInv
<1>2. w.pc = "publish-event" /\ Len(events) = w.e
  BY <1>1, HeadSteps DEF HeadStep, EventStep, branches
<1>3. UpdateEvents(x)
  <2>1. Prepare(x) => Elsewhere(x)
    BY <1>1, CellElsewhere
  <2>2. StartPrepare(x) \/ Crash(x) => Elsewhere(x)
    BY <1>1, BeginsElsewhere, CrashElsewhere
  <2>3. Reconcile(x) => Elsewhere(x) \/ ClaimAppend(x) \/ UpdateEvents(x)
    BY <1>1, BeginsElsewhere, GuardsElsewhere, CellElsewhere DEF Reconcile
  <2>4. ~ Elsewhere(x)
    BY DEF Elsewhere
  <2>5. ~ ClaimAppend(x)
    BY <1>2 DEF ClaimAppend, Applicable, Absent, MayAppend, Decides
  <2> QED BY <2>1, <2>2, <2>3, <2>4, <2>5 DEF Proceeds
<1>4. Step(x, Snapshot("settle", 0))
  BY <1>3 DEF UpdateEvents, WriteEvents, LoseOrRefuse, branches
<1>5. \A cell \in Claims : cell.head = Top
  BY <1>1, <1>2 DEF HeadKnown, Top
<1>6. EventMoves
  <2>1. BranchesMove
    BY <1>1, UpdateEventsOne, <1>3 DEF OneStep, Alone
  <2> QED BY <2>1 DEF BranchesMove, branches, CellMoves, TipMoves, PrivateMoves,
                      AppendOperations, AppendCoverage, AppendDerived
<1>7. BaseFacts'
  BY <1>5, <1>6, EventKeepsBase
<1>8. AllCurrent'
  <2> SUFFICES ASSUME NEW y \in Process PROVE Current(worker[y])'
    BY DEF AllCurrent
  <2>1. worker'[y] = Snapshot("settle", 0)
    BY <1>1, <1>4 DEF Alone, OneEngine, Step
  <2>2. ~ HasE(Snapshot("settle", 0))
    BY DEF HasE, Knowing, Snapshot, Idle
  <2> QED BY <2>1, <2>2 DEF Current, HasE, Knowing
<1> QED BY <1>7, <1>8

(* What happens around the process.                                        *)
LEMMA EnvironmentKeepsBase ==
  ASSUME Alone, BaseInv, Environment
  PROVE  BaseFacts' /\ AllCurrent'
<1>1. /\ OneInv /\ Branches /\ Facts /\ GuardsOK /\ late \in LateWrites
      /\ Tips \subseteq Coverage /\ Tip \in Tips /\ late.coverage \subseteq Tips
      /\ Cells \subseteq OwnedCell /\ late.operations \subseteq Cells
      /\ \A v \in Tips : ~ Held(v) => v.marker = None
  BY WhatBaseSays
<1>2. UNCHANGED worker
  BY DEF Environment, Deliver, ReserveSuccess, ReleaseSuccess, Compete
<1>3. ASSUME NEW x \in Process PROVE Informed(worker[x]) /\ Current(worker[x])
  BY <1>1, WhatItKnows DEF BaseInv, AllCurrent
<1>4. ASSUME \A w : Stays(w) PROVE AllCurrent'
  <2> SUFFICES ASSUME NEW x \in Process PROVE Current(worker[x])'
    BY DEF AllCurrent
  <2>1. PICK w : w = worker[x]
    OBVIOUS
  <2>2. Current(w)'
    BY <1>3, <1>4, <2>1 DEF Stays
  <2> QED BY <1>2, <2>1, <2>2
<1>5. ASSUME \A w : HasE(w) /\ w.e = Top => Current(w)',
             \A x \in Process : HasE(worker[x]) => worker[x].e = Top
      PROVE  AllCurrent'
  <2> SUFFICES ASSUME NEW x \in Process PROVE Current(worker[x])'
    BY DEF AllCurrent
  <2>1. PICK w : w = worker[x]
    OBVIOUS
  <2>2. ~ HasE(w) => Current(w)'
    BY DEF Current, HasE, Knowing
  <2>3. Current(w)'
    BY <1>5, <2>1, <2>2
  <2> QED BY <1>2, <2>1, <2>3
<1>6. ASSUME NEW op \in late.events, AppendEvents(op) PROVE BaseFacts' /\ AllCurrent'
  <2>1. EventMoves
    BY <1>1, <1>6, LateFit DEF EventMoves, LateWrites
  <2>2. \A cell \in Claims : cell.head = Top
    BY <1>6 DEF BaseInv, HeadInv, ClaimsHead, Top
  <2>3. BaseFacts' /\ \A w : Informed(w) /\ Current(w) => Current(w)'
    BY <2>1, <2>2, EventKeepsBase
  <2>4. AllCurrent'
    <3> SUFFICES ASSUME NEW x \in Process PROVE Current(worker[x])'
      BY DEF AllCurrent
    <3>1. PICK w : w = worker[x]
      OBVIOUS
    <3>2. Current(w)'
      BY <1>3, <2>3, <3>1
    <3> QED BY <1>2, <3>1, <3>2
  <2> QED BY <2>3, <2>4
<1>7. ASSUME NEW put \in late.operations, AppendOperations(put)
      PROVE  BaseFacts' /\ AllCurrent'
  <2>1. put \in Cells /\ put \in OwnedCell /\ Rooted(put)
    BY <1>1, <1>7 DEF BaseInv, CellsRooted
  <2>2. put.state = "terminal" => Live(CellNow)
    BY <1>1, <1>7 DEF GuardsOK, CellsOK, Becomes, Live
  <2>3. CASE Landing(put)
    BY <1>4, <1>7, <2>1, <2>2, <2>3, CellKeepsBase
  <2>4. CASE ~ Landing(put)
    <3>1. \A v \in Tips : v.src = Top
      BY <2>1, <2>4, NoneLags
    <3>2. \A x \in Process : HasE(worker[x]) => worker[x].e = Top
      BY <2>1, <2>4, AtTheTop
    <3> QED BY <1>5, <1>7, <2>1, <2>2, <3>1, <3>2, CellKeepsBase
  <2> QED BY <2>3, <2>4
<1>8. ASSUME NEW put \in Coverage, AppendCoverage(put), Covering(put), Tip.src <= put.src,
             put.marker = None => \E v \in Tips : v.marker = None
      PROVE  BaseFacts' /\ AllCurrent'
  <2>1. CASE put.marker # None
    BY <1>4, <1>8, <2>1, TipKeepsBase
  <2>2. CASE put.marker = None
    <3>1. \A x \in Process : HasE(worker[x]) => worker[x].e = Top
      BY <1>8, <2>2, AtTheTop
    <3> QED BY <1>5, <1>8, <3>1, TipKeepsBase
  <2> QED BY <2>1, <2>2
<1>9. ASSUME NEW put \in late.coverage, AppendCoverage(put) PROVE BaseFacts' /\ AllCurrent'
  <2>1. put \in Tips /\ put \in Coverage /\ Covering(put)
    BY <1>1, <1>9 DEF BaseInv, TipsCover
  <2>2. Tip.src <= put.src
    BY <1>1, <1>9 DEF Facts, LateHold, Covers, Between
  <2> QED BY <1>8, <1>9, <2>1, <2>2
<1>10. ASSUME NEW put \in late.derived, AppendDerived(put) PROVE BaseFacts' /\ AllCurrent'
  <2>1. put \in Derived
    BY <1>1, <1>10 DEF LateWrites
  <2>2. /\ UNCHANGED <<events, operations, coverage>>
        /\ late'.operations = late.operations /\ late'.coverage = late.coverage
    BY <1>1, <1>10, <2>1, AfterDerived
  <2> QED BY <1>4, <2>2, StillBase
<1>11. ASSUME ~ Held(Tip) PROVE Tip.src = Top /\ Tip.marker = None
  BY <1>1, <1>11, NoneLags
<1>12. CASE ReserveSuccess
  <2>1. PICK put : put = [Tip EXCEPT !.fence = ReservedFence(@)]
    OBVIOUS
  <2>2. put \in Coverage /\ ~ Held(Tip) /\ put.src = Tip.src /\ put.marker = Tip.marker
    BY <1>1, <1>12, <2>1 DEF ReserveSuccess, CanReserve, Coverage, ReservedFence, Fence, Held
  <2>3. Covering(put) /\ Tip.src <= put.src
    BY <1>1, <1>11, <2>2, WhatBaseSays DEF Covering
  <2> QED BY <1>1, <1>8, <1>11, <1>12, <2>1, <2>2, <2>3 DEF ReserveSuccess
<1>13. CASE ReleaseSuccess
  <2>1. PICK put : put = [Tip EXCEPT !.fence = Released(@)]
    OBVIOUS
  <2>2. put \in Coverage /\ ~ Held(Tip) /\ put.src = Tip.src /\ put.marker = Tip.marker
    BY <1>1, <1>13, <2>1 DEF ReleaseSuccess, Coverage, Released, IdleFence, Fence, Held
  <2>3. Covering(put) /\ Tip.src <= put.src
    BY <1>1, <1>11, <2>2, WhatBaseSays DEF Covering
  <2> QED BY <1>1, <1>8, <1>11, <1>13, <2>1, <2>2, <2>3 DEF ReleaseSuccess
<1>14. ~ \E op \in Competitor : Compete(op)
  BY DEF Alone
<1> QED BY <1>6, <1>7, <1>9, <1>10, <1>12, <1>13, <1>14 DEF Environment, Deliver

(* An attempt that is given up keeps what the engine holds.                *)
LEMMA StopKeepsEngine ==
  ASSUME OneEngine, TraceInv, HeadInv, NEW x \in Process, Stop(x)
  PROVE  TraceInv' /\ HeadInv'
<1>1. OneInv /\ PInv /\ IInv /\ ReleaseInv /\ Traces
  BY DEF TraceInv, HeadInv, OneInv, PInv
<1>2. PInv'
  BY <1>1, StopKeeps, StopHolds DEF Holds, StepHolds, PInv
<1>3. OneStep
  BY <1>1, StopOne
<1>4. OneInv' /\ BranchesMove
  BY <1>2, <1>3 DEF OneStep, OneHolds, OneInv
<1>5. HeadInv'
  BY <1>1, <1>4, HeadStop, HeadStepKeeps DEF HeadInv
<1>6. ReleaseInv'
  BY <1>1, <1>4, HeadStop, ReadStop, ReadStepKeeps
<1> QED BY <1>1, <1>4, <1>5, <1>6, TracesStay DEF TraceInv

Gives(x) == Stop(x) /\ worker[x].pc # "idle"

LEMMA BaseNext ==
  ASSUME Alone, BaseInv,
         \/ \E x \in Process : Proceeds(x) \/ Gives(x)
         \/ Environment
         \/ UNCHANGED vars
  PROVE  BaseInv'
<1>1. OneEngine /\ TraceInv /\ HeadInv
  BY DEF Alone, BaseInv
<1>2. TraceInv' /\ HeadInv'
  <2>1. CASE [Next]_vars
    BY <1>1, <2>1, TraceNext, HeadNext
  <2>2. ASSUME NEW x \in Process, Gives(x) PROVE TraceInv' /\ HeadInv'
    BY <1>1, <2>2, StopKeepsEngine DEF Gives
  <2> QED BY <2>1, <2>2 DEF Next, Proceeds
<1>3. ASSUME NEW x \in Process, Proceeds(x) PROVE BaseFacts' /\ AllCurrent'
  <2>1. SealStep(x)
    BY <1>3, SealSteps
  <2> QED BY <1>3, <2>1, SealKeepsBase, PublicationKeepsBase
<1>4. ASSUME NEW x \in Process, Gives(x) PROVE BaseFacts' /\ AllCurrent'
  <2>1. SealStep(x) /\ UNCHANGED events
    BY <1>4, SealStop DEF Gives, Stop, branches
  <2> QED BY <2>1, SealKeepsBase
<1>5. CASE UNCHANGED vars
  <2>1. UNCHANGED <<events, operations, coverage, worker>> /\ late' = late
    BY <1>5 DEF vars
  <2>2. BaseFacts' /\ \A w : Stays(w)
    BY <2>1, StillBase
  <2>3. ASSUME NEW x \in Process PROVE Current(worker[x])'
    <3>1. PICK w : w = worker[x]
      OBVIOUS
    <3>2. Current(w)'
      BY <2>2, <3>1 DEF Stays, BaseInv, AllCurrent
    <3> QED BY <2>1, <3>1, <3>2
  <2> QED BY <1>2, <2>2, <2>3 DEF BaseInv, BaseFacts, AllCurrent
<1> QED BY <1>2, <1>3, <1>4, <1>5, EnvironmentKeepsBase DEF BaseInv, BaseFacts

LEMMA BaseStarts == Init => BaseInv
<1> SUFFICES ASSUME Init PROVE BaseInv
  OBVIOUS
<1>1. /\ events = <<>> /\ operations = <<IdleCell>>
      /\ coverage = <<[fence |-> IdleFence(0), marker |-> None, src |-> 0]>>
      /\ late.operations = {} /\ late.coverage = {}
      /\ \A x \in Process : worker[x] = Idle
  BY DEF Init, NothingLate
<1>2. Top = 0 /\ CellNow = IdleCell /\ Cells = {IdleCell} /\ Tips = {Tip} /\ Tip.src = 0
  BY <1>1 DEF Top, CellNow, Cells, Tips, Tip
<1>3. CellsRooted
  BY <1>2 DEF CellsRooted, Rooted, Live, IdleCell
<1>4. TipsCover
  BY <1>2 DEF TipsCover, Covering
<1>5. Ascends
  BY <1>1, <1>2 DEF Ascends
<1>6. AllCurrent
  BY <1>1 DEF AllCurrent, Current, HasE, Knowing, Idle
<1> QED BY <1>3, <1>4, <1>5, <1>6, TraceStarts, HeadStarts DEF BaseInv

-----------------------------------------------------------------------------
(* What each guard is sealed at. *)

SealOf(cell, s) == IF Live(cell) THEN s = cell.base ELSE s = Top

SealBook == [cell : Seq(Nat), fence : Seq(Nat), marker : Seq(Nat)]

SealsFit ==
  /\ seals \in SealBook
  /\ Len(seals.cell) = Len(operations)
  /\ Len(seals.fence) = Len(coverage) /\ Len(seals.marker) = Len(coverage)
  /\ \A i \in 1..Len(operations) : Live(operations[i]) => seals.cell[i] = operations[i].base
  /\ \A i \in 1..Len(coverage) :
       seals.fence[i] = coverage[i].src /\ seals.marker[i] = coverage[i].src
  /\ SealOf(CellNow, seals.cell[Len(operations)])

Sealable == {"operations", "coverage"}

LateSealed ==
  /\ DOMAIN lateSeals = Sealable
  /\ \A b \in Sealable : /\ \A t \in lateSeals[b] : t[1] \in late[b]
                         /\ \A put \in late[b] : \E t \in lateSeals[b] : t[1] = put
  /\ \A t \in lateSeals.operations : SealOf(t[1], t[2])
  /\ \A t \in lateSeals.coverage : t[2] = t[1].src

(* What is written is sealed as it must be.                                *)
CellSealed(put) == \A s \in SealedAt("operations", put) : SealOf(put, s)

TipSealed(put) == \A s \in SealedAt("coverage", put) : s = put.src

SealedWell ==
  /\ \/ UNCHANGED operations
     \/ \E put \in OwnedCell : CellSealed(put) /\ AppendOperations(put)
  /\ \/ UNCHANGED coverage
     \/ \E put \in Coverage : TipSealed(put) /\ AppendCoverage(put)

(* ... also what may be written late, by the process that moves.           *)
LateSealedWell ==
  /\ \A b \in Sealable : late'[b] \ late[b] # {} => Moving # {}
  /\ \A x \in Moving :
       /\ \A put \in late'.operations \ late.operations : SealOf(put, worker[x].e)
       /\ \A put \in late'.coverage \ late.coverage : worker[x].e = put.src

(* An event lands over live cells only.                                    *)
LandsOverLive == UNCHANGED events \/ (UNCHANGED operations /\ \A cell \in Cells : Live(cell))

LEMMA LateSealsKept ==
  ASSUME BaseInv, LateSealed, Seal, LateSealedWell, LandsOverLive,
         UNCHANGED events \/ late'.operations = late.operations
  PROVE  LateSealed'
<1>1. lateSeals' = [b \in Sealable |->
         {t \in lateSeals[b] : t[1] \in late'[b]}
           \union (late'[b] \ late[b]) \X {worker[x].e : x \in Moving}]
  BY DEF Seal, LateSealed
<1>2. ASSUME NEW b \in Sealable, NEW t \in lateSeals'[b]
      PROVE  /\ t[1] \in late'[b]
             /\ \/ t \in lateSeals[b]
                \/ t[1] \in late'[b] \ late[b] /\ \E x \in Moving : t[2] = worker[x].e
  <2>1. CASE t \in {u \in lateSeals[b] : u[1] \in late'[b]}
    BY <2>1
  <2>2. CASE t \in (late'[b] \ late[b]) \X {worker[x].e : x \in Moving}
    BY <2>2
  <2> QED BY <1>1, <1>2, <2>1, <2>2
<1>3. ASSUME NEW b \in Sealable, NEW put \in late'[b]
      PROVE  \E t \in lateSeals'[b] : t[1] = put
  <2>1. CASE put \in late[b]
    BY <1>1, <1>3, <2>1 DEF LateSealed
  <2>2. CASE put \notin late[b]
    <3>1. PICK x \in Moving : TRUE
      BY <1>3, <2>2 DEF LateSealedWell
    <3>2. PICK e : e = worker[x].e
      OBVIOUS
    <3>3. e \in {worker[y].e : y \in Moving}
      BY <3>2
    <3>4. <<put, e>> \in (late'[b] \ late[b]) \X {worker[y].e : y \in Moving}
      BY <1>3, <2>2, <3>3
    <3>5. <<put, e>> \in lateSeals'[b]
      BY <1>1, <3>4
    <3> QED BY <3>5
  <2> QED BY <2>1, <2>2
<1>4. ASSUME NEW t \in lateSeals'.operations PROVE SealOf(t[1], t[2])'
  <2>1. SealOf(t[1], t[2]) /\ t[1] \in late'.operations
    BY <1>2, <1>4 DEF LateSealed, LateSealedWell, Sealable
  <2>2. CASE UNCHANGED events
    BY <2>1, <2>2 DEF SealOf, Top
  <2>3. CASE late'.operations = late.operations /\ \A cell \in Cells : Live(cell)
    BY <2>1, <2>3, WhatBaseSays DEF SealOf
  <2> QED BY <2>2, <2>3 DEF LandsOverLive
<1>5. ASSUME NEW t \in lateSeals'.coverage PROVE t[2] = t[1].src
  BY <1>2, <1>5 DEF LateSealed, LateSealedWell, Sealable
<1>6. DOMAIN lateSeals' = Sealable
  BY <1>1
<1> QED BY <1>2, <1>3, <1>4, <1>5, <1>6 DEF LateSealed

LEMMA Appended ==
  ASSUME NEW q \in Seq(Nat), NEW s \in Nat, NEW r, r = Append(q, s), NEW n, n = Len(q)
  PROVE  /\ Len(r) = n + 1 /\ r[n + 1] = s
         /\ \A i \in 1..n : r[i] = q[i]
OBVIOUS

LEMMA SealedCell ==
  ASSUME NEW b \in SealBook, NEW s \in Nat, NEW t, t = [b EXCEPT !.cell = Append(@, s)]
  PROVE  /\ t \in SealBook /\ t.fence = b.fence /\ t.marker = b.marker
         /\ t.cell = Append(b.cell, s)
<1>1. Append(b.cell, s) \in Seq(Nat)
  BY DEF SealBook
<1> QED BY <1>1 DEF SealBook

LEMMA SealedTip ==
  ASSUME NEW b \in SealBook, NEW s \in Nat,
         NEW t, t = [b EXCEPT !.fence = Append(@, s), !.marker = Append(@, s)]
  PROVE  /\ t \in SealBook /\ t.cell = b.cell
         /\ t.fence = Append(b.fence, s) /\ t.marker = Append(b.marker, s)
<1>1. Append(b.fence, s) \in Seq(Nat) /\ Append(b.marker, s) \in Seq(Nat)
  BY DEF SealBook
<1> QED BY <1>1 DEF SealBook

LEMMA SealsKept ==
  ASSUME BaseInv, SealsFit, Seal, SealedWell, LandsOverLive
  PROVE  SealsFit'
<1>1. /\ Branches /\ CellNow \in Cells /\ Top \in Nat /\ Tip \in Coverage
      /\ Cells \subseteq OwnedCell
  BY WhatBaseSays
<1>2. /\ Len(operations) \in Nat /\ Len(operations) > 0
      /\ Len(coverage) \in Nat /\ Len(coverage) > 0
      /\ \A i \in 1..Len(coverage) : coverage[i] \in Coverage
  BY <1>1 DEF Branches
<1>3. CASE UNCHANGED <<operations, coverage>>
  <2>1. seals' = seals /\ CellNow' = CellNow
    BY <1>3 DEF Seal, CellNow
  <2>2. SealOf(CellNow, seals.cell[Len(operations)])'
    BY <1>1, <1>3, <2>1 DEF SealsFit, SealOf, LandsOverLive, Top
  <2> QED BY <1>3, <2>1, <2>2 DEF SealsFit
<1>4. ASSUME NEW put \in OwnedCell, CellSealed(put), AppendOperations(put)
      PROVE  SealsFit'
  <2>1. /\ CellNow' = put /\ UNCHANGED <<events, coverage>>
        /\ operations' = Append(operations, put)
        /\ Len(operations') = Len(operations) + 1 /\ operations'[Len(operations) + 1] = put
        /\ \A i \in 1..Len(operations) : operations'[i] = operations[i]
    BY <1>1, <1>4, AfterOperations DEF AppendOperations
  <2>2. operations' # operations
    BY <1>2, <2>1
  <2>3. PICK s \in SealedAt("operations", put) : seals' = [seals EXCEPT !.cell = Append(@, s)]
    BY <2>1, <2>2 DEF Seal
  <2>4. SealOf(put, s) /\ s \in Nat
    BY <1>1, <1>4, <2>3 DEF CellSealed, SealOf, OwnedCell, Cell
  <2>5. /\ seals'.cell = Append(seals.cell, s) /\ seals'.fence = seals.fence
        /\ seals'.marker = seals.marker
        /\ seals' \in SealBook
    <3>1. seals \in SealBook
      BY DEF SealsFit
    <3> QED BY <2>3, <2>4, <3>1, SealedCell
  <2>6. /\ Len(seals'.cell) = Len(operations) + 1 /\ seals'.cell[Len(operations) + 1] = s
        /\ \A i \in 1..Len(operations) : seals'.cell[i] = seals.cell[i]
    <3>1. PICK q : q = seals.cell
      OBVIOUS
    <3>2. PICK r : r = seals'.cell
      OBVIOUS
    <3>3. q \in Seq(Nat) /\ Len(q) = Len(operations)
      BY <3>1 DEF SealsFit, SealBook
    <3>4. r = Append(q, s)
      BY <2>5, <3>1, <3>2
    <3>5. /\ Len(r) = Len(operations) + 1 /\ r[Len(operations) + 1] = s
          /\ \A i \in 1..Len(operations) : r[i] = q[i]
      BY <2>4, <3>3, <3>4, Appended
    <3> QED BY <3>1, <3>2, <3>5
  <2>7. ASSUME NEW i \in 1..Len(operations'), Live(operations'[i])
        PROVE  seals'.cell[i] = operations'[i].base
    <3>1. CASE i \in 1..Len(operations)
      BY <2>1, <2>6, <2>7, <3>1 DEF SealsFit
    <3>2. CASE i = Len(operations) + 1
      BY <2>1, <2>4, <2>6, <2>7, <3>2 DEF SealOf
    <3> QED BY <1>2, <2>1, <3>1, <3>2
  <2>8. SealOf(CellNow, seals.cell[Len(operations)])'
    BY <2>1, <2>4, <2>6 DEF SealOf, Top
  <2> QED BY <2>1, <2>5, <2>6, <2>7, <2>8 DEF SealsFit
<1>5. ASSUME NEW put \in Coverage, TipSealed(put), AppendCoverage(put)
      PROVE  SealsFit'
  <2>1. /\ CellNow' = CellNow /\ UNCHANGED <<events, operations>>
        /\ Tip' = put /\ coverage' = Append(coverage, put)
        /\ Len(coverage') = Len(coverage) + 1 /\ coverage'[Len(coverage) + 1] = put
        /\ \A i \in 1..Len(coverage) : coverage'[i] = coverage[i]
    BY <1>1, <1>5, AfterCoverage DEF AppendCoverage
  <2>2. coverage' # coverage
    BY <1>2, <2>1
  <2>3. PICK s \in SealedAt("coverage", put) : seals' = Resealed(Tip, put, s)
    BY <2>1, <2>2 DEF Seal
  <2>4. s = put.src /\ s \in Nat
    BY <1>5, <2>3 DEF TipSealed, Coverage
  <2>5. /\ seals.fence[Len(coverage)] = Tip.src /\ seals.marker[Len(coverage)] = Tip.src
        /\ Len(seals.fence) = Len(coverage) /\ Len(seals.marker) = Len(coverage)
        /\ seals.fence \in Seq(Nat) /\ seals.marker \in Seq(Nat)
    BY <1>2 DEF SealsFit, SealBook, Tip
  <2>6. seals' = [seals EXCEPT !.fence = Append(@, s), !.marker = Append(@, s)]
    <3>1. CASE Tip.src # put.src
      BY <2>3, <3>1 DEF Resealed
    <3>2. CASE Tip.src = put.src
      <4>1. /\ seals.fence[Len(seals.fence)] = s
            /\ seals.marker[Len(seals.marker)] = s
        BY <2>4, <2>5, <3>2
      <4>2. /\ s = (IF Tip.fence # put.fence THEN s ELSE seals.fence[Len(seals.fence)])
            /\ s = (IF Tip.marker # put.marker THEN s ELSE seals.marker[Len(seals.marker)])
        BY <4>1
      <4>3. seals' = [seals EXCEPT
              !.fence = Append(@, IF Tip.fence # put.fence THEN s
                                  ELSE seals.fence[Len(seals.fence)]),
              !.marker = Append(@, IF Tip.marker # put.marker THEN s
                                   ELSE seals.marker[Len(seals.marker)])]
        BY <2>3, <3>2 DEF Resealed
      <4> QED BY <4>2, <4>3
    <3> QED BY <3>1, <3>2
  <2>7. /\ seals'.cell = seals.cell /\ seals'.fence = Append(seals.fence, s)
        /\ seals'.marker = Append(seals.marker, s)
        /\ seals' \in SealBook
    <3>1. PICK b : b = seals
      OBVIOUS
    <3>2. PICK t : t = seals'
      OBVIOUS
    <3>3. b \in SealBook
      BY <3>1 DEF SealsFit
    <3>4. t = [b EXCEPT !.fence = Append(@, s), !.marker = Append(@, s)]
      BY <2>6, <3>1, <3>2
    <3>5. /\ t \in SealBook /\ t.cell = b.cell
          /\ t.fence = Append(b.fence, s) /\ t.marker = Append(b.marker, s)
      <4>1. s \in Nat
        BY <2>4
      <4> QED BY ONLY <4>1, <3>3, <3>4, SealedTip
    <3> QED BY <3>1, <3>2, <3>5
  <2>8. /\ Len(seals'.fence) = Len(coverage) + 1 /\ seals'.fence[Len(coverage) + 1] = s
        /\ Len(seals'.marker) = Len(coverage) + 1 /\ seals'.marker[Len(coverage) + 1] = s
        /\ \A i \in 1..Len(coverage) : /\ seals'.fence[i] = seals.fence[i]
                                       /\ seals'.marker[i] = seals.marker[i]
    <3>1. PICK p : p = seals.fence
      OBVIOUS
    <3>2. PICK r : r = seals'.fence
      OBVIOUS
    <3>3. PICK q : q = seals.marker
      OBVIOUS
    <3>4. PICK t : t = seals'.marker
      OBVIOUS
    <3>5. /\ Len(r) = Len(coverage) + 1 /\ r[Len(coverage) + 1] = s
          /\ \A i \in 1..Len(coverage) : r[i] = p[i]
      BY <2>4, <2>5, <2>7, <3>1, <3>2, Appended
    <3>6. /\ Len(t) = Len(coverage) + 1 /\ t[Len(coverage) + 1] = s
          /\ \A i \in 1..Len(coverage) : t[i] = q[i]
      BY <2>4, <2>5, <2>7, <3>3, <3>4, Appended
    <3> QED BY <3>1, <3>2, <3>3, <3>4, <3>5, <3>6
  <2>9. ASSUME NEW i \in 1..Len(coverage')
        PROVE  seals'.fence[i] = coverage'[i].src /\ seals'.marker[i] = coverage'[i].src
    <3>1. CASE i \in 1..Len(coverage)
      <4>1. seals.fence[i] = coverage[i].src /\ seals.marker[i] = coverage[i].src
        BY <3>1 DEF SealsFit
      <4> QED BY <2>1, <2>8, <3>1, <4>1
    <3>2. CASE i = Len(coverage) + 1
      BY <2>1, <2>4, <2>8, <3>2
    <3> QED BY <1>2, <2>1, <3>1, <3>2
  <2>10. SealOf(CellNow, seals.cell[Len(operations)])'
    BY <2>1, <2>7 DEF SealOf, SealsFit, Top
  <2> QED BY <2>1, <2>7, <2>8, <2>9, <2>10 DEF SealsFit
<1> QED BY <1>3, <1>4, <1>5 DEF SealedWell

(* The process seals at its own head.                                      *)
LEMMA ProcessSeals ==
  ASSUME Alone, BaseInv, NEW x \in Process, SealStep(x)
  PROVE  SealedWell /\ LateSealedWell
<1> DEFINE w == worker[x]
<1>1. worker \in [Process -> Worker] /\ late \in LateWrites /\ Branches
  BY WhatBaseSays
<1>2. PICK v : Step(x, v) /\ v.pc # w.pc
  BY DEF SealStep
<1>3. worker'[x] # w
  BY <1>1, <1>2 DEF Step
<1>4. Moving = {x}
  BY <1>3 DEF Moving, Alone, OneEngine
<1>5. \A b, put : SealedAt(b, put) = {w.e}
  BY <1>4 DEF SealedAt
<1>6. ASSUME NEW put, CellRecorded(put, w.e) PROVE SealOf(put, w.e)
  BY <1>6 DEF CellRecorded, SealOf, Landing, Live
<1>7. SealedWell
  <2>1. UNCHANGED operations
        \/ \E put \in OwnedCell : CellSealed(put) /\ AppendOperations(put)
    BY <1>5, <1>6 DEF SealStep, CellWritten, CellSealed, branches
  <2>2. UNCHANGED coverage
        \/ \E put \in Coverage : TipSealed(put) /\ AppendCoverage(put)
    BY <1>5 DEF SealStep, TipWritten, TipSealed, TipRecorded, branches
  <2> QED BY <2>1, <2>2 DEF SealedWell
<1>8. ASSUME NEW put \in late'.operations \ late.operations PROVE SealOf(put, w.e)
  <2>1. PICK new \in OwnedCell : /\ CellRecorded(new, w.e)
                                 /\ \/ AppendOperations(new)
                                    \/ late' = [late EXCEPT !.operations = @ \union {new}]
    BY <1>8 DEF SealStep, CellWritten
  <2>2. late'.operations = {} \/ late'.operations = late.operations \union {new}
    BY <1>1, <2>1 DEF AppendOperations, LateWrites
  <2>3. put = new
    BY <1>8, <2>2
  <2> QED BY <1>6, <2>1, <2>3
<1>9. ASSUME NEW put \in late'.coverage \ late.coverage PROVE w.e = put.src
  <2>1. PICK new \in Coverage : /\ TipRecorded(new, w.e)
                                /\ \/ AppendCoverage(new)
                                   \/ late' = [late EXCEPT !.coverage = @ \union {new}]
    BY <1>9 DEF SealStep, TipWritten
  <2>2. late'.coverage = {} \/ late'.coverage = late.coverage \union {new}
    BY <1>1, <2>1 DEF AppendCoverage, LateWrites
  <2>3. put = new
    BY <1>9, <2>2
  <2> QED BY <2>1, <2>3 DEF TipRecorded
<1> QED BY <1>4, <1>7, <1>8, <1>9 DEF LateSealedWell

(* A late write is sealed as it was, and a success check at the top.       *)
LEMMA EnvironmentSeals ==
  ASSUME Alone, BaseInv, LateSealed, Environment
  PROVE  SealedWell /\ LateSealedWell
<1>1. /\ OneInv /\ Branches /\ late \in LateWrites /\ Tip \in Tips /\ Tip \in Coverage
      /\ late.operations \subseteq OwnedCell /\ late.coverage \subseteq Coverage
      /\ \A v \in Tips : ~ Held(v) => v.marker = None
  BY WhatBaseSays
<1>2. UNCHANGED worker
  BY DEF Environment, Deliver, ReserveSuccess, ReleaseSuccess, Compete
<1>3. Moving = {}
  BY <1>2 DEF Moving
<1>4. ASSUME NEW put \in late.operations PROVE CellSealed(put)
  <2> SUFFICES ASSUME NEW s \in SealedAt("operations", put) PROVE SealOf(put, s)
    BY DEF CellSealed
  <2>1. \E t \in lateSeals.operations : t[1] = put
    BY <1>4 DEF LateSealed, Sealable
  <2>2. PICK t \in lateSeals.operations : t[1] = put /\ t[2] = s
    BY <1>3, <2>1 DEF SealedAt
  <2> QED BY <2>2 DEF LateSealed
<1>5. ASSUME NEW put, put \in late.coverage \/ put.src = Top PROVE TipSealed(put)
  <2> SUFFICES ASSUME NEW s \in SealedAt("coverage", put) PROVE s = put.src
    BY DEF TipSealed
  <2>1. CASE \E t \in lateSeals.coverage : t[1] = put
    <3>1. PICK t \in lateSeals.coverage : t[1] = put /\ t[2] = s
      BY <1>3, <2>1 DEF SealedAt
    <3> QED BY <3>1 DEF LateSealed
  <2>2. CASE ~ \E t \in lateSeals.coverage : t[1] = put
    <3>1. put.src = Top
      BY <1>5, <2>2 DEF LateSealed, Sealable
    <3>2. s = Top
      BY <1>3, <2>2 DEF SealedAt, Top
    <3> QED BY <3>1, <3>2
  <2> QED BY <2>1, <2>2
<1>6. \/ \E put \in late.events : AppendEvents(put)
      \/ \E put \in late.operations : AppendOperations(put)
      \/ \E put \in Coverage : AppendCoverage(put) /\ (put \in late.coverage \/ put.src = Top)
      \/ \E put \in late.derived : AppendDerived(put)
  <2>1. CASE Deliver
    BY <1>1, <2>1 DEF Deliver
  <2>2. ~ Held(Tip) => Tip.src = Top
    BY <1>1, NoneLags
  <2>3. CASE ReserveSuccess
    <3>1. PICK put : put = [Tip EXCEPT !.fence = ReservedFence(@)]
      OBVIOUS
    <3>2. put \in Coverage /\ ~ Held(Tip) /\ put.src = Tip.src
      BY <1>1, <2>3, <3>1 DEF ReserveSuccess, CanReserve, Coverage, ReservedFence, Fence, Held
    <3> QED BY <2>2, <2>3, <3>1, <3>2 DEF ReserveSuccess
  <2>4. CASE ReleaseSuccess
    <3>1. PICK put : put = [Tip EXCEPT !.fence = Released(@)]
      OBVIOUS
    <3>2. put \in Coverage /\ ~ Held(Tip) /\ put.src = Tip.src
      BY <1>1, <2>4, <3>1 DEF ReleaseSuccess, Coverage, Released, IdleFence, Fence, Held
    <3> QED BY <2>2, <2>4, <3>1, <3>2 DEF ReleaseSuccess
  <2> QED BY <2>1, <2>3, <2>4 DEF Environment, Alone
<1>7. SealedWell
  BY <1>1, <1>4, <1>5, <1>6
     DEF SealedWell, AppendEvents, AppendOperations, AppendCoverage, AppendDerived
<1>8. late'.operations \subseteq late.operations /\ late'.coverage \subseteq late.coverage
  BY <1>1, <1>6 DEF AppendEvents, AppendOperations, AppendCoverage, AppendDerived, LateWrites
<1>9. \A b \in Sealable : late'[b] \ late[b] = {}
  BY <1>8 DEF Sealable
<1> QED BY <1>3, <1>7, <1>9 DEF LateSealedWell

LEMMA LandsOverClaims ==
  ASSUME Alone, BaseInv, BranchesMove
  PROVE  /\ LandsOverLive
         /\ UNCHANGED events \/ late'.operations = late.operations
<1>1. Branches /\ GuardsOK
  BY WhatBaseSays
<1>2. CASE UNCHANGED events
  BY <1>2 DEF LandsOverLive
<1>3. ASSUME NEW op \in Operation, EventFits(op), AppendEvents(op)
      PROVE  LandsOverLive /\ late'.operations = late.operations
  <2>1. IsOfClaim(op) /\ ~ HasEvent(op)
    BY <1>3 DEF Alone, EventFits
  <2>2. \A cell \in Cells : cell.state = "appending"
    BY <1>1, <2>1, ClaimIsGuarded
  <2>3. UNCHANGED operations /\ late'.operations = late.operations
    BY <1>1, <1>3, AfterEvents
  <2> QED BY <2>2, <2>3 DEF LandsOverLive, Live
<1> QED BY <1>2, <1>3 DEF BranchesMove, EventMoves, CellMoves, TipMoves, PrivateMoves,
                         branches, AppendOperations, AppendCoverage, AppendDerived

-----------------------------------------------------------------------------
(* The invariant of the seals. *)

SealsInv == BaseInv /\ SealsFit /\ LateSealed

LEMMA SealsStart == KeyedInit => SealsInv
<1> SUFFICES ASSUME KeyedInit PROVE SealsInv
  OBVIOUS
<1>1. BaseInv
  BY BaseStarts DEF KeyedInit
<1>2. /\ events = <<>> /\ operations = <<IdleCell>>
      /\ coverage = <<[fence |-> IdleFence(0), marker |-> None, src |-> 0]>>
      /\ late.operations = {} /\ late.coverage = {}
      /\ seals = [cell |-> <<0>>, fence |-> <<0>>, marker |-> <<0>>]
      /\ lateSeals = [operations |-> {}, coverage |-> {}]
  BY DEF KeyedInit, Init, NothingLate, NothingLateSealed
<1>3. SealsFit
  <2>1. seals \in SealBook
    BY <1>2 DEF SealBook
  <2>2. CellNow = IdleCell /\ Top = 0 /\ ~ Live(IdleCell)
    BY <1>2 DEF CellNow, Top, Live, IdleCell
  <2> QED BY <1>2, <2>1, <2>2 DEF SealsFit, SealOf
<1>4. LateSealed
  BY <1>2 DEF LateSealed, Sealable
<1> QED BY <1>1, <1>3, <1>4 DEF SealsInv

LEMMA SealsNext ==
  ASSUME Alone, SealsInv, [KeyedNext]_allVars
  PROVE  SealsInv'
<1>1. BaseInv /\ SealsFit /\ LateSealed /\ OneInv /\ OneEngine
  BY WhatBaseSays DEF SealsInv, Alone
<1>2. CASE UNCHANGED <<vars, seals, lateSeals>>
  <2>1. BaseInv'
    BY <1>1, <1>2, BaseNext
  <2>2. UNCHANGED <<events, operations, coverage, late>>
    BY <1>2 DEF vars
  <2> QED BY <1>1, <1>2, <2>1, <2>2
          DEF SealsInv, SealsFit, LateSealed, SealOf, CellNow, Top
<1>3. ASSUME Seal, SealedWell, LateSealedWell, BranchesMove, BaseInv' PROVE SealsInv'
  <2>1. LandsOverLive /\ (UNCHANGED events \/ late'.operations = late.operations)
    BY <1>1, <1>3, LandsOverClaims
  <2> QED BY <1>1, <1>3, <2>1, SealsKept, LateSealsKept DEF SealsInv
<1>4. ASSUME NEW x \in Process, StartPrepare(x) \/ Proceed(x) \/ Crash(x), Seal
      PROVE  SealsInv'
  <2>1. Proceeds(x) /\ [Next]_vars
    BY <1>4 DEF Proceeds, Proceed, Next
  <2>2. BaseInv' /\ BranchesMove /\ SealStep(x)
    BY <1>1, <2>1, BaseNext, OneNext, SealSteps
  <2> QED BY <1>1, <1>3, <1>4, <2>2, ProcessSeals
<1>5. ASSUME NEW x \in Process, Refuse(x), Seal PROVE SealsInv'
  <2>1. Gives(x)
    BY <1>5 DEF Refuse, Blocked, Applicable, Absent, MayAppend, Decides, Gives
  <2>2. BaseInv' /\ BranchesMove /\ SealStep(x)
    BY <1>1, <2>1, BaseNext, SealStop DEF Gives, Stop, BranchesMove
  <2> QED BY <1>1, <1>3, <1>5, <2>2, ProcessSeals
<1>6. ASSUME Environment, Seal PROVE SealsInv'
  <2>1. BaseInv' /\ BranchesMove
    BY <1>1, <1>6, BaseNext, OneNext DEF Next
  <2> QED BY <1>1, <1>3, <1>6, <2>1, EnvironmentSeals
<1>7. UNCHANGED allVars => UNCHANGED <<vars, seals, lateSeals>>
  BY DEF allVars, keyed
<1> QED BY <1>2, <1>4, <1>5, <1>6, <1>7 DEF KeyedNext

-----------------------------------------------------------------------------
(* What is sealed so can be read at the top. *)

(* At a head, or at the one before it by the exemption of a rotation: only *)
(* an activation selects other keys, and then it is what has just landed.  *)
LEMMA ReadAtTheTop ==
  ASSUME Top \in Nat, NEW cap, NEW s, NEW cell,
         s = Top \/ (s = Top - 1 /\ Landing(cell))
  PROVE  Reads(cap, s, cell, Top)
<1>1. CASE KidAt(cap, s) = KidAt(cap, Top)
  BY <1>1 DEF Reads
<1>2. CASE KidAt(cap, s) # KidAt(cap, Top)
  <2>1. s = Top - 1 /\ Landing(cell) /\ Top > 0
    BY <1>2 DEF Landing
  <2>2. KidsAt(events, Top - 1) # KidsAt(events, Top)
    BY <1>2, <2>1 DEF KidAt
  <2>3. events[Top] \in DOMAIN Activation
    <3> SUFFICES ASSUME events[Top] \notin DOMAIN Activation PROVE FALSE
      OBVIOUS
    <3>1. \A i : i \in 1..Top <=> i \in 1..(Top - 1) \/ i = Top
      BY <2>1
    <3>2. Activations(events, Top) = Activations(events, Top - 1)
      BY <3>1 DEF Activations
    <3> QED BY <2>2, <3>2 DEF KidsAt
  <2>4. RotationExempts(cell, Top)
    BY <2>1, <2>2, <2>3 DEF RotationExempts, Landing
  <2> QED BY <2>1, <2>4 DEF Reads
<1> QED BY <1>1, <1>2

(* Every guard a snapshot of the heads looks at.                           *)
LEMMA HeadsAreReadable ==
  ASSUME SealsInv,
         NEW w, w.e = Top, w.o = Len(operations), w.c = Len(coverage)
  PROVE  SnapshotReads(w)
<1>1. /\ BaseInv /\ SealsFit /\ Branches /\ CellNow \in Cells /\ Tip \in Tips /\ Top \in Nat
      /\ TraceInv /\ CellsRooted /\ TipsCover
  BY WhatBaseSays DEF SealsInv, BaseInv
<1>2. /\ Len(operations) \in Nat \ {0} /\ Len(coverage) \in Nat \ {0}
      /\ CellOf(w) = CellNow /\ coverage[w.c] = Tip
  BY <1>1, AtTheHeads DEF Branches
<1>3. CellReads(w.o, w.e)
  <2>1. PICK s : s = seals.cell[Len(operations)]
    OBVIOUS
  <2>2. SealOf(CellNow, s)
    BY <1>1, <2>1 DEF SealsFit
  <2>3. s = Top \/ (s = Top - 1 /\ Landing(CellNow))
    BY <1>1, <2>2 DEF SealOf, CellsRooted, Rooted, Landing
  <2>4. Reads("records", s, CellNow, Top)
    BY <1>1, <2>3, ReadAtTheTop
  <2> QED BY <2>1, <2>4 DEF CellReads, CellNow
<1>4. GuardsRead(w.c, w.o, w.e)
  <2>1. seals.fence[w.c] = Tip.src /\ seals.marker[w.c] = Tip.src
    BY <1>1, <1>2 DEF SealsFit
  <2>2. Tip.src = Top \/ (Tip.src = Top - 1 /\ Landing(CellNow))
    BY <1>1 DEF TipsCover, Covering, AllLand
  <2>3. Reads("coverage", Tip.src, CellNow, Top)
    BY <1>1, <2>2, ReadAtTheTop
  <2> QED BY <2>1, <2>3 DEF GuardsRead, CellNow
<1>5. ReferenceReads(w.c)
  <2> SUFFICES ASSUME Tip.fence.state = "mutation"
               PROVE  LET prep == Tip.fence.prep IN
                      KidAt("records", seals.cell[prep]) = KidAt("records", operations[prep].base)
    BY <1>2 DEF ReferenceReads
  <2>1. Held(Tip) /\ NamesThis(Tip)
    BY <1>1 DEF Held, TraceInv, ReleaseInv, ReleaseFacts, TipsName
  <2>2. Tip.fence.prep \in 1..Len(operations) /\ Live(operations[Tip.fence.prep])
    BY <2>1 DEF NamesThis, Under
  <2>3. seals.cell[Tip.fence.prep] = operations[Tip.fence.prep].base
    BY <1>1, <2>2 DEF SealsFit
  <2> QED BY <2>3
<1>6. PredecessorReads(w)
  <2> DEFINE p == Predecessor(w)
  <2> SUFFICES ASSUME CellNow.state = "terminal", p # 0, operations[p].state = "appending"
               PROVE  CellReads(p, w.e)
    BY <1>2 DEF PredecessorReads
  <2>1. p = Len(operations) - 1
    BY <1>1, ExecutionIsUnderWay
  <2> HIDE DEF p
  <2>2. p \in 1..Len(operations)
    BY <1>2, <2>1
  <2>3. Live(operations[p]) /\ Rooted(operations[p])
    BY <1>1, <2>1 DEF Live, CellsRooted
  <2>4. PICK s : s = seals.cell[p] /\ s = operations[p].base
    BY <1>1, <2>2, <2>3 DEF SealsFit
  <2>5. s = Top \/ (s = Top - 1 /\ Landing(operations[p]))
    BY <2>3, <2>4 DEF Rooted, Landing
  <2>6. Reads("records", s, operations[p], Top)
    BY <1>1, <2>5, ReadAtTheTop
  <2> QED BY <2>4, <2>6 DEF CellReads
<1>7. ReleaseReads(w)
  <2> SUFFICES ASSUME NEW k \in ReleaseProofs(w), NEW c \in {k, k + 1}
               PROVE  seals.fence[c] = coverage[c].src /\ seals.marker[c] = coverage[c].src
    BY DEF ReleaseReads
  <2>1. k \in 1..(Len(coverage) - 1)
    BY DEF ReleaseProofs
  <2>2. c \in 1..Len(coverage)
    BY <1>2, <2>1
  <2> QED BY <1>1, <2>2 DEF SealsFit
<1> QED BY <1>3, <1>4, <1>5, <1>6, <1>7 DEF SnapshotReads

(* With one engine and no other canonical writer the seals keep what the   *)
(* reader needs, whatever is lost, late or interrupted.                    *)
THEOREM SealsInvariant == ASSUME Alone PROVE KeyedSpec => []SealsInv
<1>1. SealsInv /\ [KeyedNext]_allVars => SealsInv'
  BY SealsNext
<1> QED BY <1>1, SealsStart, PTL DEF KeyedSpec

(* At whatever step of a rotation the engine stops, the next attempt reads *)
(* the cell, both guards, the prepared commit they name, the cell before a *)
(* terminal one and the proof of a release (_plain, _rotation_kids).       *)
THEOREM GuardsAreReadable == ASSUME Alone PROVE KeyedSpec => []GuardsStayReadable
<1>1. SealsInv => GuardsStayReadable
  <2> SUFFICES ASSUME SealsInv PROVE GuardsStayReadable
    OBVIOUS
  <2>1. PICK w : w = [Idle EXCEPT !.task = "recover", !.e = Len(events),
                                  !.o = Len(operations), !.c = Len(coverage)]
    OBVIOUS
  <2>2. w.e = Top /\ w.o = Len(operations) /\ w.c = Len(coverage)
    BY <2>1 DEF Idle, Top
  <2>3. SnapshotReads(w)
    BY <2>2, HeadsAreReadable
  <2> QED BY <2>1, <2>3 DEF GuardsStayReadable
<1> QED BY <1>1, SealsInvariant, PTL

=============================================================================
