------------------------------ MODULE Keyrings ------------------------------
(***************************************************************************)
(* The data keys of a project and what makes a canonical history readable: *)
(* conformance/keyrings.py (wrapped copies), records/key_bindings.py       *)
(* (commitments to key bytes), the keyring activation of                   *)
(* conformance/replay.py and the authentication loop of                    *)
(* records/history.py (open_history).                                      *)
(*                                                                         *)
(* The `keys` branch is a sequence of rings.  A ring is a record: copies    *)
(* maps each data key, a pair <<capability, kid>>, to the bytes its wrapped *)
(* copy unwraps to; bindings commits to the bytes of each; wrapping is the *)
(* generation the copies are wrapped under.                                *)
(* Anyone who may push to the branch may append a ring, which gives it no  *)
(* authority: an activation event selects a pair of keys and the commit    *)
(* that pins them, and only from there are they used.                      *)
(*                                                                         *)
(* A history is a sequence of operations; those in DOMAIN Activation are   *)
(* keyring activations.  Cryptography is abstracted to what it decides:    *)
(* whether a copy unwraps (its wrapper generation is known) and to which   *)
(* bytes.                                                                  *)
(***************************************************************************)
EXTENDS Naturals, Sequences, FiniteSetsExt

CONSTANTS
  Wrapping,    \* wrapper generations the reader has the wrapping key of
  Activation,  \* Activation[op] = [kids, generation, candidate]
  InitialKids, \* the pair the bootstrap manifest selects
  FirstRing,   \* the ring the manifest pins
  PushedRing,  \* the rings that may be pushed later
  MaxRings     \* bound: commits of the keys branch

Capability == {"records", "coverage"}

ASSUME BoundOfRings == MaxRings \in Nat

ASSUME ActivationsAreNumbered ==
  \A op \in DOMAIN Activation :
    Activation[op].generation \in Nat /\ Activation[op].candidate \in Nat

VARIABLE keys

Selected(kids) == {<<cap, kids[cap]>> : cap \in Capability}

-----------------------------------------------------------------------------
(* decode_keyring: every copy of the ring is well formed and wrapped under *)
(* a generation the reader holds; one that is not, refuses the whole ring. *)
KnownWrapping(ring) == ring.wrapping \in Wrapping

(* unwrap_key_copy: the bytes a copy stands for, under any wrapping. *)
Unwrapped(ring, key) == ring.copies[key]

BytesFor(ring, cap) == {Unwrapped(ring, k) : k \in {p \in DOMAIN ring.copies : p[1] = cap}}

(* WrappedKeys.at: no two capabilities share the bytes of a key. *)
Unwraps(ring) ==
  /\ KnownWrapping(ring)
  /\ BytesFor(ring, "records") \intersect BytesFor(ring, "coverage") = {}

(* The commitment to a key, as install and rotation write it. *)
Commits(ring, head, key) == ring.bindings[key] = Unwrapped(head, key)

(* verify_key_bindings: the commitments pinned by a candidate cover its    *)
(* whole ring, and both selected keys are the bytes it committed to.       *)
KeysAreBound(ring, head, kids) ==
  /\ DOMAIN ring.bindings = DOMAIN ring.copies
  /\ \A k \in Selected(kids) :
       /\ k \in DOMAIN ring.copies
       /\ k \in DOMAIN head.copies
       /\ Commits(ring, head, k)

(* The ring of the install holds the keys its manifest selects, and was    *)
(* written with its own commitments (encode_key_bindings).                 *)
ASSUME FirstRingIsBound == KeysAreBound(FirstRing, FirstRing, InitialKids)

-----------------------------------------------------------------------------
(* The fold of activations over a history h, up to its commit e. *)

Activations(h, e) == {i \in 1..e : h[i] \in DOMAIN Activation}

(* current_kids at a canonical head. *)
KidsAt(h, e) ==
  IF Activations(h, e) = {} THEN InitialKids
  ELSE Activation[h[Max(Activations(h, e))]].kids

(* The position on the keys branch that the last activation pinned; the    *)
(* bootstrap pins the first ring and its manifest the second.              *)
PinnedAt(h, e) ==
  IF Activations(h, e) = {} THEN 2
  ELSE Activation[h[Max(Activations(h, e))]].candidate

GenerationAt(h, e) ==
  IF Activations(h, e) = {} THEN 0
  ELSE Activation[h[Max(Activations(h, e))]].generation

EverSelected(h, e) ==
  Selected(InitialKids) \union
    UNION {Selected(Activation[h[i]].kids) : i \in Activations(h, e)}

(* What replay and open_history demand of the activation at commit i when  *)
(* the keys branch is read at the commit k.                                *)
ActivationAdvances(h, i) ==
  LET wanted == Activation[h[i]] IN
  /\ wanted.generation > GenerationAt(h, i - 1)
  /\ wanted.candidate > PinnedAt(h, i - 1)

FreshlySelected(h, i) ==
  Selected(Activation[h[i]].kids) \ Selected(KidsAt(h, i - 1))

NeverSelectedOnly(h, i, head) == FreshlySelected(h, i) \intersect EverSelected(h, i - 1) = {}

NeverUsed(h, i, head) ==
  LET used == EverSelected(h, i - 1) IN
  \A k \in FreshlySelected(h, i) :
    /\ k \notin used
    /\ \A past \in used : past[1] = k[1] => head.copies[past] # head.copies[k]

ActivationHolds(h, i, k) ==
  LET wanted == Activation[h[i]] IN
  /\ ActivationAdvances(h, i)
  /\ wanted.candidate <= k
  /\ KeysAreBound(keys[wanted.candidate], keys[k], wanted.kids)
  /\ FreshlySelected(h, i) # {}
  /\ NeverUsed(h, i, keys[k])

(* open_history: the history h authenticates from the keys commit k. *)
Opens(h, k) ==
  /\ Unwraps(keys[k])
  /\ KeysAreBound(keys[1], keys[k], InitialKids)
  /\ \A i \in Activations(h, Len(h)) : ActivationHolds(h, i, k)

-----------------------------------------------------------------------------
(* The branch. *)

InitKeys == keys = <<FirstRing, FirstRing>>

(* The operator pushes a ring: new keys, or the same ones wrapped anew. *)
PushRing(ring) ==
  /\ Len(keys) < MaxRings
  /\ ring \in PushedRing
  /\ keys' = Append(keys, ring)

(* The ring at commit k still holds every key of the rings below it. *)
Retains(k) ==
  /\ Unwraps(keys[k])
  /\ \A j \in 1..k : \A d \in DOMAIN keys[j].copies :
       d \in DOMAIN keys[k].copies /\ keys[k].copies[d] = keys[j].copies[d]
=============================================================================
