----------------------------- MODULE KeyRotation -----------------------------
(***************************************************************************)
(* The mutation engine over encrypted branches: MutationEngine composed    *)
(* with Keyrings.                                                          *)
(*                                                                         *)
(* Every commit of the cell, of the fence and of the marker is encrypted   *)
(* under the keys that were current at the canonical head of its writer's  *)
(* snapshot.  `seals` records that head next to each commit, as the kid of *)
(* an envelope does.  A reader takes the keys from its own snapshot, which *)
(* may be of another head: when a keyring activation lands, the guards     *)
(* that led it there are all under the keys it has just retired.           *)
(* _rotation_kids of append.py is the one exception that lets recovery     *)
(* read them.  The private projection must be encrypted anew as well, so   *)
(* an activation belongs to Private.                                       *)
(***************************************************************************)
EXTENDS MutationEngineProperties, Keyrings

ASSUME ActivationsRenewProjections ==
  DOMAIN Activation \intersect Operation \subseteq Private

VARIABLES
  seals,     \* the canonical head each guard was encrypted at
  lateSeals  \* the same for the writes that may still be applied

keyed == <<keys, seals, lateSeals>>

allVars == <<vars, keyed>>

NothingLateSealed == [operations |-> {}, coverage |-> {}]

KeyedInit ==
  /\ Init
  /\ InitKeys
  /\ seals = [cell |-> <<0>>, fence |-> <<0>>, marker |-> <<0>>]
  /\ lateSeals = NothingLateSealed

-----------------------------------------------------------------------------
(* What a snapshot at the canonical head e can read. *)

KidAt(cap, e) == KidsAt(events, e)[cap]

NothingExempts(cell, e) == FALSE

(* _rotation_kids: the guards of the last canonical event, an activation   *)
(* claimed on its very parent, may still be under the keys it replaced.    *)
RotationExempts(cell, e) ==
  /\ cell.state = "appending"
  /\ cell.op \in DOMAIN Activation
  /\ e > 0
  /\ events[e] = cell.op
  /\ cell.head = e - 1
  /\ KidsAt(events, e - 1) = KidsAt(events, cell.base)
  /\ KidsAt(events, e - 1) # KidsAt(events, e)

(* _plain: an envelope sealed at head s, next to the cell, read at e. *)
Reads(cap, s, cell, e) ==
  \/ KidAt(cap, s) = KidAt(cap, e)
  \/ RotationExempts(cell, e) /\ KidAt(cap, s) = KidAt(cap, e - 1)

CellReads(o, e) == Reads("records", seals.cell[o], operations[o], e)

GuardsRead(c, o, e) ==
  /\ Reads("coverage", seals.fence[c], operations[o], e)
  /\ Reads("coverage", seals.marker[c], operations[o], e)

(* The prepared commit a fence names is read under the keys of the head    *)
(* it was prepared at.                                                     *)
ReferenceReads(c) ==
  coverage[c].fence.state = "mutation" =>
    LET prep == coverage[c].fence.prep IN
    KidAt("records", seals.cell[prep]) = KidAt("records", operations[prep].base)

(* The cell before a terminal one: historical when it was prepared. *)
PredecessorReads(w) ==
  LET p == Predecessor(w) IN
  CellOf(w).state = "terminal" /\ p # 0 /\ operations[p].state = "appending" =>
    CellReads(p, w.e)

(* The history of a release is read under the keys of each public source. *)
ReleaseReads(w) ==
  CellOf(w).state = "terminal" /\ FenceOf(w).state = "idle" =>
    \A k \in ReleaseProofs(w) : \A c \in {k, k + 1} :
      LET kid == KidAt("coverage", coverage[c].src) IN
      /\ KidAt("coverage", seals.fence[c]) = kid
      /\ KidAt("coverage", seals.marker[c]) = kid

SnapshotReads(w) ==
  /\ CellReads(w.o, w.e)
  /\ w.task # "prepare" \/ CellOf(w).state # "idle" =>
       /\ GuardsRead(w.c, w.o, w.e)
       /\ ReferenceReads(w.c)
       /\ PredecessorReads(w)
       /\ ReleaseReads(w)

ProspectAssumed(x) == TRUE

(* The last step before the append right is claimed: the history with the  *)
(* event at its end must open from the keys branch as it is now.           *)
ProspectOpens(x) ==
  LET w == worker[x] IN
  Opens(Append(SubSeq(events, 1, w.e), CellOf(w).op), Len(keys))

-----------------------------------------------------------------------------
(* Composition. *)

(* A guard written in this step is sealed at the head of its writer: the   *)
(* process that moved, or one whose write is applied late.                 *)
Moving == {x \in Process : worker'[x] # worker[x]}

SealedAt(branch, put) ==
  IF Moving # {} THEN {worker[x].e : x \in Moving}
  ELSE IF \E t \in lateSeals[branch] : t[1] = put
       THEN {t[2] : t \in {u \in lateSeals[branch] : u[1] = put}}
       ELSE {Len(events)}

(* publish_coverage rewrites every file of the branch, guards included. *)
Resealed(old, new, s) ==
  IF old.src # new.src
  THEN [seals EXCEPT !.fence = Append(@, s), !.marker = Append(@, s)]
  ELSE [seals EXCEPT
          !.fence = Append(@, IF old.fence # new.fence THEN s ELSE @[Len(@)]),
          !.marker = Append(@, IF old.marker # new.marker THEN s ELSE @[Len(@)])]

Seal ==
  /\ IF operations' # operations
     THEN \E s \in SealedAt("operations", operations'[Len(operations')]) :
            seals' = [seals EXCEPT !.cell = Append(@, s)]
     ELSE IF coverage' # coverage
     THEN \E s \in SealedAt("coverage", coverage'[Len(coverage')]) :
            seals' = Resealed(Tip, coverage'[Len(coverage')], s)
     ELSE seals' = seals
  /\ lateSeals' = [b \in DOMAIN lateSeals |->
       {t \in lateSeals[b] : t[1] \in late'[b]}
         \union (late'[b] \ late[b]) \X {worker[x].e : x \in Moving}]

(* A snapshot whose history does not open, or whose guards do not read,    *)
(* ends the attempt; so does an event that would close the history.        *)
Blocked(x) ==
  LET w == worker[x] IN
  \/ w.pc = "derived" /\ ~ Opens(SubSeq(events, 1, w.e), Len(keys))
  \/ w.pc = "decide" /\ ~ SnapshotReads(w)

Refuse(x) ==
  /\ \/ Blocked(x)
     \/ Applicable(x) /\ ~ ProspectOpens(x)
  /\ Stop(x)

Proceed(x) ==
  /\ ~ Blocked(x)
  /\ Applicable(x) => ProspectOpens(x) \/ MissFacts(x)
  /\ Prepare(x) \/ Reconcile(x)

KeyedNext ==
  \/ /\ \/ \E x \in Process : StartPrepare(x) \/ Proceed(x) \/ Refuse(x) \/ Crash(x)
        \/ Environment
     /\ Seal
     /\ UNCHANGED keys
  \/ /\ \E ring \in PushedRing : PushRing(ring)
     /\ UNCHANGED <<vars, seals, lateSeals>>

KeyedSpec == KeyedInit /\ [][KeyedNext]_allVars

-----------------------------------------------------------------------------
(* Whatever step of a rotation the engine stops at, the next attempt can   *)
(* read the cell, both guards, the prepared commit they name and the proof *)
(* of a release: no key is retired under a guard that is still needed.     *)
GuardsStayReadable ==
  LET now == [Idle EXCEPT !.task = "recover", !.e = Len(events),
                          !.o = Len(operations), !.c = Len(coverage)]
  IN SnapshotReads(now)

(* A landed activation can be authenticated from every ring that still     *)
(* holds the keys of those before it, however the branch moved between the *)
(* check of the prospective history and the publication of the event.      *)
HistoryStaysOpen == Retains(Len(keys)) => Opens(events, Len(keys))

(* A key that was replaced is never selected again, neither by its name    *)
(* nor under another name by its bytes: what it may have leaked stays old. *)
RetiredKeysStayRetired ==
  LET key(cap, e) ==
        <<KidAt(cap, e), keys[PinnedAt(events, e)].bindings[<<cap, KidAt(cap, e)>>]>>
  IN \A cap \in Capability : \A i, j, k \in 0..Len(events) :
       i < j /\ j < k /\ key(cap, i) # key(cap, j) =>
         key(cap, i)[1] # key(cap, k)[1] /\ key(cap, i)[2] # key(cap, k)[2]
=============================================================================
