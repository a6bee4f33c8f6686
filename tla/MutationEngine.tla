--------------------------- MODULE MutationEngine ---------------------------
(***************************************************************************)
(* The mutation engine of core/dracla/records: append.py (MutationEngine), *)
(* reconcile.py (reconcile_project and its publications), the snapshot of  *)
(* history.py and the write primitives of github.py.                       *)
(*                                                                         *)
(* Several processes run the engine at once over four Git branches of two  *)
(* repositories.  Nothing else is shared: no lock, no queue.  A branch is  *)
(* the sequence of its commits and a commit is named by its position, so   *)
(* "the head is still oid" reads Len(branch) = position, and a write that  *)
(* is conditional on a head appends exactly when that holds.  A commit is  *)
(* never rewritten: every write is a fast-forward.                         *)
(*                                                                         *)
(*   events      records repository, one canonical event per commit; 0 is  *)
(*               the connected project before the first event              *)
(*   operations  records repository, the prepared-operation cell           *)
(*   coverage    coverage repository: decision fence, in-flight marker and *)
(*               the public projection, known by its canonical_sha (src)   *)
(*   derived     records repository: the private projection, known by the  *)
(*               generation it materializes; sealed once state.enc.json    *)
(*               binds every shard                                         *)
(*                                                                         *)
(* A remote read or write is a step of its own.  Local computation belongs *)
(* to the step that follows or precedes it.                                *)
(***************************************************************************)
EXTENDS OperationState, Sequences, FiniteSetsExt

CONSTANTS
  Process,        \* concurrent runs of the engine
  Competitor,     \* operations another canonical writer may publish
  IdempotencyKey, \* IdempotencyKey[op]
  Configuration,  \* the configuration an operation installs, if it does
  InitialConfiguration,
  Excludes,       \* <<p, q>>: once p has landed, apply_event rejects q
  Confirmed,      \* operations whose event names its confirmed_canonical_oid
  Private,        \* operations that advance a materialization generation
  MaxExecutions,  \* bound: prepared commits
  MaxCommits,     \* bound: projection commits at which an attempt may start
  MaxGeneration,  \* bound: fence generation at which a check may reserve it
  MaxFaults       \* bound: crashes and writes whose answer is lost

ASSUME CompetitorsAreOperations == Competitor \subseteq Operation

ASSUME BoundsAreNaturals ==
  /\ MaxExecutions \in Nat
  /\ MaxCommits \in Nat
  /\ MaxGeneration \in Nat
  /\ MaxFaults \in Nat

VARIABLES
  events, operations, coverage, derived,
  late,    \* writes given up as indeterminate that may still be applied
  worker,  \* the local state of each process
  faults

vars == <<events, operations, coverage, derived, late, worker, faults>>

branches == <<events, operations, coverage, derived>>

Coverage == [fence : Fence, marker : Operation \union {None}, src : Nat]
Derived  == [gen : Nat, sealed : BOOLEAN]

Tasks == {"none", "prepare", "recover", "begin", "append", "settle", "repair",
          "refresh"}

Places == {"idle", "events", "derived", "operations", "coverage", "decide",
           "open-marker", "publish-event",
           "check-public", "public", "check-private", "private",
           "check-state", "state",
           "check-complete", "close", "land", "check-release", "release",
           "clear"}

(* A process holds the heads it has read (e, d, o, c), the position of the *)
(* prepared commit of the reference it was given (ref) and, once it may    *)
(* clear the cell, the position of the mutation fence it saw released.     *)
Worker ==
  [pc : Places, task : Tasks, e : Nat, d : Nat, o : Nat, c : Nat,
   ref : Nat, proof : Nat]

Idle ==
  [pc |-> "idle", task |-> "none", e |-> 0, d |-> 1, o |-> 1, c |-> 1,
   ref |-> 0, proof |-> 0]

NothingLate == [events |-> {}, operations |-> {}, coverage |-> {}, derived |-> {}]

Init ==
  /\ events = <<>>
  /\ operations = <<IdleCell>>
  /\ coverage = <<[fence |-> IdleFence(0), marker |-> None, src |-> 0]>>
  /\ derived = <<[gen |-> 0, sealed |-> TRUE]>>
  /\ late = NothingLate
  /\ worker = [x \in Process |-> Idle]
  /\ faults = 0

-----------------------------------------------------------------------------
(* Canonical history, at the events head e. *)

SameKey(p, q) == IdempotencyKey[p] = IdempotencyKey[q]

KeyTakenBefore(op, e) == {i \in 1..(e - 1) : SameKey(events[i], op)}

KeyTakenAt(op, e) == {i \in 1..e : SameKey(events[i], op)}

(* The commit whose event is this very operation, or another one under its *)
(* idempotency key; the first is the one the code's scan returns.          *)
FirstTaken(op, e) == Min(KeyTakenAt(op, e))

HasLanded(op, e) == KeyTakenAt(op, e) # {} /\ events[FirstTaken(op, e)] = op

IsConflict(op, e) == KeyTakenAt(op, e) # {} /\ events[FirstTaken(op, e)] # op

CurrentConfiguration(e) ==
  LET installs == {i \in 1..e : events[i] \in DOMAIN Configuration}
  IN IF installs = {} THEN InitialConfiguration
                      ELSE Configuration[events[Max(installs)]]

IsNoop(op, e) ==
  /\ op \in DOMAIN Configuration
  /\ Configuration[op] = CurrentConfiguration(e)

IsExcluded(op, base, e) == \E i \in 1..e : <<events[i], op>> \in Excludes

(* apply_event refuses the event, or its confirmed head is not this one. *)
IsRejected(op, base, e) ==
  \/ \E i \in 1..e : <<events[i], op>> \in Excludes
  \/ op \in Confirmed /\ base # e

(* The event that last advanced a materialization generation. *)
Generation(e) == Max({0} \union {i \in 1..e : events[i] \in Private})

-----------------------------------------------------------------------------
(* What a process knows: everything at the heads of its own snapshot. *)

CellOf(w) == operations[w.o]

FenceOf(w) == coverage[w.c].fence

MarkerOf(w) == coverage[w.c].marker

ReferenceAt(i) == Reference(i, operations[i])

(* The reference a mutation fence names. *)
FencedReference(w) == ReferenceAt(FenceOf(w).prep)

PublicIsAncestor(w) == coverage[w.c].src <= w.e

PublicIsCurrent(w) == coverage[w.c].src = w.e

PrivateIsCurrent(w) == derived[w.d] = [gen |-> Generation(w.e), sealed |-> TRUE]

-----------------------------------------------------------------------------
(* recovery_state: what the durable guards authorize a process to do. *)

(* The operation cell before the terminal one and its idle cell boundary. *)
Predecessor(w) ==
  Max({0} \union {i \in 1..w.o : operations[i] # CellOf(w)})

Boundary(i) == Max({j \in 1..i : operations[j].state = "idle"})

AnyExecution(w) == 1..Predecessor(w)

Execution(w) == (Boundary(Predecessor(w)) + 1)..Predecessor(w)

PredecessorFits(w) ==
  /\ Predecessor(w) # 0
  /\ operations[Predecessor(w)].state =
       (IF CellOf(w).result = "landed" THEN "appending" ELSE "prepared")

(* A terminal claim agrees with its authenticated canonical prefix. *)
ResultHolds(cell, base) ==
  \/ /\ cell.result = "landed"
     /\ HasLanded(cell.op, cell.observed)
     /\ FirstTaken(cell.op, cell.observed) = cell.commit
  \/ /\ cell.result = "semantic_noop"
     /\ KeyTakenAt(cell.op, cell.observed) = {}
     /\ IsNoop(cell.op, cell.observed)
  \/ /\ cell.result = "conflict"
     /\ \/ IsConflict(cell.op, cell.observed)
        \/ /\ KeyTakenAt(cell.op, cell.observed) = {}
           /\ IsRejected(cell.op, base, cell.observed)

TerminalVerified(w, fence, marker) ==
  /\ PredecessorFits(w)
  /\ CrossBound(operations[Predecessor(w)], fence, marker, ReferenceAt(fence.prep))
  /\ CellOf(w).observed <= w.e
  /\ ResultHolds(CellOf(w), operations[fence.prep].base)

(* Recovery with the fence of a mutation in force, or before it is taken. *)
RecoversUnderGuards(w) ==
  LET ref == IF FenceOf(w).state = "mutation" THEN FenceOf(w).prep ELSE w.o IN
  /\ FenceOf(w).state # "success_reserved"
  /\ FenceOf(w).state = "mutation" \/ CellOf(w).state = "prepared"
  /\ CrossBound(CellOf(w), FenceOf(w), MarkerOf(w), ReferenceAt(ref))
  /\ CellOf(w).state = "terminal" => TerminalVerified(w, FenceOf(w), MarkerOf(w))

RecoveredReference(w) ==
  IF FenceOf(w).state = "mutation" THEN FenceOf(w).prep ELSE w.o

(* The released fence is evidence from coverage ancestry: a mutation fence *)
(* of this execution of the terminal operation, next to its idle release.  *)
ReleaseProofs(w) ==
  {k \in 1..(w.c - 1) :
     LET owner == coverage[k].fence IN
     /\ owner.state = "mutation"
     /\ coverage[k + 1].fence = Released(owner)
     /\ owner.op = CellOf(w).op
     /\ owner.prep \in Execution(w)
     /\ operations[owner.prep].op = operations[Predecessor(w)].op
     /\ operations[owner.prep].base = operations[Predecessor(w)].base
     /\ coverage[k].marker = None
     /\ coverage[k + 1].marker = None}

(* Recovery after a crash between the release of the fence and the clear. *)
RecoversReleased(w) ==
  /\ FenceOf(w).state = "idle"
  /\ CellOf(w).state = "terminal"
  /\ MarkerOf(w) = None
  /\ PredecessorFits(w)
  /\ Cardinality(ReleaseProofs(w)) = 1
  /\ \A k \in ReleaseProofs(w) : TerminalVerified(w, coverage[k].fence, None)

-----------------------------------------------------------------------------
(* Steps of a process. *)

Step(x, w) == worker' = [worker EXCEPT ![x] = w]

(* A fresh snapshot: open_history begins with the canonical branch. *)
Snapshot(task, ref) == [Idle EXCEPT !.pc = "events", !.task = task, !.ref = ref]

Stop(x) ==
  /\ Step(x, Idle)
  /\ UNCHANGED <<branches, late, faults>>

Continue(x, w) ==
  /\ Step(x, w)
  /\ UNCHANGED <<branches, late, faults>>

(***************************************************************************)
(* The outcomes of a conditional write, from the head the process holds to *)
(* put: it is applied and read back (also when only the answer was lost);  *)
(* the head has moved (HeadConflict); or it is indeterminate, and it may   *)
(* be applied later, as long as the head does not move.  Processes treat   *)
(* the last two alike.                                                     *)
(***************************************************************************)
LoseOrRefuse(x, isHead, lost, onFailure) ==
  /\ \E w \in onFailure : Step(x, w)
  /\ UNCHANGED branches
  /\ \/ /\ ~isHead
        /\ UNCHANGED <<late, faults>>
     \/ /\ isHead
        /\ faults < MaxFaults
        /\ faults' = faults + 1
        /\ late' = lost

AppendEvents(put) ==
  /\ events' = Append(events, put)
  /\ late' = [late EXCEPT !.events = {}]
  /\ UNCHANGED <<operations, coverage, derived>>

AppendOperations(put) ==
  /\ operations' = Append(operations, put)
  /\ late' = [late EXCEPT !.operations = {}]
  /\ UNCHANGED <<events, coverage, derived>>

AppendCoverage(put) ==
  /\ coverage' = Append(coverage, put)
  /\ late' = [late EXCEPT !.coverage = {}]
  /\ UNCHANGED <<events, operations, derived>>

AppendDerived(put) ==
  /\ derived' = Append(derived, put)
  /\ late' = [late EXCEPT !.derived = {}]
  /\ UNCHANGED <<events, operations, coverage>>

WriteEvents(x, put, onSuccess, onFailure) ==
  \/ /\ Len(events) = worker[x].e
     /\ AppendEvents(put)
     /\ Step(x, onSuccess)
     /\ UNCHANGED faults
  \/ LoseOrRefuse(x, Len(events) = worker[x].e,
        [late EXCEPT !.events = @ \union {put}], onFailure)

WriteOperations(x, put, onSuccess, onFailure) ==
  \/ /\ Len(operations) = worker[x].o
     /\ AppendOperations(put)
     /\ Step(x, onSuccess)
     /\ UNCHANGED faults
  \/ LoseOrRefuse(x, Len(operations) = worker[x].o,
        [late EXCEPT !.operations = @ \union {put}], onFailure)

WriteCoverageBlind(x, put, onSuccess) ==
  /\ AppendCoverage(put)
  /\ Step(x, onSuccess)
  /\ UNCHANGED faults

WriteCoverage(x, put, onSuccess) ==
  \/ /\ Len(coverage) = worker[x].c
     /\ AppendCoverage(put)
     /\ Step(x, onSuccess)
     /\ UNCHANGED faults
  \/ LoseOrRefuse(x, Len(coverage) = worker[x].c,
        [late EXCEPT !.coverage = @ \union {put}], {Idle})

WriteDerived(x, put, onSuccess) ==
  \/ /\ Len(derived) = worker[x].d
     /\ AppendDerived(put)
     /\ Step(x, onSuccess)
     /\ UNCHANGED faults
  \/ LoseOrRefuse(x, Len(derived) = worker[x].d,
        [late EXCEPT !.derived = @ \union {put}], {Idle})

-----------------------------------------------------------------------------
(* open_history: the heads are read one after the other, events first and  *)
(* coverage last.  A refresh insists on the heads already held.            *)

StartPrepare(x) ==
  /\ worker[x].pc = "idle"
  /\ Continue(x, Snapshot("prepare", 0))

StartReconcile(x) ==
  /\ worker[x].pc = "idle"
  /\ Len(coverage) + Len(derived) <= MaxCommits
  /\ Continue(x, Snapshot("recover", 0))

Moved(w, head, now) == w.task = "refresh" /\ head # now

ReadEvents(x) ==
  LET w == worker[x] IN
  /\ w.pc = "events"
  /\ Continue(x, IF Moved(w, w.e, Len(events)) THEN Idle
                   ELSE [w EXCEPT !.pc = "derived", !.e = Len(events)])

ReadDerived(x) ==
  LET w == worker[x] IN
  /\ w.pc = "derived"
  /\ Continue(x, IF Moved(w, w.d, Len(derived)) THEN Idle
                   ELSE [w EXCEPT !.pc = "operations", !.d = Len(derived)])

ReadOperations(x) ==
  LET w == worker[x] IN
  /\ w.pc = "operations"
  /\ Continue(x, IF Moved(w, w.o, Len(operations)) THEN Idle
                   ELSE [w EXCEPT !.pc = "coverage", !.o = Len(operations)])

ReadCoverage(x) ==
  LET w == worker[x] IN
  /\ w.pc = "coverage"
  /\ Continue(x, IF Moved(w, w.c, Len(coverage)) THEN Idle
                   ELSE [w EXCEPT !.pc = IF w.task = "refresh" THEN "check-complete"
                                                               ELSE "decide",
                                  !.c = Len(coverage)])

Decides(x, task) == worker[x].pc = "decide" /\ worker[x].task = task

-----------------------------------------------------------------------------
(* prepare: freeze one operation in the idle cell. *)

Prepared == {i \in DOMAIN operations : operations[i].state = "prepared"}

(* A confirmed operation is one event, so it names one canonical head. *)
SameConfirmation(op, base) ==
  op \in Confirmed =>
    \A i \in Prepared : operations[i].op = op => operations[i].base = base

PrepareOverTerminal(x) ==
  LET w == worker[x] IN
  /\ Decides(x, "prepare")
  /\ \/ /\ CellOf(w).state \in {"idle", "terminal"}
        /\ Cardinality(Prepared) < MaxExecutions
        /\ \E op \in Operation \ Competitor :
             /\ SameConfirmation(op, w.e)
             /\ WriteOperations(x, PreparedCell(op, w.e), Idle, {Idle})
     \/ Stop(x)

Prepare(x) ==
  LET w == worker[x] IN
  /\ Decides(x, "prepare")
  /\ \/ /\ CellOf(w).state = "idle"
        /\ Cardinality(Prepared) < MaxExecutions
        /\ \E op \in Operation \ Competitor :
             /\ SameConfirmation(op, w.e)
             /\ WriteOperations(x, PreparedCell(op, w.e), Idle, {Idle})
     \/ Stop(x)

-----------------------------------------------------------------------------
(* reconcile_project: one attempt.  Giving up is Idle, and the next        *)
(* attempt is a new StartReconcile.                                        *)

RecoverAssumingLanded(x) ==
  LET w == worker[x] IN
  /\ Decides(x, "recover")
  /\ Continue(x,
       IF RecoversUnderGuards(w)
       THEN IF CellOf(w).state = "prepared" THEN Snapshot("begin", RecoveredReference(w))
                                            ELSE [w EXCEPT !.pc = "check-public"]
       ELSE Idle)

Recover(x) ==
  LET w == worker[x] IN
  /\ Decides(x, "recover")
  /\ Continue(x,
       IF RecoversUnderGuards(w)
       THEN IF Live(CellOf(w)) THEN Snapshot("begin", RecoveredReference(w))
                               ELSE [w EXCEPT !.pc = "check-public"]
       ELSE IF RecoversReleased(w)
            THEN [w EXCEPT !.pc = "check-complete",
                           !.proof = CHOOSE k \in ReleaseProofs(w) : TRUE]
            ELSE Idle)

-----------------------------------------------------------------------------
(* begin: take the fence, then open the marker at the head just written.   *)
(* The cell is the one read before, at the snapshot's operations head.     *)

AcquireFence(x) ==
  LET w == worker[x]
      wanted == MutationFence(FenceOf(w), ReferenceAt(w.ref))
  IN
  /\ Decides(x, "begin")
  /\ IF AlreadyAcquired(FenceOf(w), CellOf(w), ReferenceAt(w.ref))
     THEN Continue(x, [w EXCEPT !.pc = "open-marker"])
     ELSE IF CanAcquire(FenceOf(w), CellOf(w), ReferenceAt(w.ref)) /\ MarkerOf(w) = None
     THEN WriteCoverage(x, [coverage[w.c] EXCEPT !.fence = wanted],
                        [w EXCEPT !.pc = "open-marker", !.c = w.c + 1])
     ELSE Stop(x)

OpenMarker(x) ==
  LET w == worker[x] IN
  /\ w.pc = "open-marker"
  /\ IF ~ CanOpen(CellOf(w), FenceOf(w), MarkerOf(w), ReferenceAt(w.ref))
     THEN Stop(x)
     ELSE IF MarkerOf(w) # None
     THEN Continue(x, Snapshot("append", w.ref))
     ELSE WriteCoverage(x, [coverage[w.c] EXCEPT !.marker = FenceOf(w).op],
                        Snapshot("append", w.ref))

-----------------------------------------------------------------------------
(* append: at a fresh snapshot, discover the event, find it a no-op or a   *)
(* conflict, or claim the append right and publish.  A failed write starts *)
(* over from a new snapshot until the retries are spent.                   *)

MayAppend(x) ==
  LET w == worker[x] IN
  /\ Decides(x, "append")
  /\ MutationBound(CellOf(w), FenceOf(w), MarkerOf(w), ReferenceAt(w.ref))
  /\ Live(CellOf(w))

Retried(w) == {Idle, Snapshot("append", w.ref)}

(* The guards no longer name this reference, or the cell is terminal. *)
AppendReturns(x) ==
  LET w == worker[x] IN
  /\ Decides(x, "append")
  /\ ~ MayAppend(x)
  /\ Continue(x,
       IF /\ CellOf(w).state = "terminal"
          /\ MutationBound(CellOf(w), FenceOf(w), MarkerOf(w), ReferenceAt(w.ref))
       THEN Snapshot("settle", 0) ELSE Idle)

(* The cell becomes appending under the head it will extend, unless it is  *)
(* already held so; losing this write gives no right to publish.           *)
ClaimAt(x, head, onHeld, onSuccess) ==
  LET w == worker[x] IN
  IF CanClaim(CellOf(w), FenceOf(w), MarkerOf(w), ReferenceAt(w.ref))
  THEN IF Claimed(CellOf(w), head) = CellOf(w)
       THEN Continue(x, onHeld)
       ELSE WriteOperations(x, Claimed(CellOf(w), head), onSuccess, Retried(w))
  ELSE Stop(x)

(* _claim_discovered_landed: the event is already canonical. *)
DiscoverLanded(x) ==
  LET w == worker[x]
      op == CellOf(w).op
  IN
  /\ MayAppend(x)
  /\ HasLanded(op, w.e)
  /\ IF CellOf(w).state = "appending"
     THEN Continue(x, Snapshot("settle", 0))
     ELSE ClaimAt(x, FirstTaken(op, w.e) - 1, Snapshot("settle", 0), Snapshot("settle", 0))

(* _terminal_absent: the competing write with the claim of the append. *)
TerminateAbsent(x, result, onFailure) ==
  LET w == worker[x] IN
  IF CanTerminate(CellOf(w), FenceOf(w), MarkerOf(w), ReferenceAt(w.ref), result, FALSE)
  THEN WriteOperations(x, TerminalCell(CellOf(w), result, w.e, 0),
                       Snapshot("settle", 0), onFailure)
  ELSE Stop(x)

(* Another operation holds the idempotency key. *)
FindConflict(x) ==
  LET w == worker[x] IN
  /\ MayAppend(x)
  /\ IsConflict(CellOf(w).op, w.e)
  /\ IF CellOf(w).state = "appending" THEN Stop(x)
     ELSE TerminateAbsent(x, "conflict", {Idle})

Absent(x) == MayAppend(x) /\ KeyTakenAt(CellOf(worker[x]).op, worker[x].e) = {}

(* The operation changes nothing, or no longer applies.  An appending cell *)
(* is left alone: its publication may still be under way.                  *)
FindInapplicable(x) ==
  LET w == worker[x]
      noop == IsNoop(CellOf(w).op, w.e)
  IN
  /\ Absent(x)
  /\ noop \/ IsRejected(CellOf(w).op, CellOf(w).base, w.e)
  /\ IF CellOf(w).state = "appending" THEN Stop(x)
     ELSE TerminateAbsent(x, IF noop THEN "semantic_noop" ELSE "conflict", Retried(w))

Applicable(x) ==
  LET w == worker[x] IN
  /\ Absent(x)
  /\ ~ IsNoop(CellOf(w).op, w.e)
  /\ ~ IsRejected(CellOf(w).op, CellOf(w).base, w.e)

(* The evidence an event needs is read from projections of this very head; *)
(* when they lag, they are repaired first, unless it needs none of them or *)
(* the host supplies it.                                                   *)
MissFacts(x) ==
  LET w == worker[x] IN
  /\ Applicable(x)
  /\ ~ (PublicIsCurrent(w) /\ PrivateIsCurrent(w))
  /\ Continue(x, Snapshot("repair", 0))

PublishUnclaimed(x) ==
  /\ Applicable(x)
  /\ Continue(x, [worker[x] EXCEPT !.pc = "publish-event"])

ClaimAppend(x) ==
  LET w == worker[x] IN
  /\ Applicable(x)
  /\ ClaimAt(x, w.e, [w EXCEPT !.pc = "publish-event"],
                     [w EXCEPT !.pc = "publish-event", !.o = w.o + 1])

(* update_events: publish the unattached commit made on the claimed head. *)
UpdateEvents(x) ==
  LET w == worker[x] IN
  /\ w.pc = "publish-event"
  /\ WriteEvents(x, CellOf(w).op, Snapshot("settle", 0), Retried(w))

-----------------------------------------------------------------------------
(* Publication: public coverage first, then the private projection, each   *)
(* write preceded by a check that the canonical source has not moved.      *)

(* Recovery again, after append has returned or asked for a repair.        *)
Settle(x) ==
  LET w == worker[x] IN
  /\ Decides(x, "settle") \/ Decides(x, "repair")
  /\ Continue(x, IF RecoversUnderGuards(w) /\ FenceOf(w).state = "mutation"
                   THEN [w EXCEPT !.pc = "check-public"] ELSE Idle)

SourceCheck == [pc \in {"check-public", "check-private", "check-state",
                        "check-complete", "check-release"} |->
  CASE pc = "check-public"   -> "public"
    [] pc = "check-private"  -> "private"
    [] pc = "check-state"    -> "state"
    [] pc = "check-complete" -> "close"
    [] pc = "check-release"  -> "release"]

SkipSourceCheck(x) ==
  LET w == worker[x] IN
  /\ w.pc \in DOMAIN SourceCheck
  /\ Continue(x, [w EXCEPT !.pc = SourceCheck[w.pc]])

(* _same_source: the next write is only for the canonical head held. *)
CheckSource(x) ==
  LET w == worker[x] IN
  /\ w.pc \in DOMAIN SourceCheck
  /\ Continue(x, IF Len(events) = w.e THEN [w EXCEPT !.pc = SourceCheck[w.pc]] ELSE Idle)

PublishCoverage(x) ==
  LET w == worker[x] IN
  /\ w.pc = "public"
  /\ IF PublicIsCurrent(w)
     THEN Continue(x, [w EXCEPT !.pc = "check-private"])
     ELSE WriteCoverage(x, [coverage[w.c] EXCEPT !.src = w.e],
                        [w EXCEPT !.pc = "check-private", !.c = w.c + 1])

(* A repair ends here and append is tried again; otherwise the process     *)
(* rereads every head before it completes the operation.                   *)
Published(w) ==
  IF w.task = "repair" THEN Idle
  ELSE [w EXCEPT !.pc = "events", !.task = "refresh"]

(* The shards are written in bounded batches, which leave the old state    *)
(* file over new shards; the state file, written last, seals them.         *)
PublishShards(x) ==
  LET w == worker[x] IN
  /\ w.pc = "private"
  /\ IF PrivateIsCurrent(w)
     THEN Continue(x, Published(w))
     ELSE WriteDerived(x, [derived[w.d] EXCEPT !.sealed = FALSE],
                       [w EXCEPT !.pc = "check-state", !.d = w.d + 1])

PublishState(x) ==
  LET w == worker[x] IN
  /\ w.pc = "state"
  /\ WriteDerived(x, [gen |-> Generation(w.e), sealed |-> TRUE],
                  Published([w EXCEPT !.d = w.d + 1]))

-----------------------------------------------------------------------------
(* complete: close the marker, make the cell terminal, release the fence   *)
(* and clear the cell, in that order and each at the head of the last.     *)

CloseMarker(x) ==
  LET w == worker[x]
      next == [w EXCEPT !.pc = IF CellOf(w).state = "appending" THEN "land"
                                                                ELSE "check-release"]
  IN
  /\ w.pc = "close"
  /\ IF w.proof # 0 THEN Continue(x, [w EXCEPT !.pc = "clear"])
     ELSE IF ~ CanClose(CellOf(w), FenceOf(w), MarkerOf(w), FencedReference(w), TRUE)
     THEN Stop(x)
     ELSE IF MarkerOf(w) = None THEN Continue(x, next)
     ELSE WriteCoverage(x, [coverage[w.c] EXCEPT !.marker = None],
                        [next EXCEPT !.c = w.c + 1])

TerminateLanded(x) ==
  LET w == worker[x]
      op == CellOf(w).op
  IN
  /\ w.pc = "land"
  /\ IF /\ HasLanded(op, w.e)
        /\ CanTerminate(CellOf(w), FenceOf(w), MarkerOf(w), FencedReference(w),
                        "landed", TRUE)
     THEN WriteOperations(x, TerminalCell(CellOf(w), "landed", w.e, FirstTaken(op, w.e)),
                          [w EXCEPT !.pc = "check-release", !.o = w.o + 1], {Idle})
     ELSE Stop(x)

ReleaseFence(x) ==
  LET w == worker[x] IN
  /\ w.pc = "release"
  /\ IF CanRelease(FenceOf(w), CellOf(w), MarkerOf(w), FencedReference(w), TRUE)
     THEN WriteCoverage(x, [coverage[w.c] EXCEPT !.fence = Released(FenceOf(w))],
                        [w EXCEPT !.pc = "clear", !.c = w.c + 1, !.proof = w.c])
     ELSE Stop(x)

Clear(x) ==
  LET w == worker[x]
      owner == coverage[w.proof].fence
  IN
  /\ w.pc = "clear"
  /\ IF CanClear(CellOf(w), owner, coverage[w.proof + 1].fence, MarkerOf(w),
                 ReferenceAt(owner.prep))
     THEN WriteOperations(x, IdleCell, Idle, {Idle})
     ELSE Stop(x)

-----------------------------------------------------------------------------
(* The environment. *)

(* A worker dies, or its transport fails in a way that writes nothing. *)
Crash(x) ==
  /\ faults < MaxFaults
  /\ worker[x].pc # "idle"
  /\ faults' = faults + 1
  /\ Step(x, Idle)
  /\ UNCHANGED <<branches, late>>

(* A write given up as indeterminate is applied after all. *)
Deliver ==
  /\ \/ \E put \in late.events : AppendEvents(put)
     \/ \E put \in late.operations : AppendOperations(put)
     \/ \E put \in late.coverage : AppendCoverage(put)
     \/ \E put \in late.derived : AppendDerived(put)
  /\ UNCHANGED <<worker, faults>>

Tip == coverage[Len(coverage)]

(* An authoritative success check reserves the fence and, once its         *)
(* completion is verified, releases it.                                    *)
ReserveSuccess ==
  /\ Tip.fence.gen < MaxGeneration
  /\ CanReserve(Tip.fence, Tip.marker)
  /\ AppendCoverage([Tip EXCEPT !.fence = ReservedFence(@)])
  /\ UNCHANGED <<worker, faults>>

ReleaseSuccess ==
  /\ Tip.fence.state = "success_reserved"
  /\ AppendCoverage([Tip EXCEPT !.fence = Released(@)])
  /\ UNCHANGED <<worker, faults>>

(* Another canonical writer publishes an event replay accepts. *)
Compete(op) ==
  /\ op \in Competitor
  /\ KeyTakenAt(op, Len(events)) = {}
  /\ ~ IsRejected(op, Len(events), Len(events))
  /\ AppendEvents(op)
  /\ UNCHANGED <<worker, faults>>

Reconcile(x) ==
  \/ StartReconcile(x)
  \/ ReadEvents(x) \/ ReadDerived(x) \/ ReadOperations(x) \/ ReadCoverage(x)
  \/ Recover(x) \/ AcquireFence(x) \/ OpenMarker(x)
  \/ AppendReturns(x) \/ DiscoverLanded(x) \/ FindConflict(x) \/ FindInapplicable(x)
  \/ MissFacts(x) \/ ClaimAppend(x) \/ UpdateEvents(x)
  \/ Settle(x) \/ CheckSource(x) \/ PublishCoverage(x)
  \/ PublishShards(x) \/ PublishState(x)
  \/ CloseMarker(x) \/ TerminateLanded(x) \/ ReleaseFence(x) \/ Clear(x)

Environment ==
  Deliver \/ ReserveSuccess \/ ReleaseSuccess \/ \E op \in Competitor : Compete(op)

Next ==
  \/ \E x \in Process : StartPrepare(x) \/ Prepare(x) \/ Reconcile(x) \/ Crash(x)
  \/ Environment

Spec == Init /\ [][Next]_vars

(* Attempts are made again and again (a host retries, a nightly job runs   *)
(* reconcile whatever else is submitted), an attempt under way goes on     *)
(* unless it crashes, and a success check that reserved the fence lets go. *)
Fairness ==
  /\ \A x \in Process :
       /\ SF_vars(StartReconcile(x))
       /\ WF_vars(Prepare(x) \/ Reconcile(x))
  /\ WF_vars(ReleaseSuccess)

FairSpec == Spec /\ Fairness
=============================================================================
