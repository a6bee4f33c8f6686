------------------------ MODULE MutationEngineProofs ------------------------
(* Theorems of MutationEngine, for every set of processes, operations and  *)
(* keys and every bound.                                                   *)
EXTENDS MutationEngineProperties, WellFoundedInduction,
        FiniteSetTheorems, TLAPS

(* A nonempty set of naturals has a least element, and a bounded one a     *)
(* greatest: what Min and Max choose.                                      *)
LEMMA MinChosen ==
  ASSUME NEW S, S \subseteq Nat, S # {}
  PROVE  /\ Min(S) \in S
         /\ \A i \in S : Min(S) <= i
<1>1. \E i \in S : \A j \in S : ~ (<<j, i>> \in OpToRel(<, Nat))
  BY NatLessThanWellFounded, WFMin
<1>2. PICK i \in S : \A j \in S : ~ (<<j, i>> \in OpToRel(<, Nat))
  BY <1>1
<1>3. \A j \in S : ~ (j < i)
  BY <1>2 DEF OpToRel
<1>4. \A j \in S : i <= j
  BY <1>3
<1> QED BY <1>4 DEF Min

(* A nonempty bounded set of naturals has a greatest element, which Max    *)
(* chooses.                                                                *)
LEMMA MaxChosen ==
  ASSUME NEW b \in Nat, NEW S, S \subseteq 0..b, S # {}
  PROVE  /\ Max(S) \in S
         /\ \A i \in S : i <= Max(S)
<1> DEFINE T == {b - i : i \in S}
<1>1. T \subseteq Nat /\ T # {}
  OBVIOUS
<1> DEFINE m == b - Min(T)
<1>2. m \in S /\ \A i \in S : m >= i
  <2>1. Min(T) \in T /\ \A j \in T : Min(T) <= j
    BY <1>1, MinChosen
  <2>2. PICK k \in S : Min(T) = b - k
    BY <2>1
  <2>3. \A i \in S : b - k <= b - i
    BY <2>1, <2>2
  <2>4. k \in S /\ \A i \in S : k >= i
    BY <2>3
  <2> QED BY <2>2, <2>4
<1> QED BY <1>2 DEF Max

-----------------------------------------------------------------------------
(* The inductive invariant.  TypeOK and AtMostOnce are not inductive: a    *)
(* step that reads a commit needs that the heads a process holds exist, an *)
(* append needs that the operation about to be published is a real one     *)
(* whose key is still free, at the head the write is conditional on or, if *)
(* the write was given up, for as long as it may still be applied.         *)

(* A cell that is not idle holds an operation. *)
OwnedCell == {cell \in Cell : cell.state # "idle" => cell.op \in Operation}

KeyFree(op, log) == \A i \in 1..Len(log) : IdempotencyKey[log[i]] # IdempotencyKey[op]

(* What process state w holds is on branches ev, ops, cov and der.         *)
Fits(w, ev, ops, cov, der) ==
  /\ w \in Worker
  /\ w.e \in 0..Len(ev)
  /\ w.o \in 1..Len(ops)
  /\ w.c \in 1..Len(cov)
  /\ w.d \in 1..Len(der)
  /\ w.pc = "publish-event" =>
       /\ ops[w.o].op \in Operation
       /\ \A i \in 1..w.e : IdempotencyKey[ev[i]] # IdempotencyKey[ops[w.o].op]

FitsNow(w) == Fits(w, events, operations, coverage, derived)

LateWrites == [events : SUBSET Operation, operations : SUBSET OwnedCell,
               coverage : SUBSET Coverage, derived : SUBSET Derived]

LateFits(l, log) == l \in LateWrites /\ \A op \in l.events : KeyFree(op, log)

Branches ==
  /\ events \in Seq(Operation)
  /\ operations \in Seq(OwnedCell) /\ operations # <<>>
  /\ coverage \in Seq(Coverage) /\ coverage # <<>>
  /\ derived \in Seq(Derived) /\ derived # <<>>
  /\ LateFits(late, events)
  /\ faults \in Nat
  /\ AtMostOnce

IInv ==
  /\ Branches
  /\ worker \in [Process -> Worker]
  /\ \A x \in Process : FitsNow(worker[x])

(* The invariant is strong enough, holds at first and is kept by every step. *)
LEMMA InvariantImpliesTypeOK == IInv => TypeOK
BY DEF IInv, Branches, LateFits, LateWrites, OwnedCell, TypeOK

(* The connected project satisfies the invariant.                          *)
LEMMA InitEstablishes == Init => IInv
<1> SUFFICES ASSUME Init PROVE IInv
  OBVIOUS
<1>1. IdleCell \in OwnedCell
  BY DEF IdleCell, OwnedCell, Cell
<1>2. [fence |-> IdleFence(0), marker |-> None, src |-> 0] \in Coverage
  BY DEF Coverage, IdleFence, Fence
<1>3. Idle \in Worker
  BY DEF Idle, Worker, Places, Tasks
<1>4. LateFits(late, events)
  BY DEF Init, LateFits, LateWrites, NothingLate
<1>5. Branches
  BY <1>1, <1>2, <1>4 DEF Init, Branches, AtMostOnce, Derived
<1>6. ASSUME NEW x \in Process PROVE FitsNow(worker[x])
  BY <1>3 DEF Init, FitsNow, Fits, Idle
<1> QED BY <1>3, <1>5, <1>6 DEF Init, IInv

-----------------------------------------------------------------------------
(* What a branch that grows leaves in place. *)

(* What a process holds survives an append to the canonical branch ...     *)
LEMMA FitsOnLongerEvents ==
  ASSUME Branches, NEW w, FitsNow(w), NEW put \in Operation
  PROVE  Fits(w, Append(events, put), operations, coverage, derived)
BY DEF Branches, FitsNow, Fits

(* ... to the operation branch ...                                         *)
LEMMA FitsOnLongerOperations ==
  ASSUME Branches, NEW w, FitsNow(w), NEW put \in OwnedCell
  PROVE  Fits(w, events, Append(operations, put), coverage, derived)
BY DEF Branches, FitsNow, Fits

(* ... to the coverage branch ...                                          *)
LEMMA FitsOnLongerCoverage ==
  ASSUME Branches, NEW w, FitsNow(w), NEW put \in Coverage
  PROVE  Fits(w, events, operations, Append(coverage, put), derived)
BY DEF Branches, FitsNow, Fits

(* ... and to the derived branch.                                          *)
LEMMA FitsOnLongerDerived ==
  ASSUME Branches, NEW w, FitsNow(w), NEW put \in Derived
  PROVE  Fits(w, events, operations, coverage, Append(derived, put))
BY DEF Branches, FitsNow, Fits

FitsNext(w) == Fits(w, events', operations', coverage', derived')

(* An event under a free key keeps the branches and what processes hold.   *)
LEMMA EventsGrow ==
  ASSUME Branches, NEW put \in Operation, KeyFree(put, events),
         AppendEvents(put), UNCHANGED faults
  PROVE  Branches' /\ \A w : FitsNow(w) => FitsNext(w)
<1>1. \A w : FitsNow(w) => FitsNext(w)
  BY FitsOnLongerEvents DEF AppendEvents, FitsNext
<1>2. AtMostOnce'
  BY DEF Branches, AppendEvents, AtMostOnce, KeyFree
<1>3. LateFits(late, events)'
  BY DEF Branches, AppendEvents, LateFits, LateWrites, KeyFree
<1> QED BY <1>1, <1>2, <1>3 DEF Branches, AppendEvents

(* So does the write of an owned cell,                                     *)
LEMMA OperationsGrow ==
  ASSUME Branches, NEW put \in OwnedCell, AppendOperations(put), UNCHANGED faults
  PROVE  Branches' /\ \A w : FitsNow(w) => FitsNext(w)
<1>1. \A w : FitsNow(w) => FitsNext(w)
  BY FitsOnLongerOperations DEF AppendOperations, FitsNext
<1>2. AtMostOnce'
  BY DEF Branches, AppendOperations, AtMostOnce
<1>3. LateFits(late, events)'
  BY DEF Branches, AppendOperations, LateFits, LateWrites, KeyFree
<1>4. operations' \in Seq(OwnedCell) /\ operations' # <<>>
  BY DEF Branches, AppendOperations
<1> QED BY <1>1, <1>2, <1>3, <1>4 DEF Branches, AppendOperations

(* ... of the guards and the public projection,                            *)
LEMMA CoverageGrows ==
  ASSUME Branches, NEW put \in Coverage, AppendCoverage(put), UNCHANGED faults
  PROVE  Branches' /\ \A w : FitsNow(w) => FitsNext(w)
<1>1. \A w : FitsNow(w) => FitsNext(w)
  BY FitsOnLongerCoverage DEF AppendCoverage, FitsNext
<1>2. AtMostOnce'
  BY DEF Branches, AppendCoverage, AtMostOnce
<1>3. LateFits(late, events)'
  BY DEF Branches, AppendCoverage, LateFits, LateWrites, KeyFree
<1>4. coverage' \in Seq(Coverage) /\ coverage' # <<>>
  BY DEF Branches, AppendCoverage
<1> QED BY <1>1, <1>2, <1>3, <1>4 DEF Branches, AppendCoverage

(* ... and of the private projection.                                      *)
LEMMA DerivedGrows ==
  ASSUME Branches, NEW put \in Derived, AppendDerived(put), UNCHANGED faults
  PROVE  Branches' /\ \A w : FitsNow(w) => FitsNext(w)
<1>1. \A w : FitsNow(w) => FitsNext(w)
  BY FitsOnLongerDerived DEF AppendDerived, FitsNext
<1>2. AtMostOnce'
  BY DEF Branches, AppendDerived, AtMostOnce
<1>3. LateFits(late, events)'
  BY DEF Branches, AppendDerived, LateFits, LateWrites, KeyFree
<1> QED BY <1>1, <1>2, <1>3 DEF Branches, AppendDerived

(* A step that writes no branch keeps them, if what becomes late fits.     *)
LEMMA BranchesStay ==
  ASSUME Branches, UNCHANGED branches, LateFits(late', events), faults' \in Nat
  PROVE  Branches' /\ \A w : FitsNow(w) => FitsNext(w)
BY DEF Branches, branches, LateFits, LateWrites, KeyFree, AtMostOnce, FitsNow, FitsNext

(* A process that moves to a state that fits, while the others stay.       *)
LEMMA ProcessMoves ==
  ASSUME IInv, Branches', \A v : FitsNow(v) => FitsNext(v),
         NEW x \in Process, NEW w, FitsNext(w), Step(x, w)
  PROVE  IInv'
<1>1. w \in Worker
  BY DEF FitsNext, Fits
<1>2. worker' \in [Process -> Worker]
  BY <1>1 DEF IInv, Step
<1>3. ASSUME NEW y \in Process PROVE FitsNext(worker'[y])
  BY <1>2 DEF IInv, Step
<1> QED BY <1>2, <1>3 DEF IInv, FitsNext, FitsNow

(* Processes that stay still fit the branches that grow.                   *)
LEMMA ProcessesStay ==
  ASSUME IInv, Branches', \A v : FitsNow(v) => FitsNext(v), UNCHANGED worker
  PROVE  IInv'
BY DEF IInv, FitsNext, FitsNow

-----------------------------------------------------------------------------
(* The ways a process goes on. *)

(* A process may always give up,                                           *)
LEMMA IdleFits == ASSUME Branches PROVE FitsNow(Idle)
BY DEF Branches, FitsNow, Fits, Idle, Worker, Places, Tasks

(* ... and may always begin a new snapshot.                                *)
LEMMA SnapshotFits ==
  ASSUME Branches, NEW task \in Tasks, NEW ref \in Nat
  PROVE  FitsNow(Snapshot(task, ref))
<1>1. FitsNow(Idle)
  BY IdleFits
<1>2. Idle \in Worker
  BY <1>1 DEF FitsNow, Fits
<1>3. /\ Snapshot(task, ref) \in Worker
      /\ Snapshot(task, ref).pc = "events"
      /\ \A f \in {"e", "o", "c", "d"} : Snapshot(task, ref)[f] = Idle[f]
  BY <1>2 DEF Snapshot, Worker, Places
<1> QED BY <1>1, <1>3 DEF FitsNow, Fits

(* A local step to a state that fits keeps the invariant.                  *)
LEMMA ContinueKeeps ==
  ASSUME IInv, NEW x \in Process, NEW w, FitsNow(w), Continue(x, w)
  PROVE  IInv'
<1>1. LateFits(late', events) /\ faults' \in Nat /\ UNCHANGED branches
  BY DEF Continue, IInv, Branches
<1>2. Branches' /\ \A v : FitsNow(v) => FitsNext(v)
  BY <1>1, BranchesStay DEF IInv
<1> QED BY <1>2, ProcessMoves DEF Continue

(* Giving up keeps the invariant.                                          *)
LEMMA StopKeeps ==
  ASSUME IInv, NEW x \in Process, Stop(x)
  PROVE  IInv'
BY ContinueKeeps, IdleFits DEF Stop, Continue, IInv

(* A write refused or lost keeps the invariant.                            *)
LEMMA LoseOrRefuseKeeps ==
  ASSUME IInv, NEW x \in Process, NEW onFailure, \A w \in onFailure : FitsNow(w),
         \E w \in onFailure : Step(x, w), UNCHANGED branches,
         LateFits(late', events), faults' \in Nat
  PROVE  IInv'
<1>1. PICK w \in onFailure : Step(x, w)
  OBVIOUS
<1>2. Branches' /\ \A v : FitsNow(v) => FitsNext(v)
  BY BranchesStay DEF IInv
<1> QED BY <1>1, <1>2, ProcessMoves

(* A write given up as indeterminate joins those that may still be applied. *)
LEMMA LateEvent ==
  ASSUME Branches, NEW put \in Operation, KeyFree(put, events)
  PROVE  LateFits([late EXCEPT !.events = @ \union {put}], events)
BY DEF Branches, LateFits, LateWrites

(* The same of a cell,                                                     *)
LEMMA LateOperation ==
  ASSUME Branches, NEW put \in OwnedCell
  PROVE  LateFits([late EXCEPT !.operations = @ \union {put}], events)
BY DEF Branches, LateFits, LateWrites

(* ... of the guards,                                                      *)
LEMMA LateCoverage ==
  ASSUME Branches, NEW put \in Coverage
  PROVE  LateFits([late EXCEPT !.coverage = @ \union {put}], events)
BY DEF Branches, LateFits, LateWrites

(* ... and of the private projection.                                      *)
LEMMA LateDerived ==
  ASSUME Branches, NEW put \in Derived
  PROVE  LateFits([late EXCEPT !.derived = @ \union {put}], events)
BY DEF Branches, LateFits, LateWrites

(* The conditional publication of an event whose key is free there keeps   *)
(* the invariant.                                                          *)
LEMMA WriteEventsKeeps ==
  ASSUME IInv, NEW x \in Process, NEW put \in Operation, NEW w, NEW onFailure,
         Len(events) = worker[x].e => KeyFree(put, events),
         FitsNow(w), \A v \in onFailure : FitsNow(v),
         WriteEvents(x, put, w, onFailure)
  PROVE  IInv'
<1>1. CASE /\ Len(events) = worker[x].e
           /\ AppendEvents(put)
           /\ Step(x, w)
           /\ UNCHANGED faults
  BY <1>1, EventsGrow, ProcessMoves DEF IInv
<1>2. CASE LoseOrRefuse(x, Len(events) = worker[x].e,
             [late EXCEPT !.events = @ \union {put}], onFailure)
  <2>1. LateFits(late', events) /\ faults' \in Nat
    BY <1>2, LateEvent DEF LoseOrRefuse, IInv, Branches
  <2> QED BY <1>2, <2>1, LoseOrRefuseKeeps DEF LoseOrRefuse
<1> QED BY <1>1, <1>2 DEF WriteEvents

(* The conditional write of an owned cell keeps the invariant.             *)
LEMMA WriteOperationsKeeps ==
  ASSUME IInv, NEW x \in Process, NEW put \in OwnedCell, NEW w, NEW onFailure,
         Len(operations) = worker[x].o =>
           Fits(w, events, Append(operations, put), coverage, derived),
         \A v \in onFailure : FitsNow(v),
         WriteOperations(x, put, w, onFailure)
  PROVE  IInv'
<1>1. CASE /\ Len(operations) = worker[x].o
           /\ AppendOperations(put)
           /\ Step(x, w)
           /\ UNCHANGED faults
  <2>1. FitsNext(w)
    BY <1>1 DEF AppendOperations, FitsNext
  <2> QED BY <1>1, <2>1, OperationsGrow, ProcessMoves DEF IInv
<1>2. CASE LoseOrRefuse(x, Len(operations) = worker[x].o,
             [late EXCEPT !.operations = @ \union {put}], onFailure)
  <2>1. LateFits(late', events) /\ faults' \in Nat
    BY <1>2, LateOperation DEF LoseOrRefuse, IInv, Branches
  <2> QED BY <1>2, <2>1, LoseOrRefuseKeeps DEF LoseOrRefuse
<1> QED BY <1>1, <1>2 DEF WriteOperations

(* The conditional write of the coverage branch keeps the invariant.       *)
LEMMA WriteCoverageKeeps ==
  ASSUME IInv, NEW x \in Process, NEW put \in Coverage, NEW w,
         Len(coverage) = worker[x].c =>
           Fits(w, events, operations, Append(coverage, put), derived),
         WriteCoverage(x, put, w)
  PROVE  IInv'
<1>1. CASE /\ Len(coverage) = worker[x].c
           /\ AppendCoverage(put)
           /\ Step(x, w)
           /\ UNCHANGED faults
  <2>1. FitsNext(w)
    BY <1>1 DEF AppendCoverage, FitsNext
  <2> QED BY <1>1, <2>1, CoverageGrows, ProcessMoves DEF IInv
<1>2. CASE LoseOrRefuse(x, Len(coverage) = worker[x].c,
             [late EXCEPT !.coverage = @ \union {put}], {Idle})
  <2>1. LateFits(late', events) /\ faults' \in Nat
    BY <1>2, LateCoverage DEF LoseOrRefuse, IInv, Branches
  <2> QED BY <1>2, <2>1, IdleFits, LoseOrRefuseKeeps DEF LoseOrRefuse, IInv
<1> QED BY <1>1, <1>2 DEF WriteCoverage

(* The conditional write of the derived branch keeps the invariant.        *)
LEMMA WriteDerivedKeeps ==
  ASSUME IInv, NEW x \in Process, NEW put \in Derived, NEW w,
         Len(derived) = worker[x].d =>
           Fits(w, events, operations, coverage, Append(derived, put)),
         WriteDerived(x, put, w)
  PROVE  IInv'
<1>1. CASE /\ Len(derived) = worker[x].d
           /\ AppendDerived(put)
           /\ Step(x, w)
           /\ UNCHANGED faults
  <2>1. FitsNext(w)
    BY <1>1 DEF AppendDerived, FitsNext
  <2> QED BY <1>1, <2>1, DerivedGrows, ProcessMoves DEF IInv
<1>2. CASE LoseOrRefuse(x, Len(derived) = worker[x].d,
             [late EXCEPT !.derived = @ \union {put}], {Idle})
  <2>1. LateFits(late', events) /\ faults' \in Nat
    BY <1>2, LateDerived DEF LoseOrRefuse, IInv, Branches
  <2> QED BY <1>2, <2>1, IdleFits, LoseOrRefuseKeeps DEF LoseOrRefuse, IInv
<1> QED BY <1>1, <1>2 DEF WriteDerived

-----------------------------------------------------------------------------
(* What a process reads and computes. *)

(* Whatever a process reads at the heads it holds is well formed.          *)
LEMMA WhatIsRead ==
  ASSUME IInv, NEW x \in Process
  PROVE  /\ worker[x] \in Worker
         /\ FitsNow(worker[x])
         /\ CellOf(worker[x]) \in OwnedCell
         /\ CellOf(worker[x]) \in Cell
         /\ coverage[worker[x].c] \in Coverage
         /\ FenceOf(worker[x]) \in Fence
         /\ MarkerOf(worker[x]) \in Operation \union {None}
         /\ derived[worker[x].d] \in Derived
<1>1. FitsNow(worker[x]) /\ Branches
  BY DEF IInv
<1>2. CellOf(worker[x]) \in OwnedCell
  BY <1>1 DEF FitsNow, Fits, Branches, CellOf
<1>3. coverage[worker[x].c] \in Coverage
  BY <1>1 DEF FitsNow, Fits, Branches
<1>4. derived[worker[x].d] \in Derived
  BY <1>1 DEF FitsNow, Fits, Branches
<1>5. FenceOf(worker[x]) \in Fence /\ MarkerOf(worker[x]) \in Operation \union {None}
  BY <1>3 DEF Coverage, FenceOf, MarkerOf
<1> QED BY <1>1, <1>2, <1>3, <1>4, <1>5 DEF OwnedCell, FitsNow, Fits

(* A taken key was first taken by a commit of that prefix.                 *)
LEMMA FirstTakenExists ==
  ASSUME NEW op, NEW e \in Nat, KeyTakenAt(op, e) # {}
  PROVE  FirstTaken(op, e) \in 1..e
<1>1. KeyTakenAt(op, e) \subseteq Nat
  BY DEF KeyTakenAt
<1>2. FirstTaken(op, e) \in KeyTakenAt(op, e)
  BY <1>1, MinChosen DEF FirstTaken
<1> QED BY <1>2 DEF KeyTakenAt

(* A materialization generation is the position of a commit, or 0.         *)
LEMMA GenerationIsNatural ==
  ASSUME NEW e \in Nat
  PROVE  Generation(e) \in Nat
<1> DEFINE S == {0} \union {i \in 1..e : events[i] \in Private}
<1>1. S \subseteq 0..e /\ S # {}
  OBVIOUS
<1>2. Max(S) \in S
  BY <1>1, MaxChosen
<1> QED BY <1>1, <1>2 DEF Generation

(* Moving to another place than publication needs nothing more.            *)
LEMMA PlaceFits ==
  ASSUME NEW w, FitsNow(w), NEW place \in Places, place # "publish-event"
  PROVE  FitsNow([w EXCEPT !.pc = place])
BY DEF FitsNow, Fits, Worker

(* A process that moves on with the head of a branch it has just read. *)
LEMMA HeadFits ==
  ASSUME Branches, NEW w, FitsNow(w), NEW place \in Places, place # "publish-event"
  PROVE  /\ FitsNow([w EXCEPT !.pc = place, !.e = Len(events)])
         /\ FitsNow([w EXCEPT !.pc = place, !.o = Len(operations)])
         /\ FitsNow([w EXCEPT !.pc = place, !.c = Len(coverage)])
         /\ FitsNow([w EXCEPT !.pc = place, !.d = Len(derived)])
<1> DEFINE v == [w EXCEPT !.pc = place]
<1>1. FitsNow(v) /\ v.pc = place
  BY PlaceFits DEF FitsNow, Fits, Worker
<1> HIDE DEF v
<1>2. /\ Len(events) \in Nat
      /\ Len(operations) \in Nat \ {0}
      /\ Len(coverage) \in Nat \ {0}
      /\ Len(derived) \in Nat \ {0}
  BY DEF Branches
<1>3. v \in Worker
  BY <1>1 DEF FitsNow, Fits
<1>4. /\ [v EXCEPT !.e = Len(events)] \in Worker
      /\ [v EXCEPT !.o = Len(operations)] \in Worker
      /\ [v EXCEPT !.c = Len(coverage)] \in Worker
      /\ [v EXCEPT !.d = Len(derived)] \in Worker
  BY <1>2, <1>3 DEF Worker
<1>5. FitsNow([v EXCEPT !.e = Len(events)])
  BY <1>1, <1>2, <1>4 DEF FitsNow, Fits, Worker
<1>6. FitsNow([v EXCEPT !.o = Len(operations)])
  BY <1>1, <1>2, <1>4 DEF FitsNow, Fits, Worker
<1>7. FitsNow([v EXCEPT !.c = Len(coverage)])
  BY <1>1, <1>2, <1>4 DEF FitsNow, Fits, Worker
<1>8. FitsNow([v EXCEPT !.d = Len(derived)])
  BY <1>1, <1>2, <1>4 DEF FitsNow, Fits, Worker
<1> QED BY <1>5, <1>6, <1>7, <1>8 DEF v

(* A process that has committed takes its own commit for the head. *)
LEMMA CommitFits ==
  ASSUME Branches, NEW w, FitsNow(w), NEW place \in Places, place # "publish-event"
  PROVE  /\ \A put \in OwnedCell :
              Fits([w EXCEPT !.pc = place, !.o = w.o + 1],
                   events, Append(operations, put), coverage, derived)
         /\ \A put \in Coverage :
              Fits([w EXCEPT !.pc = place, !.c = w.c + 1],
                   events, operations, Append(coverage, put), derived)
         /\ \A put \in Derived :
              Fits([w EXCEPT !.pc = place, !.d = w.d + 1],
                   events, operations, coverage, Append(derived, put))
<1> DEFINE v == [w EXCEPT !.pc = place]
<1>1. /\ FitsNow(v)
      /\ v.pc = place
      /\ v.o = w.o /\ v.c = w.c /\ v.d = w.d
  BY PlaceFits DEF FitsNow, Fits, Worker
<1> HIDE DEF v
<1>2. v \in Worker
  BY <1>1 DEF FitsNow, Fits
<1>3. /\ [v EXCEPT !.o = w.o + 1] \in Worker
      /\ [v EXCEPT !.c = w.c + 1] \in Worker
      /\ [v EXCEPT !.d = w.d + 1] \in Worker
  BY <1>1, <1>2 DEF Worker
<1>4. /\ Len(operations) \in Nat
      /\ Len(coverage) \in Nat
      /\ Len(derived) \in Nat
      /\ \A put \in OwnedCell : Len(Append(operations, put)) = Len(operations) + 1
      /\ \A put \in Coverage : Len(Append(coverage, put)) = Len(coverage) + 1
      /\ \A put \in Derived : Len(Append(derived, put)) = Len(derived) + 1
  BY DEF Branches
<1>5. ASSUME NEW put \in OwnedCell
      PROVE  Fits([v EXCEPT !.o = w.o + 1], events, Append(operations, put), coverage, derived)
  <2>1. Fits(v, events, Append(operations, put), coverage, derived)
    BY <1>1, FitsOnLongerOperations
  <2>2. w.o + 1 \in 1..Len(Append(operations, put))
    BY <1>4 DEF FitsNow, Fits, Worker
  <2> QED BY <1>1, <1>2, <1>3, <2>1, <2>2 DEF Fits, Worker
<1>6. ASSUME NEW put \in Coverage
      PROVE  Fits([v EXCEPT !.c = w.c + 1], events, operations, Append(coverage, put), derived)
  <2>1. Fits(v, events, operations, Append(coverage, put), derived)
    BY <1>1, FitsOnLongerCoverage
  <2>2. w.c + 1 \in 1..Len(Append(coverage, put))
    BY <1>4 DEF FitsNow, Fits, Worker
  <2> QED BY <1>1, <1>2, <1>3, <2>1, <2>2 DEF Fits, Worker
<1>7. ASSUME NEW put \in Derived
      PROVE  Fits([v EXCEPT !.d = w.d + 1], events, operations, coverage, Append(derived, put))
  <2>1. Fits(v, events, operations, coverage, Append(derived, put))
    BY <1>1, FitsOnLongerDerived
  <2>2. w.d + 1 \in 1..Len(Append(derived, put))
    BY <1>4 DEF FitsNow, Fits, Worker
  <2> QED BY <1>1, <1>2, <1>3, <2>1, <2>2 DEF Fits, Worker
<1> QED BY <1>5, <1>6, <1>7 DEF v

-----------------------------------------------------------------------------
(* Every step keeps the invariant: one lemma per group of actions. *)

(* An attempt may start.                                                   *)
LEMMA StartKeeps ==
  ASSUME IInv, NEW x \in Process, StartPrepare(x) \/ StartReconcile(x)
  PROVE  IInv'
BY ContinueKeeps, SnapshotFits DEF StartPrepare, StartReconcile, IInv, Tasks

(* The heads a snapshot reads exist.                                       *)
LEMMA ReadKeeps ==
  ASSUME IInv, NEW x \in Process,
         ReadEvents(x) \/ ReadDerived(x) \/ ReadOperations(x) \/ ReadCoverage(x)
  PROVE  IInv'
<1> DEFINE w == worker[x]
<1>1. FitsNow(Idle)
  BY IdleFits DEF IInv
<1>2. FitsNow(w) /\ w \in Worker
  BY WhatIsRead
<1>3. CASE ReadEvents(x)
  <2>1. FitsNow([w EXCEPT !.pc = "derived", !.e = Len(events)])
    BY <1>2, HeadFits DEF IInv, Places
  <2> QED BY <1>1, <1>3, <2>1, ContinueKeeps DEF ReadEvents
<1>4. CASE ReadDerived(x)
  <2>1. FitsNow([w EXCEPT !.pc = "operations", !.d = Len(derived)])
    BY <1>2, HeadFits DEF IInv, Places
  <2> QED BY <1>1, <1>4, <2>1, ContinueKeeps DEF ReadDerived
<1>5. CASE ReadOperations(x)
  <2>1. FitsNow([w EXCEPT !.pc = "coverage", !.o = Len(operations)])
    BY <1>2, HeadFits DEF IInv, Places
  <2> QED BY <1>1, <1>5, <2>1, ContinueKeeps DEF ReadOperations
<1>6. CASE ReadCoverage(x)
  <2>1. FitsNow([w EXCEPT !.pc = IF w.task = "refresh" THEN "check-complete"
                                                        ELSE "decide",
                          !.c = Len(coverage)])
    BY <1>2, HeadFits DEF IInv, Places
  <2> QED BY <1>1, <1>6, <2>1, ContinueKeeps DEF ReadCoverage
<1> QED BY <1>3, <1>4, <1>5, <1>6

(* prepare writes an owned cell.                                           *)
LEMMA PrepareKeeps ==
  ASSUME IInv, NEW x \in Process, Prepare(x)
  PROVE  IInv'
<1>1. CASE Stop(x)
  BY <1>1, StopKeeps
<1>2. ASSUME NEW op \in Operation,
             WriteOperations(x, PreparedCell(op, worker[x].e), Idle, {Idle})
      PROVE  IInv'
  <2>1. worker[x].e \in Nat
    BY WhatIsRead DEF Worker
  <2>2. PreparedCell(op, worker[x].e) \in OwnedCell
    BY <2>1 DEF PreparedCell, IdleCell, OwnedCell, Cell
  <2>3. FitsNow(Idle)
    BY IdleFits DEF IInv
  <2>4. Fits(Idle, events, Append(operations, PreparedCell(op, worker[x].e)),
             coverage, derived)
    BY <2>2, <2>3, FitsOnLongerOperations DEF IInv
  <2> QED BY <1>2, <2>2, <2>3, <2>4, WriteOperationsKeeps
<1> QED BY <1>1, <1>2 DEF Prepare

(* recovery_state names a commit, and a release proof that exists.         *)
LEMMA RecoverKeeps ==
  ASSUME IInv, NEW x \in Process, Recover(x)
  PROVE  IInv'
<1> DEFINE w == worker[x]
           proof == CHOOSE k \in ReleaseProofs(w) : TRUE
<1>1. FitsNow(w) /\ w \in Worker /\ FenceOf(w) \in Fence
  BY WhatIsRead
<1>2. FitsNow(Idle)
  BY IdleFits DEF IInv
<1>3. RecoveredReference(w) \in Nat
  BY <1>1 DEF RecoveredReference, Worker, Fence
<1>4. FitsNow(Snapshot("begin", RecoveredReference(w)))
  BY <1>3, SnapshotFits DEF IInv, Tasks
<1>5. FitsNow([w EXCEPT !.pc = "check-public"])
  BY <1>1, PlaceFits DEF Places
<1>6. ASSUME RecoversReleased(w)
      PROVE  FitsNow([w EXCEPT !.pc = "check-complete", !.proof = proof])
  <2>1. ReleaseProofs(w) # {}
    BY <1>6, FS_EmptySet DEF RecoversReleased
  <2>2. proof \in Nat
    BY <1>1, <2>1 DEF ReleaseProofs, Worker
  <2> HIDE DEF proof
  <2> QED BY <1>1, <2>2 DEF FitsNow, Fits, Worker, Places
<1> QED BY <1>2, <1>4, <1>5, <1>6, ContinueKeeps DEF Recover

(* begin acquires a fence for the operation of the cell.                   *)
LEMMA AcquireFenceKeeps ==
  ASSUME IInv, NEW x \in Process, AcquireFence(x)
  PROVE  IInv'
<1> DEFINE w == worker[x]
           wanted == MutationFence(FenceOf(w), ReferenceAt(w.ref))
           put == [coverage[w.c] EXCEPT !.fence = wanted]
<1>1. /\ FitsNow(w) /\ w \in Worker
      /\ CellOf(w) \in Cell /\ FenceOf(w) \in Fence /\ coverage[w.c] \in Coverage
  BY WhatIsRead
<1>2. CASE Continue(x, [w EXCEPT !.pc = "open-marker"])
  BY <1>1, <1>2, PlaceFits, ContinueKeeps DEF Places
<1>3. CASE /\ CanAcquire(FenceOf(w), CellOf(w), ReferenceAt(w.ref))
           /\ WriteCoverage(x, put, [w EXCEPT !.pc = "open-marker", !.c = w.c + 1])
  <2>1. wanted \in Fence
    BY <1>1, <1>3 DEF CanAcquire, ReferenceAgrees, MutationFence, ReferenceAt, Reference,
                      Fence, Cell, Worker
  <2>2. put \in Coverage
    BY <1>1, <2>1 DEF Coverage
  <2>3. Fits([w EXCEPT !.pc = "open-marker", !.c = w.c + 1],
             events, operations, Append(coverage, put), derived)
    BY <1>1, <2>2, CommitFits DEF IInv, Places
  <2> QED BY <1>3, <2>2, <2>3, WriteCoverageKeeps
<1>4. CASE Stop(x)
  BY <1>4, StopKeeps
<1> QED BY <1>2, <1>3, <1>4 DEF AcquireFence

(* begin opens the marker of the fence it holds.                           *)
LEMMA OpenMarkerKeeps ==
  ASSUME IInv, NEW x \in Process, OpenMarker(x)
  PROVE  IInv'
<1> DEFINE w == worker[x]
           put == [coverage[w.c] EXCEPT !.marker = FenceOf(w).op]
<1>1. w \in Worker /\ FenceOf(w) \in Fence /\ coverage[w.c] \in Coverage
  BY WhatIsRead
<1>2. FitsNow(Snapshot("append", w.ref))
  BY <1>1, SnapshotFits DEF IInv, Tasks, Worker
<1>3. CASE Continue(x, Snapshot("append", w.ref))
  BY <1>2, <1>3, ContinueKeeps
<1>4. CASE WriteCoverage(x, put, Snapshot("append", w.ref))
  <2>1. put \in Coverage
    BY <1>1 DEF Coverage, Fence
  <2>2. Fits(Snapshot("append", w.ref), events, operations, Append(coverage, put), derived)
    BY <1>2, <2>1, FitsOnLongerCoverage DEF IInv
  <2> QED BY <1>4, <2>1, <2>2, WriteCoverageKeeps
<1>5. CASE Stop(x)
  BY <1>5, StopKeeps
<1> QED BY <1>3, <1>4, <1>5 DEF OpenMarker

(* The retries of append, and recovery after it, start from a snapshot. *)
LEMMA AppendGoesOn ==
  ASSUME IInv, NEW x \in Process
  PROVE  /\ FitsNow(Snapshot("settle", 0))
         /\ \A v \in Retried(worker[x]) : FitsNow(v)
<1>1. worker[x].ref \in Nat
  BY WhatIsRead DEF Worker
<1>2. FitsNow(Snapshot("settle", 0)) /\ FitsNow(Snapshot("append", worker[x].ref))
  BY <1>1, SnapshotFits DEF IInv, Tasks
<1> QED BY <1>2, IdleFits DEF Retried, IInv

(* append may find that it has nothing to do.                              *)
LEMMA AppendReturnsKeeps ==
  ASSUME IInv, NEW x \in Process, AppendReturns(x)
  PROVE  IInv'
BY AppendGoesOn, IdleFits, ContinueKeeps DEF AppendReturns, IInv

(* The claim of a live cell is an owned cell.                              *)
LEMMA ClaimAtKeeps ==
  ASSUME IInv, NEW x \in Process, NEW head \in Nat, NEW held, NEW written,
         Live(CellOf(worker[x])) => FitsNow(held),
         /\ Live(CellOf(worker[x]))
         /\ Len(operations) = worker[x].o
         /\ Claimed(CellOf(worker[x]), head) \in OwnedCell
         => Fits(written, events, Append(operations, Claimed(CellOf(worker[x]), head)),
                 coverage, derived),
         ClaimAt(x, head, held, written)
  PROVE  IInv'
<1> DEFINE w == worker[x]
           put == Claimed(CellOf(w), head)
<1>1. CASE Stop(x)
  BY <1>1, StopKeeps
<1>2. CASE Live(CellOf(w)) /\ Continue(x, held)
  BY <1>2, ContinueKeeps
<1>3. CASE Live(CellOf(w)) /\ WriteOperations(x, put, written, Retried(w))
  <2>1. put \in OwnedCell
    BY <1>3, WhatIsRead DEF Claimed, Live, OwnedCell, Cell
  <2>2. \A v \in Retried(w) : FitsNow(v)
    BY AppendGoesOn
  <2> QED BY <1>3, <2>1, <2>2, WriteOperationsKeeps
<1> QED BY <1>1, <1>2, <1>3 DEF ClaimAt, CanClaim

(* A landed event is claimed at the parent of its commit.                  *)
LEMMA DiscoverLandedKeeps ==
  ASSUME IInv, NEW x \in Process, DiscoverLanded(x)
  PROVE  IInv'
<1> DEFINE w == worker[x]
           head == FirstTaken(CellOf(w).op, w.e) - 1
           settle == Snapshot("settle", 0)
<1>1. FitsNow(settle)
  BY AppendGoesOn
<1>2. CASE Continue(x, settle)
  BY <1>1, <1>2, ContinueKeeps
<1>3. CASE ClaimAt(x, head, settle, settle)
  <2>1. head \in Nat
    BY FirstTakenExists, WhatIsRead DEF DiscoverLanded, HasLanded, Worker
  <2>2. Claimed(CellOf(w), head) \in OwnedCell
        => Fits(settle, events, Append(operations, Claimed(CellOf(w), head)),
                coverage, derived)
    BY <1>1, FitsOnLongerOperations DEF IInv
  <2> HIDE DEF head, settle
  <2> QED BY <1>1, <1>3, <2>1, <2>2, ClaimAtKeeps
<1> QED BY <1>2, <1>3 DEF DiscoverLanded

(* A live cell made terminal without an event is an owned cell.            *)
LEMMA TerminateAbsentKeeps ==
  ASSUME IInv, NEW x \in Process, NEW result \in Results, NEW onFailure,
         \A v \in onFailure : FitsNow(v), TerminateAbsent(x, result, onFailure)
  PROVE  IInv'
<1> DEFINE w == worker[x]
           put == TerminalCell(CellOf(w), result, w.e, 0)
<1>1. CASE Stop(x)
  BY <1>1, StopKeeps
<1>2. CASE Live(CellOf(w)) /\ WriteOperations(x, put, Snapshot("settle", 0), onFailure)
  <2>1. put \in OwnedCell
    BY <1>2, WhatIsRead DEF TerminalCell, IdleCell, Live, OwnedCell, Cell, Worker
  <2>2. Fits(Snapshot("settle", 0), events, Append(operations, put), coverage, derived)
    BY <2>1, AppendGoesOn, FitsOnLongerOperations DEF IInv
  <2> QED BY <1>2, <2>1, <2>2, WriteOperationsKeeps
<1> QED BY <1>1, <1>2 DEF TerminateAbsent, CanTerminate

(* append may find a conflict, or that the operation is inapplicable.      *)
LEMMA FindKeeps ==
  ASSUME IInv, NEW x \in Process, FindConflict(x) \/ FindInapplicable(x)
  PROVE  IInv'
<1>1. CASE Stop(x)
  BY <1>1, StopKeeps
<1>2. CASE TerminateAbsent(x, "conflict", {Idle})
  BY <1>2, IdleFits, TerminateAbsentKeeps DEF IInv, Results
<1>3. ASSUME NEW result \in {"semantic_noop", "conflict"},
             TerminateAbsent(x, result, Retried(worker[x]))
      PROVE  IInv'
  BY <1>3, AppendGoesOn, TerminateAbsentKeeps DEF Results
<1> QED BY <1>1, <1>2, <1>3 DEF FindConflict, FindInapplicable

(* append may ask for a repair.                                            *)
LEMMA MissFactsKeeps ==
  ASSUME IInv, NEW x \in Process, MissFacts(x)
  PROVE  IInv'
BY SnapshotFits, ContinueKeeps DEF MissFacts, IInv, Tasks

(* The claim is taken at the head where the key was found free. *)
LEMMA ClaimAppendKeeps ==
  ASSUME IInv, NEW x \in Process, ClaimAppend(x)
  PROVE  IInv'
<1> DEFINE w == worker[x]
           op == CellOf(w).op
           put == Claimed(CellOf(w), w.e)
           held == [w EXCEPT !.pc = "publish-event"]
           written == [w EXCEPT !.pc = "publish-event", !.o = w.o + 1]
<1>1. w \in Worker /\ FitsNow(w) /\ CellOf(w) \in OwnedCell
  BY WhatIsRead
<1>2. op \in Operation
  BY <1>1 DEF ClaimAppend, Applicable, Absent, MayAppend, Live, OwnedCell
<1>3. \A i \in 1..w.e : IdempotencyKey[events[i]] # IdempotencyKey[op]
  BY DEF ClaimAppend, Applicable, Absent, KeyTakenAt, SameKey
<1>4. FitsNow(held)
  BY <1>1, <1>2, <1>3 DEF FitsNow, Fits, Worker, Places, CellOf
<1>5. ASSUME Len(operations) = w.o, put \in OwnedCell
      PROVE  Fits(written, events, Append(operations, put), coverage, derived)
  <2>1. Append(operations, put)[w.o + 1] = put
    <3>1. operations \in Seq(OwnedCell)
      BY DEF IInv, Branches
    <3> HIDE DEF put
    <3> QED BY <1>5, <3>1
  <2>2. put.op = op
    BY <1>1 DEF Claimed, OwnedCell, Cell
  <2>3. written \in Worker /\ written.o = w.o + 1
        /\ written.e = w.e /\ written.c = w.c /\ written.d = w.d
    <3>1. held \in Worker /\ held.o = w.o /\ held.e = w.e /\ held.c = w.c /\ held.d = w.d
      BY <1>1 DEF Worker, Places
    <3>2. written = [held EXCEPT !.o = w.o + 1]
      OBVIOUS
    <3> HIDE DEF held, written
    <3> QED BY <1>1, <3>1, <3>2 DEF Worker
  <2>4. w.o + 1 \in 1..Len(Append(operations, put))
    BY <1>1, <1>5 DEF Worker, IInv, Branches
  <2>5. w.e \in 0..Len(events) /\ w.c \in 1..Len(coverage) /\ w.d \in 1..Len(derived)
    BY <1>1 DEF FitsNow, Fits
  <2> HIDE DEF written, put, op, w
  <2> QED BY <1>2, <1>3, <2>1, <2>2, <2>3, <2>4, <2>5 DEF Fits
<1>6. ClaimAt(x, w.e, held, written) /\ w.e \in Nat
  BY <1>1 DEF ClaimAppend, Worker
<1> HIDE DEF held, written
<1> QED BY <1>4, <1>5, <1>6, ClaimAtKeeps

(* Publication appends an event whose key is free at the head it extends.  *)
LEMMA UpdateEventsKeeps ==
  ASSUME IInv, NEW x \in Process, UpdateEvents(x)
  PROVE  IInv'
<1> DEFINE op == CellOf(worker[x]).op
<1>1. op \in Operation /\ (Len(events) = worker[x].e => KeyFree(op, events))
  BY WhatIsRead DEF UpdateEvents, FitsNow, Fits, CellOf, KeyFree
<1>2. WriteEvents(x, op, Snapshot("settle", 0), Retried(worker[x]))
  BY DEF UpdateEvents
<1> HIDE DEF op
<1> QED BY <1>1, <1>2, AppendGoesOn, WriteEventsKeeps

(* Recovery after append goes on to publication.                           *)
LEMMA SettleKeeps ==
  ASSUME IInv, NEW x \in Process, Settle(x)
  PROVE  IInv'
<1>1. FitsNow([worker[x] EXCEPT !.pc = "check-public"])
  BY WhatIsRead, PlaceFits DEF Places
<1> QED BY <1>1, IdleFits, ContinueKeeps DEF Settle, IInv

(* A source check goes on to the step it guards.                           *)
LEMMA CheckSourceKeeps ==
  ASSUME IInv, NEW x \in Process, CheckSource(x)
  PROVE  IInv'
<1> DEFINE place == SourceCheck[worker[x].pc]
<1>1. place \in Places /\ place # "publish-event"
  BY DEF CheckSource, SourceCheck, Places
<1> HIDE DEF place
<1>2. FitsNow([worker[x] EXCEPT !.pc = place])
  BY <1>1, WhatIsRead, PlaceFits
<1> QED BY <1>2, IdleFits, ContinueKeeps DEF CheckSource, IInv, place

(* The public projection is published for a canonical head that exists.    *)
LEMMA PublishCoverageKeeps ==
  ASSUME IInv, NEW x \in Process, PublishCoverage(x)
  PROVE  IInv'
<1> DEFINE w == worker[x]
           put == [coverage[w.c] EXCEPT !.src = w.e]
<1>1. w \in Worker /\ FitsNow(w) /\ coverage[w.c] \in Coverage
  BY WhatIsRead
<1>2. CASE Continue(x, [w EXCEPT !.pc = "check-private"])
  BY <1>1, <1>2, PlaceFits, ContinueKeeps DEF Places
<1>3. CASE WriteCoverage(x, put, [w EXCEPT !.pc = "check-private", !.c = w.c + 1])
  <2>1. put \in Coverage
    BY <1>1 DEF Coverage, Worker
  <2>2. Fits([w EXCEPT !.pc = "check-private", !.c = w.c + 1],
             events, operations, Append(coverage, put), derived)
    BY <1>1, <2>1, CommitFits DEF IInv, Places
  <2> QED BY <1>3, <2>1, <2>2, WriteCoverageKeeps
<1> QED BY <1>2, <1>3 DEF PublishCoverage

(* Shards leave the private projection unsealed.                           *)
LEMMA PublishShardsKeeps ==
  ASSUME IInv, NEW x \in Process, PublishShards(x)
  PROVE  IInv'
<1> DEFINE w == worker[x]
           put == [derived[w.d] EXCEPT !.sealed = FALSE]
<1>1. FitsNow(w) /\ derived[w.d] \in Derived
  BY WhatIsRead
<1>2. CASE Continue(x, Published(w))
  <2>1. FitsNow([w EXCEPT !.pc = "events", !.task = "refresh"])
    BY <1>1 DEF FitsNow, Fits, Worker, Places, Tasks
  <2> QED BY <1>2, <2>1, IdleFits, ContinueKeeps DEF Published, IInv
<1>3. CASE WriteDerived(x, put, [w EXCEPT !.pc = "check-state", !.d = w.d + 1])
  <2>1. put \in Derived
    BY <1>1 DEF Derived
  <2>2. Fits([w EXCEPT !.pc = "check-state", !.d = w.d + 1],
             events, operations, coverage, Append(derived, put))
    BY <1>1, <2>1, CommitFits DEF IInv, Places
  <2> QED BY <1>3, <2>1, <2>2, WriteDerivedKeeps
<1> QED BY <1>2, <1>3 DEF PublishShards

(* The state file seals it at a generation.                                *)
LEMMA PublishStateKeeps ==
  ASSUME IInv, NEW x \in Process, PublishState(x)
  PROVE  IInv'
<1> DEFINE w == worker[x]
           put == [gen |-> Generation(w.e), sealed |-> TRUE]
           v == [w EXCEPT !.d = w.d + 1]
<1>1. w \in Worker /\ FitsNow(w)
  BY WhatIsRead
<1>2. put \in Derived
  BY <1>1, GenerationIsNatural DEF Derived, Worker
<1>3. WriteDerived(x, put, Published(v))
  BY DEF PublishState
<1>4. v = [w EXCEPT !.pc = "state", !.d = w.d + 1] /\ w.pc = "state"
  BY <1>1 DEF PublishState, Worker
<1>5. Fits(v, events, operations, coverage, Append(derived, put))
  BY <1>1, <1>2, <1>4, CommitFits DEF IInv, Places
<1>6. Fits(Idle, events, operations, coverage, Append(derived, put))
  BY <1>2, IdleFits, FitsOnLongerDerived DEF IInv
<1> HIDE DEF v, put
<1>7. Fits([v EXCEPT !.pc = "events", !.task = "refresh"],
           events, operations, coverage, Append(derived, put))
  BY <1>5 DEF Fits, Worker, Places, Tasks
<1> QED BY <1>2, <1>3, <1>6, <1>7, WriteDerivedKeeps DEF Published

(* complete closes the marker.                                             *)
LEMMA CloseMarkerKeeps ==
  ASSUME IInv, NEW x \in Process, CloseMarker(x)
  PROVE  IInv'
<1> DEFINE w == worker[x]
           place == IF CellOf(w).state = "appending" THEN "land" ELSE "check-release"
           put == [coverage[w.c] EXCEPT !.marker = None]
<1>1. w \in Worker /\ FitsNow(w) /\ coverage[w.c] \in Coverage
  BY WhatIsRead
<1>2. place \in Places /\ place # "publish-event"
  BY DEF Places
<1> HIDE DEF place
<1>3. CASE Continue(x, [w EXCEPT !.pc = "clear"])
  BY <1>1, <1>3, PlaceFits, ContinueKeeps DEF Places
<1>4. CASE Continue(x, [w EXCEPT !.pc = place])
  BY <1>1, <1>2, <1>4, PlaceFits, ContinueKeeps
<1>5. CASE WriteCoverage(x, put, [w EXCEPT !.pc = place, !.c = w.c + 1])
  <2>1. put \in Coverage
    BY <1>1 DEF Coverage
  <2>2. Fits([w EXCEPT !.pc = place, !.c = w.c + 1],
             events, operations, Append(coverage, put), derived)
    BY <1>1, <1>2, <2>1, CommitFits DEF IInv
  <2> QED BY <1>5, <2>1, <2>2, WriteCoverageKeeps
<1>6. CASE Stop(x)
  BY <1>6, StopKeeps
<1> QED BY <1>3, <1>4, <1>5, <1>6 DEF CloseMarker, place

(* complete makes the cell terminal at the commit of its event.            *)
LEMMA TerminateLandedKeeps ==
  ASSUME IInv, NEW x \in Process, TerminateLanded(x)
  PROVE  IInv'
<1> DEFINE w == worker[x]
           op == CellOf(w).op
           put == TerminalCell(CellOf(w), "landed", w.e, FirstTaken(op, w.e))
<1>1. w \in Worker /\ FitsNow(w) /\ CellOf(w) \in OwnedCell
  BY WhatIsRead
<1>2. CASE Stop(x)
  BY <1>2, StopKeeps
<1>3. CASE /\ HasLanded(op, w.e)
           /\ Live(CellOf(w))
           /\ WriteOperations(x, put, [w EXCEPT !.pc = "check-release", !.o = w.o + 1],
                               {Idle})
  <2>1. w.e \in Nat /\ FirstTaken(op, w.e) \in Nat
    BY <1>1, <1>3, FirstTakenExists DEF HasLanded, Worker
  <2>2. put \in OwnedCell
    BY <1>1, <1>3, <2>1 DEF TerminalCell, IdleCell, Live, OwnedCell, Cell, Results
  <2>3. Fits([w EXCEPT !.pc = "check-release", !.o = w.o + 1],
             events, Append(operations, put), coverage, derived)
    BY <1>1, <2>2, CommitFits DEF IInv, Places
  <2>4. \A v \in {Idle} : FitsNow(v)
    BY IdleFits DEF IInv
  <2> QED BY <1>3, <2>2, <2>3, <2>4, WriteOperationsKeeps
<1> QED BY <1>2, <1>3 DEF TerminateLanded, CanTerminate

(* complete releases the fence.                                            *)
LEMMA ReleaseFenceKeeps ==
  ASSUME IInv, NEW x \in Process, ReleaseFence(x)
  PROVE  IInv'
<1> DEFINE w == worker[x]
           put == [coverage[w.c] EXCEPT !.fence = Released(FenceOf(w))]
           v == [w EXCEPT !.pc = "clear", !.c = w.c + 1]
<1>1. w \in Worker /\ FitsNow(w) /\ FenceOf(w) \in Fence /\ coverage[w.c] \in Coverage
  BY WhatIsRead
<1>2. CASE Stop(x)
  BY <1>2, StopKeeps
<1>3. CASE WriteCoverage(x, put, [v EXCEPT !.proof = w.c])
  <2>1. put \in Coverage
    BY <1>1 DEF Coverage, Released, IdleFence, Fence
  <2>2. Fits(v, events, operations, Append(coverage, put), derived)
    BY <1>1, <2>1, CommitFits DEF IInv, Places
  <2>3. w.c \in Nat /\ v.pc = "clear"
    BY <1>1 DEF Worker
  <2> HIDE DEF v, put, w
  <2>4. Fits([v EXCEPT !.proof = w.c], events, operations, Append(coverage, put), derived)
    BY <2>2, <2>3 DEF Fits, Worker
  <2> QED BY <1>3, <2>1, <2>4, WriteCoverageKeeps DEF w
<1>4. [v EXCEPT !.proof = w.c] =
        [w EXCEPT !.pc = "clear", !.c = w.c + 1, !.proof = w.c]
  OBVIOUS
<1> QED BY <1>2, <1>3, <1>4 DEF ReleaseFence

(* complete clears the cell.                                               *)
LEMMA ClearKeeps ==
  ASSUME IInv, NEW x \in Process, Clear(x)
  PROVE  IInv'
<1>1. CASE Stop(x)
  BY <1>1, StopKeeps
<1>2. CASE WriteOperations(x, IdleCell, Idle, {Idle})
  <2>1. IdleCell \in OwnedCell
    BY DEF IdleCell, OwnedCell, Cell
  <2>2. FitsNow(Idle)
    BY IdleFits DEF IInv
  <2>3. Fits(Idle, events, Append(operations, IdleCell), coverage, derived)
    BY <2>1, <2>2, FitsOnLongerOperations DEF IInv
  <2> QED BY <1>2, <2>1, <2>2, <2>3, WriteOperationsKeeps
<1> QED BY <1>1, <1>2 DEF Clear

(* A crash leaves the branches alone.                                      *)
LEMMA CrashKeeps ==
  ASSUME IInv, NEW x \in Process, Crash(x)
  PROVE  IInv'
<1>1. LateFits(late', events) /\ faults' \in Nat /\ UNCHANGED branches
  BY DEF Crash, IInv, Branches
<1>2. Branches' /\ \A v : FitsNow(v) => FitsNext(v)
  BY <1>1, BranchesStay DEF IInv
<1>3. FitsNext(Idle) /\ Step(x, Idle)
  BY <1>2, IdleFits DEF Crash, IInv
<1> QED BY <1>2, <1>3, ProcessMoves

(* The environment writes at the current heads. *)
LEMMA EnvironmentKeeps ==
  ASSUME IInv, Environment
  PROVE  IInv'
<1>1. Branches
  BY DEF IInv
<1>2. Tip \in Coverage
  BY <1>1 DEF Branches, Tip
<1>3. ASSUME NEW op \in Operation, KeyFree(op, events), AppendEvents(op),
             UNCHANGED <<worker, faults>>
      PROVE  IInv'
  BY <1>1, <1>3, EventsGrow, ProcessesStay
<1>4. ASSUME NEW put \in Coverage, AppendCoverage(put), UNCHANGED <<worker, faults>>
      PROVE  IInv'
  BY <1>1, <1>4, CoverageGrows, ProcessesStay
<1>5. CASE Deliver
  <2>1. ASSUME NEW put \in late.events, AppendEvents(put), UNCHANGED <<worker, faults>>
        PROVE  IInv'
    BY <1>1, <1>3, <2>1 DEF Branches, LateFits, LateWrites
  <2>2. ASSUME NEW put \in late.operations, AppendOperations(put),
               UNCHANGED <<worker, faults>>
        PROVE  IInv'
    <3>1. put \in OwnedCell
      BY <1>1 DEF Branches, LateFits, LateWrites
    <3> QED BY <1>1, <2>2, <3>1, OperationsGrow, ProcessesStay
  <2>3. ASSUME NEW put \in late.coverage, AppendCoverage(put), UNCHANGED <<worker, faults>>
        PROVE  IInv'
    BY <1>1, <1>4, <2>3 DEF Branches, LateFits, LateWrites
  <2>4. ASSUME NEW put \in late.derived, AppendDerived(put), UNCHANGED <<worker, faults>>
        PROVE  IInv'
    <3>1. put \in Derived
      BY <1>1 DEF Branches, LateFits, LateWrites
    <3> QED BY <1>1, <2>4, <3>1, DerivedGrows, ProcessesStay
  <2> QED BY <1>5, <2>1, <2>2, <2>3, <2>4 DEF Deliver
<1>6. CASE ReserveSuccess
  <2>1. [Tip EXCEPT !.fence = ReservedFence(@)] \in Coverage
    BY <1>2 DEF Coverage, ReservedFence, Fence
  <2> QED BY <1>4, <1>6, <2>1 DEF ReserveSuccess
<1>7. CASE ReleaseSuccess
  <2>1. [Tip EXCEPT !.fence = Released(@)] \in Coverage
    BY <1>2 DEF Coverage, Released, IdleFence, Fence
  <2> QED BY <1>4, <1>7, <2>1 DEF ReleaseSuccess
<1>8. ASSUME NEW op \in Competitor, Compete(op)
      PROVE  IInv'
  <2>1. KeyFree(op, events)
    BY <1>8 DEF Compete, KeyTakenAt, SameKey, KeyFree
  <2>2. op \in Operation
    BY CompetitorsAreOperations
  <2> QED BY <1>3, <1>8, <2>1, <2>2 DEF Compete
<1> QED BY <1>5, <1>6, <1>7, <1>8 DEF Environment

(* Every step keeps the invariant.                                         *)
LEMMA NextKeeps == IInv /\ [Next]_vars => IInv'
<1> SUFFICES ASSUME IInv, [Next]_vars PROVE IInv'
  OBVIOUS
<1>1. CASE UNCHANGED vars
  BY <1>1, BranchesStay, ProcessesStay DEF vars, branches, IInv, Branches
<1>2. ASSUME NEW x \in Process, Reconcile(x)
      PROVE  IInv'
  BY <1>2, StartKeeps, ReadKeeps, RecoverKeeps, AcquireFenceKeeps, OpenMarkerKeeps,
     AppendReturnsKeeps, DiscoverLandedKeeps, FindKeeps, MissFactsKeeps,
     ClaimAppendKeeps, UpdateEventsKeeps, SettleKeeps, CheckSourceKeeps,
     PublishCoverageKeeps, PublishShardsKeeps, PublishStateKeeps, CloseMarkerKeeps,
     TerminateLandedKeeps, ReleaseFenceKeeps, ClearKeeps
     DEF Reconcile
<1>3. ASSUME NEW x \in Process, StartPrepare(x) \/ Prepare(x) \/ Crash(x)
      PROVE  IInv'
  BY <1>3, StartKeeps, PrepareKeeps, CrashKeeps
<1>4. CASE Environment
  BY <1>4, EnvironmentKeeps
<1> QED BY <1>1, <1>2, <1>3, <1>4 DEF Next

(* The invariant holds of every reachable state.                           *)
THEOREM InductiveInvariant == Spec => []IInv
BY InitEstablishes, NextKeeps, PTL DEF Spec

(* Every branch, every write in flight and every process keeps its shape,  *)
(* whatever the number of processes and operations: in particular no step  *)
(* of append.py or reconcile.py stores a cell or a fence that              *)
(* decode_prepared_operation or decode_decision_fence would refuse, nor    *)
(* reads a commit that does not exist.                                     *)
THEOREM TypeCorrect == Spec => []TypeOK
<1>1. IInv => TypeOK
  BY InvariantImpliesTypeOK
<1> QED BY <1>1, InductiveInvariant, PTL

(* No idempotency key is ever published twice, by any number of engines    *)
(* and competing writers that crash, lose answers and retry: update_events *)
(* extends only the head at which append found the key free.               *)
THEOREM PublishedAtMostOnce == Spec => []AtMostOnce
<1>1. IInv => AtMostOnce
  BY DEF IInv, Branches
<1> QED BY <1>1, InductiveInvariant, PTL

-----------------------------------------------------------------------------
(* What the conditional writes publish: the projections only advance, and  *)
(* a confirmed operation lands on the head it was confirmed on.            *)

(* The inductive invariant, next to IInv.                                  *)

(* No projection is ahead of canonical history.                            *)
SourcesHold ==
  /\ \A i \in 1..Len(coverage) : coverage[i].src <= Len(events)
  /\ \A i \in 1..Len(derived) : derived[i].gen <= Generation(Len(events))

HasEvent(op) == \E i \in 1..Len(events) : events[i] = op

SameClaim(cell, claim) ==
  cell.state = "appending" /\ cell.op = claim.op /\ cell.base = claim.base

(* A claim of the append right stands until its event is canonical: other  *)
(* processes may renew it, but only its event lets the cell go on.         *)
ClaimsStand ==
  \A i \in 1..Len(operations) :
    operations[i].state = "appending" =>
      SameClaim(CellNow, operations[i]) \/ HasEvent(operations[i].op)

(* What a write of each branch at its head must satisfy: an event is that  *)
(* of the claim, a cell respects the claim, a projection neither goes back *)
(* nor runs ahead of canonical history.                                    *)
IsOfClaim(op) ==
  /\ CellNow.state = "appending" /\ CellNow.op = op
  /\ op \in Confirmed => CellNow.base = Len(events)

Follows(put) == CellNow.state = "appending" => SameClaim(put, CellNow) \/ HasEvent(CellNow.op)

Between(low, n, high) == low <= n /\ n <= high

Covers(put) == Between(Tip.src, put.src, Len(events))

Derives(put) == Between(PrivateNow.gen, put.gen, Generation(Len(events)))

(* So do the writes in flight, for as long as they may be applied.         *)
LateHold(l) ==
  /\ \A op \in l.events : IsOfClaim(op)
  /\ \A put \in l.operations : Follows(put)
  /\ \A put \in l.coverage : Covers(put)
  /\ \A put \in l.derived : Derives(put)

(* What a process knows before each write.                                 *)
Knows(w) ==
  /\ w.pc = "public" => coverage[w.c].src <= w.e
  /\ w.pc \in {"private", "state"} => derived[w.d].gen <= Generation(w.e)
  /\ w.pc = "publish-event" =>
       /\ CellOf(w).state = "appending"
       /\ CellOf(w).op \in Confirmed => CellOf(w).base = w.e

AllKnow == \A x \in Process : Knows(worker[x])

Facts == SourcesHold /\ ClaimsStand /\ LateHold(late)

PInv == IInv /\ Facts /\ AllKnow

(* What a step does: it keeps the facts, takes no projection back and      *)
(* lands a confirmed operation on the head it was confirmed on.            *)
Advances == Tip.src <= Tip'.src /\ PrivateNow.gen <= PrivateNow'.gen

Lands == \A op \in Confirmed \ Competitor :
           events' = Append(events, op) => CellNow.base = Len(events)

StepHolds == Facts' /\ Advances /\ Lands

(* A process keeps what it knows through a step of others.                 *)
KnowledgeStays == \A w : FitsNow(w) /\ Knows(w) => Knows(w)'

(* At the other places there is nothing to know.                           *)
Quiet(w) == w.pc \notin {"public", "private", "state", "publish-event"}

(* ... whatever the state.                                                 *)
LEMMA QuietKnows == \A w : Quiet(w) => Knows(w)
BY DEF Quiet, Knows

(* ... and whatever the next one.                                          *)
LEMMA QuietKnowsNext == \A w : Quiet(w) => Knows(w)'
BY DEF Quiet, Knows

-----------------------------------------------------------------------------
(* Generations. *)

(* A longer history has no older generation.                               *)
LEMMA GenerationAdvances ==
  \A e, f \in Nat : e <= f => Generation(e) <= Generation(f)
<1> SUFFICES ASSUME NEW e \in Nat, NEW f \in Nat, e <= f
             PROVE  Generation(e) <= Generation(f)
  OBVIOUS
<1> DEFINE S(n) == {0} \union {i \in 1..n : events[i] \in Private}
<1>1. /\ S(e) \subseteq 0..e /\ S(f) \subseteq 0..f
      /\ S(e) # {} /\ S(f) # {}
      /\ S(e) \subseteq S(f)
  OBVIOUS
<1> HIDE DEF S
<1>2. /\ Max(S(e)) \in S(e)
      /\ \A i \in S(f) : i <= Max(S(f))
  BY <1>1, MaxChosen
<1>3. Max(S(e)) <= Max(S(f))
  BY <1>1, <1>2
<1> QED BY <1>3 DEF Generation, S

(* ... after the step as before.                                           *)
LEMMA GenerationAdvancesNext ==
  (\A e, f \in Nat : e <= f => Generation(e) <= Generation(f))'
BY GenerationAdvances, PTL

(* ... where it is a natural number too.                                   *)
LEMMA GenerationIsNaturalNext == \A e \in Nat : Generation(e) \in Nat /\ Generation(e)' \in Nat
<1>1. \A e \in Nat : Generation(e) \in Nat
  BY GenerationIsNatural
<1>2. (\A e \in Nat : Generation(e) \in Nat)'
  BY <1>1, PTL
<1> QED BY <1>1, <1>2

(* The generation of a prefix is the same in every longer history.         *)
LEMMA GenerationStays ==
  ASSUME events \in Seq(Operation), NEW put \in Operation, events' = Append(events, put)
  PROVE  \A e \in 0..Len(events) : Generation(e)' = Generation(e)
<1> SUFFICES ASSUME NEW e \in 0..Len(events) PROVE Generation(e)' = Generation(e)
  OBVIOUS
<1>1. \A i \in 1..e : events'[i] = events[i]
  OBVIOUS
<1>2. {i \in 1..e : events'[i] \in Private} = {i \in 1..e : events[i] \in Private}
  BY <1>1
<1> QED BY <1>2 DEF Generation

(* A history that does not move keeps its generations.                     *)
LEMMA GenerationUnmoved ==
  ASSUME UNCHANGED events PROVE \A e : Generation(e)' = Generation(e)
BY DEF Generation

-----------------------------------------------------------------------------
(* What the write of a branch at its head does. *)

(* Every branch has a current commit.                                      *)
LEMMA CurrentCommits ==
  ASSUME Branches
  PROVE  /\ Len(events) \in Nat
         /\ Tip \in Coverage /\ Tip.src \in Nat
         /\ PrivateNow \in Derived /\ PrivateNow.gen \in Nat
         /\ CellNow \in OwnedCell
<1>1. /\ Len(coverage) \in 1..Len(coverage)
      /\ Len(derived) \in 1..Len(derived)
      /\ Len(operations) \in 1..Len(operations)
      /\ Len(events) \in Nat
  BY DEF Branches
<1>2. Tip \in Coverage /\ PrivateNow \in Derived /\ CellNow \in OwnedCell
  BY <1>1 DEF Branches, Tip, PrivateNow, CellNow
<1>3. Tip.src \in Nat
  BY <1>2 DEF Coverage
<1>4. PrivateNow.gen \in Nat
  BY <1>2 DEF Derived
<1> QED BY <1>1, <1>2, <1>3, <1>4

(* The coverage branch takes only a commit that covers.                    *)
LEMMA CoverageWritten ==
  ASSUME Branches, Facts, NEW put \in Coverage, Covers(put), AppendCoverage(put)
  PROVE  StepHolds /\ KnowledgeStays
<1> DEFINE n == Len(coverage)
           m == Len(events)
<1>1. n \in Nat \ {0} /\ m \in Nat /\ coverage \in Seq(Coverage) /\ events \in Seq(Operation)
  BY DEF Branches
<1>2. UNCHANGED <<events, operations, derived>> /\ coverage' = Append(coverage, put)
  BY DEF AppendCoverage
<1>3. /\ Len(coverage') = n + 1
      /\ coverage'[n + 1] = put
      /\ \A i \in 1..n : coverage'[i] = coverage[i]
  BY <1>1, <1>2
<1>4. Tip' = put /\ CellNow' = CellNow /\ PrivateNow' = PrivateNow
  BY <1>2, <1>3 DEF Tip, CellNow, PrivateNow
<1>5. \A e : Generation(e)' = Generation(e)
  BY <1>2, GenerationUnmoved
<1>6. \A i \in 1..Len(coverage') : coverage'[i].src <= m
  BY <1>1, <1>3 DEF Facts, SourcesHold, Covers, Between
<1>7. SourcesHold'
  BY <1>2, <1>5, <1>6 DEF Facts, SourcesHold
<1>8. ClaimsStand'
  BY <1>2, <1>4 DEF Facts, ClaimsStand, HasEvent
<1>9. LateHold(late)'
  <2>1. late' = [late EXCEPT !.coverage = {}]
    BY DEF AppendCoverage
  <2>2. /\ late'.events = late.events /\ late'.operations = late.operations
        /\ late'.derived = late.derived /\ late'.coverage = {}
    BY <2>1 DEF Branches, LateFits, LateWrites
  <2> QED BY <1>2, <1>4, <1>5, <2>2
          DEF Facts, LateHold, IsOfClaim, Follows, HasEvent, Derives
<1>10. Advances
  <2>1. PrivateNow.gen \in Nat
    BY CurrentCommits
  <2> QED BY <1>4, <2>1 DEF Advances, Covers, Between
<1>11. Lands
  BY <1>1, <1>2 DEF Lands
<1>12. KnowledgeStays
  BY <1>1, <1>2, <1>3, <1>5 DEF KnowledgeStays, Knows, CellOf, FitsNow, Fits
<1> QED BY <1>7, <1>8, <1>9, <1>10, <1>11, <1>12 DEF StepHolds, Facts

(* The derived branch takes only a commit that derives.                    *)
LEMMA DerivedWritten ==
  ASSUME Branches, Facts, NEW put \in Derived, Derives(put), AppendDerived(put)
  PROVE  StepHolds /\ KnowledgeStays
<1> DEFINE n == Len(derived)
           m == Len(events)
<1>1. n \in Nat \ {0} /\ m \in Nat /\ derived \in Seq(Derived) /\ events \in Seq(Operation)
  BY DEF Branches
<1>2. UNCHANGED <<events, operations, coverage>> /\ derived' = Append(derived, put)
  BY DEF AppendDerived
<1>3. /\ Len(derived') = n + 1
      /\ derived'[n + 1] = put
      /\ \A i \in 1..n : derived'[i] = derived[i]
  BY <1>1, <1>2
<1>4. Tip' = Tip /\ CellNow' = CellNow /\ PrivateNow' = put
  BY <1>2, <1>3 DEF Tip, CellNow, PrivateNow
<1>5. \A e : Generation(e)' = Generation(e)
  BY <1>2, GenerationUnmoved
<1>6. \A i \in 1..Len(derived') : derived'[i].gen <= Generation(m)
  BY <1>1, <1>3 DEF Facts, SourcesHold, Derives, Between
<1>7. SourcesHold'
  BY <1>2, <1>5, <1>6 DEF Facts, SourcesHold
<1>8. ClaimsStand'
  BY <1>2, <1>4 DEF Facts, ClaimsStand, HasEvent
<1>9. LateHold(late)'
  <2>1. late' = [late EXCEPT !.derived = {}]
    BY DEF AppendDerived
  <2>2. /\ late'.events = late.events /\ late'.operations = late.operations
        /\ late'.coverage = late.coverage /\ late'.derived = {}
    BY <2>1 DEF Branches, LateFits, LateWrites
  <2> QED BY <1>2, <1>4, <1>5, <2>2
          DEF Facts, LateHold, IsOfClaim, Follows, HasEvent, Covers
<1>10. Advances
  <2>1. Tip.src \in Nat
    BY CurrentCommits
  <2> QED BY <1>4, <2>1 DEF Advances, Derives, Between
<1>11. Lands
  BY <1>1, <1>2 DEF Lands
<1>12. KnowledgeStays
  BY <1>1, <1>2, <1>3, <1>5 DEF KnowledgeStays, Knows, CellOf, FitsNow, Fits
<1> QED BY <1>7, <1>8, <1>9, <1>10, <1>11, <1>12 DEF StepHolds, Facts

(* The operation branch takes only a cell that respects the claim.         *)
LEMMA OperationsWritten ==
  ASSUME Branches, Facts, NEW put \in OwnedCell, Follows(put), AppendOperations(put)
  PROVE  StepHolds /\ KnowledgeStays
<1> DEFINE n == Len(operations)
           m == Len(events)
<1>1. n \in Nat \ {0} /\ m \in Nat /\ operations \in Seq(OwnedCell) /\ events \in Seq(Operation)
  BY DEF Branches
<1>2. UNCHANGED <<events, coverage, derived>> /\ operations' = Append(operations, put)
  BY DEF AppendOperations
<1>3. /\ Len(operations') = n + 1
      /\ operations'[n + 1] = put
      /\ \A i \in 1..n : operations'[i] = operations[i]
  BY <1>1, <1>2
<1>4. Tip' = Tip /\ CellNow' = put /\ PrivateNow' = PrivateNow
  BY <1>2, <1>3 DEF Tip, CellNow, PrivateNow
<1>5. /\ \A e : Generation(e)' = Generation(e)
      /\ \A op : HasEvent(op)' = HasEvent(op)
  BY <1>2, GenerationUnmoved DEF HasEvent
<1>6. SourcesHold'
  BY <1>2, <1>5 DEF Facts, SourcesHold
<1>7. \A i \in 1..n :
        operations[i].state = "appending" =>
          SameClaim(put, operations[i]) \/ HasEvent(operations[i].op)
  BY DEF Facts, ClaimsStand, Follows, SameClaim
<1>8. ClaimsStand'
  <2>1. ASSUME NEW i \in 1..(n + 1), operations'[i].state = "appending"
        PROVE  SameClaim(put, operations'[i]) \/ HasEvent(operations'[i].op)
    <3>1. CASE i \in 1..n
      BY <1>3, <1>7, <2>1, <3>1
    <3>2. CASE i = n + 1
      BY <1>3, <2>1, <3>2 DEF SameClaim
    <3> QED BY <1>1, <3>1, <3>2
  <2> QED BY <1>3, <1>4, <1>5, <2>1 DEF ClaimsStand, SameClaim
<1>9. LateHold(late)'
  <2>1. late' = [late EXCEPT !.operations = {}]
    BY DEF AppendOperations
  <2>2. /\ late'.events = late.events /\ late'.coverage = late.coverage
        /\ late'.derived = late.derived /\ late'.operations = {}
    BY <2>1 DEF Branches, LateFits, LateWrites
  <2>3. ASSUME NEW op \in late.events
        PROVE  /\ put.state = "appending" /\ put.op = op
               /\ op \in Confirmed => put.base = m
    <3>1. IsOfClaim(op)
      BY DEF Facts, LateHold
    <3>2. ~ HasEvent(op)
      BY DEF Branches, LateFits, KeyFree, HasEvent
    <3> QED BY <3>1, <3>2 DEF IsOfClaim, Follows, SameClaim
  <2> QED BY <1>2, <1>4, <1>5, <2>2, <2>3
          DEF Facts, LateHold, IsOfClaim, Covers, Derives
<1>10. Advances
  BY <1>4, CurrentCommits DEF Advances
<1>11. Lands
  BY <1>1, <1>2 DEF Lands
<1>12. KnowledgeStays
  BY <1>1, <1>2, <1>3, <1>5 DEF KnowledgeStays, Knows, CellOf, FitsNow, Fits
<1> QED BY <1>6, <1>8, <1>9, <1>10, <1>11, <1>12 DEF StepHolds, Facts

(* The canonical branch takes an event of the claim or of a competitor.    *)
LEMMA EventsWritten ==
  ASSUME Branches, Facts, NEW put \in Operation, IsOfClaim(put) \/ put \in Competitor,
         AppendEvents(put)
  PROVE  StepHolds /\ KnowledgeStays
<1>0. PICK m \in Nat : m = Len(events)
  BY DEF Branches
<1>1. m \in Nat /\ m = Len(events) /\ events \in Seq(Operation)
  BY <1>0 DEF Branches
<1>2. UNCHANGED <<operations, coverage, derived>> /\ events' = Append(events, put)
  BY DEF AppendEvents
<1>3. /\ Len(events') = m + 1
      /\ events'[m + 1] = put
      /\ \A i \in 1..m : events'[i] = events[i]
  BY <1>1, <1>2
<1>4. Tip' = Tip /\ CellNow' = CellNow /\ PrivateNow' = PrivateNow
  BY <1>2 DEF Tip, CellNow, PrivateNow
<1>5. \A e \in 0..m : Generation(e)' = Generation(e)
  BY <1>1, <1>2, GenerationStays
<1>6. PICK old \in Nat : old = Generation(m)
  BY <1>1, GenerationIsNatural
<1>7. PICK new \in Nat : new = Generation(m + 1)' /\ old <= new
  <2>1. Generation(m + 1)' \in Nat /\ Generation(m)' <= Generation(m + 1)'
    <3>1. m + 1 \in Nat /\ m <= m + 1
      BY <1>1
    <3> QED BY <1>1, <3>1, GenerationIsNaturalNext, GenerationAdvancesNext
  <2> QED BY <1>1, <1>5, <1>6, <2>1
<1>8. SourcesHold'
  <2>1. /\ \A i \in 1..Len(coverage) : coverage[i] \in Coverage
        /\ \A i \in 1..Len(derived) : derived[i] \in Derived
    BY DEF Branches
  <2>2. /\ \A i \in 1..Len(coverage) : coverage[i].src \in Nat
        /\ \A i \in 1..Len(derived) : derived[i].gen \in Nat
    BY <2>1 DEF Coverage, Derived
  <2>3. \A i \in 1..Len(coverage) : coverage[i].src <= m + 1
    BY <1>1, <2>2 DEF Facts, SourcesHold
  <2>4. \A i \in 1..Len(derived) : derived[i].gen <= new
    BY <1>1, <1>6, <1>7, <2>2 DEF Facts, SourcesHold
  <2> QED BY <1>2, <1>3, <1>7, <2>3, <2>4 DEF SourcesHold
<1>9. \A op : HasEvent(op) => HasEvent(op)'
  BY <1>1, <1>3 DEF HasEvent
<1>10. ClaimsStand'
  BY <1>2, <1>4, <1>9 DEF Facts, ClaimsStand, SameClaim
<1>11. LateHold(late)'
  <2>1. late' = [late EXCEPT !.events = {}]
    BY DEF AppendEvents
  <2>2. /\ late'.operations = late.operations /\ late'.coverage = late.coverage
        /\ late'.derived = late.derived /\ late'.events = {}
    BY <2>1 DEF Branches, LateFits, LateWrites
  <2>3. \A c \in late.operations : Follows(c)'
    BY <1>4, <1>9 DEF Facts, LateHold, Follows, SameClaim
  <2>4. \A c \in late.coverage : c.src \in Nat /\ Tip.src <= c.src /\ c.src <= m
    BY <1>1 DEF Facts, LateHold, Covers, Between, Branches, LateFits, LateWrites, Coverage
  <2>5. \A c \in late.coverage : Covers(c)'
    BY <1>1, <1>3, <1>4, <2>4 DEF Covers, Between
  <2>6. \A c \in late.derived : c.gen \in Nat /\ PrivateNow.gen <= c.gen /\ c.gen <= old
    BY <1>1, <1>6
       DEF Facts, LateHold, Derives, Between, Branches, LateFits, LateWrites, Derived
  <2>7. \A c \in late.derived : c.gen <= new
    BY <1>6, <1>7, <2>6
  <2>8. \A c \in late.derived : Derives(c)'
    BY <1>3, <1>4, <1>7, <2>6, <2>7 DEF Derives, Between
  <2> QED BY <2>2, <2>3, <2>5, <2>8 DEF LateHold
<1>12. Advances
  BY <1>4, CurrentCommits DEF Advances
<1>13. Lands
  <2>1. \A op \in Operation : events' = Append(events, op) => op = put
    BY <1>1, <1>3
  <2>2. ASSUME NEW op \in Confirmed \ Competitor, events' = Append(events, op)
        PROVE  op = put
    <3>1. Append(events, op)[m + 1] = op
      BY <1>1
    <3> QED BY <1>3, <2>2, <3>1
  <2> QED BY <2>2 DEF Lands, IsOfClaim
<1>14. KnowledgeStays
  BY <1>1, <1>2, <1>5 DEF KnowledgeStays, Knows, CellOf, FitsNow, Fits
<1> QED BY <1>8, <1>10, <1>11, <1>12, <1>13, <1>14 DEF StepHolds, Facts

(* Nothing is written, and what has become late may be applied.            *)
LEMMA NothingWritten ==
  ASSUME Branches, Facts, UNCHANGED branches, LateHold(late')
  PROVE  StepHolds /\ KnowledgeStays
<1>1. UNCHANGED <<events, operations, coverage, derived>>
  BY DEF branches
<1>2. Tip' = Tip /\ CellNow' = CellNow /\ PrivateNow' = PrivateNow
  BY <1>1 DEF Tip, CellNow, PrivateNow
<1>3. \A e : Generation(e)' = Generation(e)
  BY <1>1, GenerationUnmoved
<1>4. SourcesHold'
  BY <1>1, <1>3 DEF Facts, SourcesHold
<1>5. ClaimsStand'
  BY <1>1, <1>2 DEF Facts, ClaimsStand, HasEvent
<1>6. LateHold(late)'
  BY <1>1, <1>2, <1>3
     DEF LateHold, IsOfClaim, Follows, HasEvent, Covers, Derives
<1>7. Advances
  BY <1>2, CurrentCommits DEF Advances
<1>8. Lands
  <2>1. events \in Seq(Operation)
    BY DEF Branches
  <2>2. \A op : Len(Append(events, op)) = Len(events) + 1 /\ Len(events) \in Nat
    BY <2>1
  <2> QED BY <1>1, <2>2 DEF Lands
<1>9. KnowledgeStays
  BY <1>1, <1>3 DEF KnowledgeStays, Knows, CellOf
<1> QED BY <1>4, <1>5, <1>6, <1>7, <1>8, <1>9 DEF StepHolds, Facts

-----------------------------------------------------------------------------
(* What a step of a process does. *)

Holds == StepHolds /\ AllKnow'

(* A process that moves knows enough; the others know what they knew.      *)
LEMMA OthersKnow ==
  ASSUME PInv, KnowledgeStays, NEW x \in Process, NEW w, Knows(w)', Step(x, w)
  PROVE  AllKnow'
<1> SUFFICES ASSUME NEW y \in Process PROVE Knows(worker[y])'
  BY DEF AllKnow
<1>1. FitsNow(worker[y]) /\ Knows(worker[y])
  BY DEF PInv, IInv, AllKnow
<1>2. CASE y = x
  <2>1. worker'[y] = w
    BY <1>2 DEF PInv, IInv, Step
  <2> QED BY <2>1 DEF Knows, CellOf
<1>3. CASE y # x
  <2>1. worker'[y] = worker[y]
    BY <1>3 DEF PInv, IInv, Step
  <2>2. PICK v : v = worker[y]
    OBVIOUS
  <2>3. Knows(v)'
    BY <1>1, <2>2 DEF KnowledgeStays
  <2> QED BY <2>1, <2>2, <2>3 DEF Knows, CellOf
<1> QED BY <1>2, <1>3

(* Processes that stay still know what they knew.                          *)
LEMMA AllStillKnow ==
  ASSUME PInv, KnowledgeStays, UNCHANGED worker
  PROVE  AllKnow'
<1> SUFFICES ASSUME NEW y \in Process PROVE Knows(worker[y])'
  BY DEF AllKnow
<1>1. PICK v : v = worker[y]
  OBVIOUS
<1>2. Knows(v)'
  BY <1>1 DEF PInv, IInv, AllKnow, KnowledgeStays
<1> QED BY <1>1, <1>2 DEF Knows, CellOf

(* A local step.                                                           *)
LEMMA ContinueHolds ==
  ASSUME PInv, NEW x \in Process, NEW w, Knows(w), Continue(x, w)
  PROVE  Holds
<1>1. UNCHANGED branches /\ LateHold(late') /\ Step(x, w)
  BY DEF Continue, PInv, Facts
<1>2. StepHolds /\ KnowledgeStays
  BY <1>1, NothingWritten DEF PInv, IInv
<1>3. Knows(w)'
  BY <1>1, GenerationUnmoved DEF branches, Knows, CellOf
<1> QED BY <1>1, <1>2, <1>3, OthersKnow DEF Holds

(* Giving up.                                                              *)
LEMMA StopHolds ==
  ASSUME PInv, NEW x \in Process, Stop(x)
  PROVE  Holds
<1>1. Knows(Idle)
  BY QuietKnows DEF Quiet, Idle
<1> QED BY <1>1, ContinueHolds DEF Stop, Continue

(* A write refused or lost.                                                *)
LEMMA LoseOrRefuseHolds ==
  ASSUME PInv, NEW x \in Process, NEW isHead, NEW lost, NEW onFailure,
         \A w \in onFailure : Quiet(w), isHead => LateHold(lost),
         LoseOrRefuse(x, isHead, lost, onFailure)
  PROVE  Holds
<1>1. PICK w \in onFailure : Step(x, w)
  BY DEF LoseOrRefuse
<1>2. UNCHANGED branches /\ LateHold(late')
  BY DEF LoseOrRefuse, PInv, Facts
<1>3. StepHolds /\ KnowledgeStays
  BY <1>2, NothingWritten DEF PInv, IInv
<1>4. Knows(w)'
  BY <1>1, QuietKnowsNext
<1> QED BY <1>1, <1>3, <1>4, OthersKnow DEF Holds

(* The conditional publication of the claimed event.                       *)
LEMMA WriteEventsHolds ==
  ASSUME PInv, NEW x \in Process, NEW put \in Operation, NEW w, NEW onFailure,
         Len(events) = worker[x].e => IsOfClaim(put),
         Quiet(w), \A v \in onFailure : Quiet(v),
         WriteEvents(x, put, w, onFailure)
  PROVE  Holds
<1>1. CASE /\ Len(events) = worker[x].e
           /\ AppendEvents(put)
           /\ Step(x, w)
  <2>1. StepHolds /\ KnowledgeStays
    BY <1>1, EventsWritten DEF PInv, IInv
  <2> QED BY <1>1, <2>1, QuietKnowsNext, OthersKnow DEF Holds
<1>2. CASE LoseOrRefuse(x, Len(events) = worker[x].e,
             [late EXCEPT !.events = @ \union {put}], onFailure)
  <2>1. Len(events) = worker[x].e => LateHold([late EXCEPT !.events = @ \union {put}])
    BY DEF PInv, IInv, Branches, LateFits, LateWrites, Facts, LateHold
  <2> QED BY <1>2, <2>1, LoseOrRefuseHolds
<1> QED BY <1>1, <1>2 DEF WriteEvents

(* The conditional write of a cell that respects the claim.                *)
LEMMA WriteOperationsHolds ==
  ASSUME PInv, NEW x \in Process, NEW put \in OwnedCell, NEW w, NEW onFailure,
         Len(operations) = worker[x].o => Follows(put),
         Len(operations) = worker[x].o /\ AppendOperations(put) => Knows(w)',
         \A v \in onFailure : Quiet(v),
         WriteOperations(x, put, w, onFailure)
  PROVE  Holds
<1>1. CASE /\ Len(operations) = worker[x].o
           /\ AppendOperations(put)
           /\ Step(x, w)
  <2>1. StepHolds /\ KnowledgeStays
    BY <1>1, OperationsWritten DEF PInv, IInv
  <2> QED BY <1>1, <2>1, OthersKnow DEF Holds
<1>2. CASE LoseOrRefuse(x, Len(operations) = worker[x].o,
             [late EXCEPT !.operations = @ \union {put}], onFailure)
  <2>1. Len(operations) = worker[x].o =>
          LateHold([late EXCEPT !.operations = @ \union {put}])
    BY DEF PInv, IInv, Branches, LateFits, LateWrites, Facts, LateHold
  <2> QED BY <1>2, <2>1, LoseOrRefuseHolds
<1> QED BY <1>1, <1>2 DEF WriteOperations

(* The conditional write of the coverage branch that covers.               *)
LEMMA WriteCoverageHolds ==
  ASSUME PInv, NEW x \in Process, NEW put \in Coverage, NEW w,
         Len(coverage) = worker[x].c => Covers(put), Quiet(w),
         WriteCoverage(x, put, w)
  PROVE  Holds
<1>1. CASE /\ Len(coverage) = worker[x].c
           /\ AppendCoverage(put)
           /\ Step(x, w)
  <2>1. StepHolds /\ KnowledgeStays
    BY <1>1, CoverageWritten DEF PInv, IInv
  <2> QED BY <1>1, <2>1, QuietKnowsNext, OthersKnow DEF Holds
<1>2. CASE LoseOrRefuse(x, Len(coverage) = worker[x].c,
             [late EXCEPT !.coverage = @ \union {put}], {Idle})
  <2>1. Len(coverage) = worker[x].c =>
          LateHold([late EXCEPT !.coverage = @ \union {put}])
    BY DEF PInv, IInv, Branches, LateFits, LateWrites, Facts, LateHold
  <2>2. Quiet(Idle)
    BY DEF Quiet, Idle
  <2>3. PICK quit : quit = {Idle}
    OBVIOUS
  <2>4. \A v \in quit : Quiet(v)
    BY <2>2, <2>3
  <2> QED BY <1>2, <2>1, <2>3, <2>4, LoseOrRefuseHolds
<1> QED BY <1>1, <1>2 DEF WriteCoverage

(* The conditional write of the derived branch that derives.               *)
LEMMA WriteDerivedHolds ==
  ASSUME PInv, NEW x \in Process, NEW put \in Derived, NEW w,
         Len(derived) = worker[x].d => Derives(put), Quiet(w),
         WriteDerived(x, put, w)
  PROVE  Holds
<1>1. CASE /\ Len(derived) = worker[x].d
           /\ AppendDerived(put)
           /\ Step(x, w)
  <2>1. StepHolds /\ KnowledgeStays
    BY <1>1, DerivedWritten DEF PInv, IInv
  <2> QED BY <1>1, <2>1, QuietKnowsNext, OthersKnow DEF Holds
<1>2. CASE LoseOrRefuse(x, Len(derived) = worker[x].d,
             [late EXCEPT !.derived = @ \union {put}], {Idle})
  <2>1. Len(derived) = worker[x].d =>
          LateHold([late EXCEPT !.derived = @ \union {put}])
    BY DEF PInv, IInv, Branches, LateFits, LateWrites, Facts, LateHold
  <2>2. Quiet(Idle)
    BY DEF Quiet, Idle
  <2>3. PICK quit : quit = {Idle}
    OBVIOUS
  <2>4. \A v \in quit : Quiet(v)
    BY <2>2, <2>3
  <2> QED BY <1>2, <2>1, <2>3, <2>4, LoseOrRefuseHolds
<1> QED BY <1>1, <1>2 DEF WriteDerived

-----------------------------------------------------------------------------
(* Every step holds: one lemma per group of actions. *)

(* Where a snapshot starts, and where an append goes on, there is nothing  *)
(* to know.                                                                *)
LEMMA SnapshotsAreQuiet ==
  /\ Quiet(Idle)
  /\ \A task, ref : Quiet(Snapshot(task, ref))
  /\ \A w : \A v \in Retried(w) : Quiet(v)
<1>1. Quiet(Idle)
  BY DEF Quiet, Idle
<1>2. ASSUME NEW task, NEW ref PROVE Quiet(Snapshot(task, ref))
  BY DEF Quiet, Snapshot, Idle
<1> QED BY <1>1, <1>2 DEF Retried

(* Nor is there at most places.                                            *)
LEMMA QuietPlace ==
  ASSUME NEW w \in Worker, NEW place,
         place \notin {"public", "private", "state", "publish-event"}
  PROVE  /\ Quiet([w EXCEPT !.pc = place])
         /\ \A n : /\ Quiet([w EXCEPT !.pc = place, !.e = n])
                   /\ Quiet([w EXCEPT !.pc = place, !.d = n])
                   /\ Quiet([w EXCEPT !.pc = place, !.o = n])
                   /\ Quiet([w EXCEPT !.pc = place, !.c = n])
                   /\ Quiet([w EXCEPT !.pc = place, !.proof = n])
                   /\ \A m : Quiet([w EXCEPT !.pc = place, !.c = n, !.proof = m])
         /\ \A task : Quiet([w EXCEPT !.pc = place, !.task = task])
BY DEF Quiet, Worker

(* A step to a place where there is nothing to know.                       *)
LEMMA QuietContinueHolds ==
  ASSUME PInv, NEW x \in Process, NEW w, Quiet(w), Continue(x, w)
  PROVE  Holds
BY QuietKnows, ContinueHolds

(* The guards are written over the projection that is there.               *)
LEMMA GuardsCover ==
  ASSUME PInv, NEW x \in Process, NEW put \in Coverage,
         put.src = coverage[worker[x].c].src
  PROVE  Len(coverage) = worker[x].c => Covers(put)
<1>1. Branches /\ FitsNow(worker[x])
  BY DEF PInv, IInv
<1>2. worker[x].c \in 1..Len(coverage) /\ Tip.src \in Nat
  BY <1>1, CurrentCommits DEF FitsNow, Fits
<1>3. coverage[worker[x].c].src <= Len(events)
  BY <1>2 DEF PInv, Facts, SourcesHold
<1> QED BY <1>2, <1>3 DEF Covers, Between, Tip

(* A cell over one that was read at the head and is not appending.         *)
LEMMA OverSettledCell ==
  ASSUME NEW x \in Process, NEW put, CellOf(worker[x]).state # "appending"
  PROVE  Len(operations) = worker[x].o => Follows(put)
BY DEF Follows, CellNow, CellOf

(* An attempt starts, reads or gives up.                                   *)
LEMMA ReadHolds ==
  ASSUME PInv, NEW x \in Process,
         \/ StartPrepare(x) \/ StartReconcile(x)
         \/ ReadEvents(x) \/ ReadDerived(x) \/ ReadOperations(x) \/ ReadCoverage(x)
  PROVE  Holds
<1>1. worker[x] \in Worker
  BY WhatIsRead DEF PInv
<1>2. CASE StartPrepare(x) \/ StartReconcile(x)
  BY <1>2, SnapshotsAreQuiet, QuietContinueHolds DEF StartPrepare, StartReconcile
<1>3. CASE ReadEvents(x)
  BY <1>1, <1>3, SnapshotsAreQuiet, QuietPlace, QuietContinueHolds DEF ReadEvents
<1>4. CASE ReadDerived(x)
  BY <1>1, <1>4, SnapshotsAreQuiet, QuietPlace, QuietContinueHolds DEF ReadDerived
<1>5. CASE ReadOperations(x)
  BY <1>1, <1>5, SnapshotsAreQuiet, QuietPlace, QuietContinueHolds DEF ReadOperations
<1>6. CASE ReadCoverage(x)
  <2> DEFINE place == IF worker[x].task = "refresh" THEN "check-complete" ELSE "decide"
  <2>1. place \notin {"public", "private", "state", "publish-event"}
    OBVIOUS
  <2> HIDE DEF place
  <2>2. Quiet([worker[x] EXCEPT !.pc = place, !.c = Len(coverage)])
    BY <1>1, <2>1, QuietPlace
  <2> QED BY <1>6, <2>2, SnapshotsAreQuiet, QuietContinueHolds DEF ReadCoverage, place
<1> QED BY <1>2, <1>3, <1>4, <1>5, <1>6

(* A cell is prepared over an idle one.                                    *)
LEMMA PrepareHolds ==
  ASSUME PInv, NEW x \in Process, Prepare(x)
  PROVE  Holds
<1>1. CASE Stop(x)
  BY <1>1, StopHolds
<1>2. ASSUME NEW op \in Operation, CellOf(worker[x]).state = "idle",
             WriteOperations(x, PreparedCell(op, worker[x].e), Idle, {Idle})
      PROVE  Holds
  <2>1. worker[x].e \in Nat
    BY WhatIsRead DEF PInv, Worker
  <2>2. PreparedCell(op, worker[x].e) \in OwnedCell
    BY <2>1 DEF PreparedCell, IdleCell, OwnedCell, Cell
  <2>3. Len(operations) = worker[x].o => Follows(PreparedCell(op, worker[x].e))
    BY <1>2, OverSettledCell
  <2>4. Knows(Idle)' /\ \A v \in {Idle} : Quiet(v)
    BY SnapshotsAreQuiet, QuietKnowsNext
  <2> QED BY <1>2, <2>2, <2>3, <2>4, WriteOperationsHolds
<1> QED BY <1>1, <1>2 DEF Prepare

(* Recovery writes nothing.                                                *)
LEMMA RecoverHolds ==
  ASSUME PInv, NEW x \in Process, Recover(x) \/ Settle(x) \/ AppendReturns(x) \/ MissFacts(x)
  PROVE  Holds
<1> DEFINE w == worker[x]
           proof == CHOOSE k \in ReleaseProofs(w) : TRUE
<1>1. w \in Worker
  BY WhatIsRead DEF PInv
<1>2. Quiet([w EXCEPT !.pc = "check-public"])
  BY <1>1, QuietPlace
<1>3. CASE Recover(x)
  <2>1. Quiet([w EXCEPT !.pc = "check-complete", !.proof = proof])
    BY <1>1, QuietPlace
  <2> QED BY <1>2, <1>3, <2>1, SnapshotsAreQuiet, QuietContinueHolds DEF Recover
<1>4. CASE Settle(x)
  BY <1>2, <1>4, SnapshotsAreQuiet, QuietContinueHolds DEF Settle
<1>5. CASE AppendReturns(x)
  BY <1>5, SnapshotsAreQuiet, QuietContinueHolds DEF AppendReturns
<1>6. CASE MissFacts(x)
  BY <1>6, SnapshotsAreQuiet, QuietContinueHolds DEF MissFacts
<1> QED BY <1>3, <1>4, <1>5, <1>6

(* begin writes the fence and the marker.                                  *)
LEMMA BeginHolds ==
  ASSUME PInv, NEW x \in Process, AcquireFence(x) \/ OpenMarker(x)
  PROVE  Holds
<1> DEFINE w == worker[x]
<1>1. /\ w \in Worker
      /\ CellOf(w) \in Cell /\ FenceOf(w) \in Fence /\ coverage[w.c] \in Coverage
  BY WhatIsRead DEF PInv
<1>2. CASE AcquireFence(x)
  <2> DEFINE wanted == MutationFence(FenceOf(w), ReferenceAt(w.ref))
             put == [coverage[w.c] EXCEPT !.fence = wanted]
             next == [w EXCEPT !.pc = "open-marker", !.c = w.c + 1]
  <2>1. Quiet([w EXCEPT !.pc = "open-marker"]) /\ Quiet(next)
    BY <1>1, QuietPlace
  <2>2. CASE Continue(x, [w EXCEPT !.pc = "open-marker"])
    BY <2>1, <2>2, QuietContinueHolds
  <2>3. CASE /\ CanAcquire(FenceOf(w), CellOf(w), ReferenceAt(w.ref))
             /\ WriteCoverage(x, put, next)
    <3>1. wanted \in Fence
      BY <1>1, <2>3 DEF CanAcquire, ReferenceAgrees, MutationFence, ReferenceAt,
                        Reference, Fence, Cell, Worker
    <3>2. put \in Coverage /\ put.src = coverage[w.c].src
      BY <1>1, <3>1 DEF Coverage
    <3> HIDE DEF put, next
    <3>3. Len(coverage) = w.c => Covers(put)
      BY <3>2, GuardsCover
    <3> QED BY <2>1, <2>3, <3>2, <3>3, WriteCoverageHolds
  <2>4. CASE Stop(x)
    BY <2>4, StopHolds
  <2> QED BY <1>2, <2>2, <2>3, <2>4 DEF AcquireFence
<1>3. CASE OpenMarker(x)
  <2> DEFINE put == [coverage[w.c] EXCEPT !.marker = FenceOf(w).op]
             next == Snapshot("append", w.ref)
  <2>1. Quiet(next)
    BY SnapshotsAreQuiet
  <2>2. CASE Continue(x, next)
    BY <2>1, <2>2, QuietContinueHolds
  <2>3. CASE WriteCoverage(x, put, next)
    <3>1. put \in Coverage /\ put.src = coverage[w.c].src
      BY <1>1 DEF Coverage, Fence
    <3> HIDE DEF put, next
    <3>2. Len(coverage) = w.c => Covers(put)
      BY <3>1, GuardsCover
    <3> QED BY <2>1, <2>3, <3>1, <3>2, WriteCoverageHolds
  <2>4. CASE Stop(x)
    BY <2>4, StopHolds
  <2> QED BY <1>3, <2>2, <2>3, <2>4 DEF OpenMarker
<1> QED BY <1>2, <1>3

(* A claim is that of the cell it renews.                                  *)
LEMMA ClaimAtHolds ==
  ASSUME PInv, NEW x \in Process, NEW head \in Nat, NEW held, NEW written,
         Claimed(CellOf(worker[x]), head) = CellOf(worker[x]) => Knows(held),
         /\ Len(operations) = worker[x].o
         /\ AppendOperations(Claimed(CellOf(worker[x]), head))
         => Knows(written)',
         ClaimAt(x, head, held, written)
  PROVE  Holds
<1> DEFINE w == worker[x]
           put == Claimed(CellOf(w), head)
<1>1. CellOf(w) \in OwnedCell
  BY WhatIsRead DEF PInv
<1>2. CASE Stop(x)
  BY <1>2, StopHolds
<1>3. CASE put = CellOf(w) /\ Continue(x, held)
  BY <1>3, ContinueHolds
<1>4. CASE Live(CellOf(w)) /\ WriteOperations(x, put, written, Retried(w))
  <2>1. put \in OwnedCell
    BY <1>1, <1>4 DEF Claimed, Live, OwnedCell, Cell
  <2>2. put.state = "appending" /\ put.op = CellOf(w).op /\ put.base = CellOf(w).base
    BY <1>1 DEF Claimed, OwnedCell, Cell
  <2> HIDE DEF put
  <2>3. Len(operations) = w.o => Follows(put)
    BY <2>2 DEF Follows, SameClaim, CellNow, CellOf
  <2> QED BY <1>4, <2>1, <2>3, SnapshotsAreQuiet, WriteOperationsHolds DEF put
<1> QED BY <1>2, <1>3, <1>4 DEF ClaimAt, CanClaim

(* A landed event is claimed before recovery goes on.                      *)
LEMMA DiscoverLandedHolds ==
  ASSUME PInv, NEW x \in Process, DiscoverLanded(x)
  PROVE  Holds
<1> DEFINE w == worker[x]
           head == FirstTaken(CellOf(w).op, w.e) - 1
           settle == Snapshot("settle", 0)
<1>1. Quiet(settle)
  BY SnapshotsAreQuiet
<1>2. CASE Continue(x, settle)
  BY <1>1, <1>2, QuietContinueHolds
<1>3. CASE ClaimAt(x, head, settle, settle)
  <2>1. head \in Nat
    BY FirstTakenExists, WhatIsRead DEF PInv, DiscoverLanded, HasLanded, Worker
  <2>2. Knows(settle) /\ Knows(settle)'
    BY <1>1, QuietKnows, QuietKnowsNext
  <2> HIDE DEF head, settle
  <2> QED BY <1>3, <2>1, <2>2, ClaimAtHolds
<1> QED BY <1>2, <1>3 DEF DiscoverLanded

(* Only a prepared cell ends without an event.                             *)
LEMMA FindHolds ==
  ASSUME PInv, NEW x \in Process, FindConflict(x) \/ FindInapplicable(x)
  PROVE  Holds
<1> DEFINE w == worker[x]
<1>1. CASE Stop(x)
  BY <1>1, StopHolds
<1>2. ASSUME NEW result \in {"semantic_noop", "conflict"}, NEW onFailure,
             CellOf(w).state # "appending", \A v \in onFailure : Quiet(v),
             TerminateAbsent(x, result, onFailure)
      PROVE  Holds
  <2> DEFINE put == TerminalCell(CellOf(w), result, w.e, 0)
  <2>1. CASE Stop(x)
    BY <2>1, StopHolds
  <2>2. CASE Live(CellOf(w)) /\ WriteOperations(x, put, Snapshot("settle", 0), onFailure)
    <3>1. w \in Worker /\ CellOf(w) \in OwnedCell
      BY WhatIsRead DEF PInv
    <3>2. put \in OwnedCell
      BY <2>2, <3>1 DEF TerminalCell, IdleCell, Live, OwnedCell, Cell, Worker, Results
    <3>3. Len(operations) = w.o => Follows(put)
      BY <1>2, OverSettledCell
    <3>4. Knows(Snapshot("settle", 0))'
      BY SnapshotsAreQuiet, QuietKnowsNext
    <3> HIDE DEF put
    <3> QED BY <1>2, <2>2, <3>2, <3>3, <3>4, WriteOperationsHolds
  <2> QED BY <1>2, <2>1, <2>2 DEF TerminateAbsent, CanTerminate
<1>3. PICK quit : quit = {Idle}
  OBVIOUS
<1>4. (\A v \in quit : Quiet(v)) /\ (\A v \in Retried(w) : Quiet(v))
  BY <1>3, SnapshotsAreQuiet
<1>5. CASE FindConflict(x)
  <2>1. Stop(x) \/ (CellOf(w).state # "appending" /\ TerminateAbsent(x, "conflict", quit))
    BY <1>3, <1>5 DEF FindConflict
  <2> QED BY <1>1, <1>2, <1>4, <2>1
<1>6. CASE FindInapplicable(x)
  <2>1. \/ Stop(x)
        \/ \E result \in {"semantic_noop", "conflict"} :
             CellOf(w).state # "appending" /\ TerminateAbsent(x, result, Retried(w))
    BY <1>6 DEF FindInapplicable
  <2> QED BY <1>1, <1>2, <1>4, <2>1
<1> QED BY <1>5, <1>6

(* A process that may publish holds the claim, and a confirmed operation   *)
(* only at the head it was confirmed on.                                   *)
LEMMA ClaimAppendHolds ==
  ASSUME PInv, NEW x \in Process, ClaimAppend(x)
  PROVE  Holds
<1> DEFINE w == worker[x]
           cell == CellOf(w)
           put == Claimed(cell, w.e)
           held == [w EXCEPT !.pc = "publish-event"]
<1>0. PICK written : written = [w EXCEPT !.pc = "publish-event", !.o = w.o + 1]
  OBVIOUS
<1>1. w \in Worker /\ cell \in OwnedCell /\ w.e \in Nat /\ w.o \in Nat
  BY WhatIsRead DEF PInv, Worker
<1>2. cell.op \in Confirmed => cell.base = w.e
  BY DEF ClaimAppend, Applicable, IsRejected
<1>3. put.state = "appending" /\ put.op = cell.op /\ put.base = cell.base
  BY <1>1 DEF Claimed, OwnedCell, Cell
<1>4. held.pc = "publish-event" /\ held.o = w.o /\ held.e = w.e
  BY <1>1 DEF Worker
<1>5. written.pc = "publish-event" /\ written.o = w.o + 1 /\ written.e = w.e
  BY <1>0, <1>1 DEF Worker
<1>6. ClaimAt(x, w.e, held, written)
  BY <1>0 DEF ClaimAppend
<1> HIDE DEF held
<1>7. put = cell => Knows(held)
  <2> SUFFICES ASSUME put = cell PROVE Knows(held)
    OBVIOUS
  <2>1. CellOf(held) = cell
    BY <1>4 DEF CellOf
  <2>2. cell.state = "appending"
    BY <1>3
  <2> HIDE DEF cell
  <2> QED BY <1>2, <1>4, <2>1, <2>2 DEF Knows
<1>8. ASSUME Len(operations) = w.o, AppendOperations(put)
      PROVE  Knows(written)'
  <2>1. operations'[w.o + 1] = put
    <3>1. operations \in Seq(OwnedCell)
      BY DEF PInv, IInv, Branches
    <3> HIDE DEF put
    <3> QED BY <1>8, <3>1 DEF AppendOperations
  <2>2. operations'[written.o] = put
    BY <1>5, <2>1
  <2> HIDE DEF put, cell
  <2>3. CellOf(written)'.state = "appending"
    BY <1>3, <2>2 DEF CellOf
  <2>4. CellOf(written)'.op \in Confirmed => CellOf(written)'.base = written.e
    BY <1>2, <1>3, <1>5, <2>2 DEF CellOf
  <2> QED BY <1>5, <2>3, <2>4 DEF Knows
<1>9. w.e \in Nat
  BY <1>1
<1> QED BY <1>6, <1>7, <1>8, <1>9, ClaimAtHolds

(* What update_events publishes is what the current cell claims.           *)
LEMMA UpdateEventsHolds ==
  ASSUME PInv, NEW x \in Process, UpdateEvents(x)
  PROVE  Holds
<1> DEFINE w == worker[x]
           op == CellOf(w).op
<1>1. FitsNow(w) /\ Knows(w) /\ w.pc = "publish-event"
  BY DEF PInv, IInv, AllKnow, UpdateEvents
<1>2. /\ op \in Operation
      /\ w.o \in 1..Len(operations)
      /\ \A i \in 1..w.e : IdempotencyKey[events[i]] # IdempotencyKey[op]
  BY <1>1 DEF FitsNow, Fits, CellOf
<1>3. CellOf(w).state = "appending" /\ (op \in Confirmed => CellOf(w).base = w.e)
  BY <1>1 DEF Knows
<1>4. Len(events) = w.e => IsOfClaim(op)
  <2> SUFFICES ASSUME Len(events) = w.e PROVE IsOfClaim(op)
    OBVIOUS
  <2>1. ~ HasEvent(op)
    BY <1>2 DEF HasEvent
  <2>2. SameClaim(CellNow, CellOf(w))
    BY <1>2, <1>3, <2>1 DEF PInv, Facts, ClaimsStand, CellOf
  <2> QED BY <1>3, <2>2 DEF IsOfClaim, SameClaim
<1>5. WriteEvents(x, op, Snapshot("settle", 0), Retried(w))
  BY DEF UpdateEvents
<1> HIDE DEF op
<1> QED BY <1>2, <1>4, <1>5, SnapshotsAreQuiet, WriteEventsHolds

(* No projection is ahead of the head a source check compares with.        *)
LEMMA CheckSourceHolds ==
  ASSUME PInv, NEW x \in Process, CheckSource(x)
  PROVE  Holds
<1> DEFINE w == worker[x]
           place == SourceCheck[w.pc]
           v == [w EXCEPT !.pc = place]
<1>1. w \in Worker /\ FitsNow(w)
  BY WhatIsRead DEF PInv
<1>2. place # "publish-event"
  BY DEF CheckSource, SourceCheck
<1> HIDE DEF place
<1>3. v.pc = place /\ v.e = w.e /\ v.c = w.c /\ v.d = w.d
  BY <1>1 DEF Worker
<1>4. CASE Len(events) = w.e
  <2>1. coverage[w.c].src <= Len(events) /\ derived[w.d].gen <= Generation(Len(events))
    BY <1>1 DEF FitsNow, Fits, PInv, Facts, SourcesHold
  <2> HIDE DEF v
  <2>2. Knows(v)
    BY <1>2, <1>3, <1>4, <2>1 DEF Knows
  <2> QED BY <1>4, <2>2, ContinueHolds DEF CheckSource, v, place
<1>5. CASE Len(events) # w.e
  BY <1>5, SnapshotsAreQuiet, QuietContinueHolds DEF CheckSource
<1> QED BY <1>4, <1>5

(* The public projection is replaced by one that covers no less.           *)
LEMMA PublishCoverageHolds ==
  ASSUME PInv, NEW x \in Process, PublishCoverage(x)
  PROVE  Holds
<1> DEFINE w == worker[x]
           put == [coverage[w.c] EXCEPT !.src = w.e]
           next == [w EXCEPT !.pc = "check-private", !.c = w.c + 1]
<1>1. w \in Worker /\ FitsNow(w) /\ coverage[w.c] \in Coverage /\ w.e \in Nat
  BY WhatIsRead DEF PInv, Worker
<1>2. Quiet([w EXCEPT !.pc = "check-private"]) /\ Quiet(next)
  BY <1>1, QuietPlace
<1>3. CASE Continue(x, [w EXCEPT !.pc = "check-private"])
  BY <1>2, <1>3, QuietContinueHolds
<1>4. CASE WriteCoverage(x, put, next)
  <2>1. put \in Coverage /\ put.src = w.e
    BY <1>1 DEF Coverage
  <2>2. coverage[w.c].src <= w.e /\ w.e <= Len(events)
    BY <1>1 DEF PInv, AllKnow, Knows, PublishCoverage, FitsNow, Fits
  <2> HIDE DEF put, next
  <2>3. Len(coverage) = w.c => Covers(put)
    BY <2>1, <2>2 DEF Covers, Between, Tip
  <2> QED BY <1>2, <1>4, <2>1, <2>3, WriteCoverageHolds
<1> QED BY <1>3, <1>4 DEF PublishCoverage

(* Shards keep the generation, and the state file's is no older.           *)
LEMMA PublishPrivateHolds ==
  ASSUME PInv, NEW x \in Process, PublishShards(x) \/ PublishState(x)
  PROVE  Holds
<1> DEFINE w == worker[x]
<1>1. /\ w \in Worker /\ FitsNow(w) /\ derived[w.d] \in Derived
      /\ w.e \in Nat /\ w.d \in Nat /\ derived[w.d].gen \in Nat
  BY WhatIsRead DEF PInv, Worker, Derived
<1>2. w.e <= Len(events) /\ w.d \in 1..Len(derived) /\ Len(events) \in Nat
  BY <1>1 DEF FitsNow, Fits
<1>3. PICK high \in Nat : high = Generation(Len(events))
  BY <1>2, GenerationIsNatural
<1>4. derived[w.d].gen <= high
  BY <1>2, <1>3 DEF PInv, Facts, SourcesHold
<1>5. CASE PublishShards(x)
  <2> DEFINE put == [derived[w.d] EXCEPT !.sealed = FALSE]
             next == [w EXCEPT !.pc = "check-state", !.d = w.d + 1]
  <2>1. CASE Continue(x, Published(w))
    <3>1. Quiet(Published(w))
      BY <1>1, QuietPlace, SnapshotsAreQuiet DEF Published
    <3> QED BY <2>1, <3>1, QuietContinueHolds
  <2>2. CASE WriteDerived(x, put, next)
    <3>1. put \in Derived /\ put.gen = derived[w.d].gen
      BY <1>1 DEF Derived
    <3>2. Quiet(next)
      BY <1>1, QuietPlace
    <3> HIDE DEF put, next
    <3>3. Len(derived) = w.d => Derives(put)
      BY <1>1, <1>3, <1>4, <3>1 DEF Derives, Between, PrivateNow
    <3> QED BY <2>2, <3>1, <3>2, <3>3, WriteDerivedHolds
  <2> QED BY <1>5, <2>1, <2>2 DEF PublishShards
<1>6. CASE PublishState(x)
  <2> DEFINE v == [w EXCEPT !.d = w.d + 1]
  <2>1. PICK gen \in Nat : gen = Generation(w.e) /\ gen <= high
    BY <1>1, <1>2, <1>3, GenerationIsNatural, GenerationAdvances
  <2>2. derived[w.d].gen <= gen
    BY <1>6, <2>1 DEF PInv, AllKnow, Knows, PublishState
  <2>3. PICK put : put = [gen |-> gen, sealed |-> TRUE]
    OBVIOUS
  <2>4. put \in Derived /\ put.gen = gen
    BY <2>3 DEF Derived
  <2>5. Len(derived) = w.d => Derives(put)
    BY <1>3, <2>1, <2>2, <2>4 DEF Derives, Between, PrivateNow
  <2>6. Quiet(Published(v))
    <3>1. v \in Worker
      BY <1>1 DEF Worker
    <3> QED BY <3>1, QuietPlace, SnapshotsAreQuiet DEF Published
  <2>7. WriteDerived(x, put, Published(v))
    BY <1>6, <2>1, <2>3 DEF PublishState
  <2> HIDE DEF v
  <2> QED BY <2>4, <2>5, <2>6, <2>7, WriteDerivedHolds
<1> QED BY <1>5, <1>6

(* complete writes the guards over the projection that is there.           *)
LEMMA CompleteHolds ==
  ASSUME PInv, NEW x \in Process, CloseMarker(x) \/ ReleaseFence(x)
  PROVE  Holds
<1> DEFINE w == worker[x]
<1>1. w \in Worker /\ FenceOf(w) \in Fence /\ coverage[w.c] \in Coverage
  BY WhatIsRead DEF PInv
<1>2. CASE Stop(x)
  BY <1>2, StopHolds
<1>3. CASE CloseMarker(x)
  <2> DEFINE place == IF CellOf(w).state = "appending" THEN "land" ELSE "check-release"
             put == [coverage[w.c] EXCEPT !.marker = None]
  <2>1. place \notin {"public", "private", "state", "publish-event"}
    OBVIOUS
  <2> HIDE DEF place
  <2>2. /\ Quiet([w EXCEPT !.pc = "clear"]) /\ Quiet([w EXCEPT !.pc = place])
        /\ Quiet([w EXCEPT !.pc = place, !.c = w.c + 1])
    BY <1>1, <2>1, QuietPlace
  <2>3. CASE Continue(x, [w EXCEPT !.pc = "clear"]) \/ Continue(x, [w EXCEPT !.pc = place])
    BY <2>2, <2>3, QuietContinueHolds
  <2>4. CASE WriteCoverage(x, put, [w EXCEPT !.pc = place, !.c = w.c + 1])
    <3>1. put \in Coverage /\ put.src = coverage[w.c].src
      BY <1>1 DEF Coverage
    <3> HIDE DEF put
    <3>2. Len(coverage) = w.c => Covers(put)
      BY <3>1, GuardsCover
    <3> QED BY <2>2, <2>4, <3>1, <3>2, WriteCoverageHolds
  <2> QED BY <1>2, <1>3, <2>3, <2>4 DEF CloseMarker, place
<1>4. CASE ReleaseFence(x)
  <2> DEFINE put == [coverage[w.c] EXCEPT !.fence = Released(FenceOf(w))]
             next == [w EXCEPT !.pc = "clear", !.c = w.c + 1, !.proof = w.c]
  <2>1. put \in Coverage /\ put.src = coverage[w.c].src
    BY <1>1 DEF Coverage, Released, IdleFence, Fence
  <2>2. Quiet(next)
    BY <1>1, QuietPlace
  <2>3. Stop(x) \/ WriteCoverage(x, put, next)
    BY <1>4 DEF ReleaseFence
  <2> HIDE DEF put, next
  <2>4. Len(coverage) = w.c => Covers(put)
    BY <2>1, GuardsCover
  <2> QED BY <1>2, <2>1, <2>2, <2>3, <2>4, WriteCoverageHolds
<1> QED BY <1>3, <1>4

(* A claimed cell ends only when its event is canonical.                   *)
LEMMA TerminateLandedHolds ==
  ASSUME PInv, NEW x \in Process, TerminateLanded(x)
  PROVE  Holds
<1> DEFINE w == worker[x]
           op == CellOf(w).op
           put == TerminalCell(CellOf(w), "landed", w.e, FirstTaken(op, w.e))
           next == [w EXCEPT !.pc = "check-release", !.o = w.o + 1]
<1>1. w \in Worker /\ FitsNow(w) /\ CellOf(w) \in OwnedCell /\ w.e \in Nat
  BY WhatIsRead DEF PInv, Worker
<1>2. CASE Stop(x)
  BY <1>2, StopHolds
<1>3. CASE /\ HasLanded(op, w.e)
           /\ Live(CellOf(w))
           /\ WriteOperations(x, put, next, {Idle})
  <2>1. FirstTaken(op, w.e) \in 1..w.e /\ events[FirstTaken(op, w.e)] = op
    BY <1>1, <1>3, FirstTakenExists DEF HasLanded
  <2>2. put \in OwnedCell
    <3>1. w.e \in Nat /\ FirstTaken(op, w.e) \in Nat
      BY <1>1, <2>1
    <3> QED BY <1>1, <1>3, <3>1 DEF TerminalCell, IdleCell, Live, OwnedCell, Cell, Results
  <2>3. HasEvent(op)
    BY <1>1, <2>1 DEF HasEvent, FitsNow, Fits
  <2>4. Len(operations) = w.o => Follows(put)
    BY <2>3 DEF Follows, CellNow, CellOf
  <2>5. Quiet(next)
    BY <1>1, QuietPlace
  <2>6. PICK v : v = next
    OBVIOUS
  <2>7. Knows(v)' /\ \A u \in {Idle} : Quiet(u)
    BY <2>5, <2>6, QuietKnowsNext, SnapshotsAreQuiet
  <2>8. WriteOperations(x, put, v, {Idle})
    BY <1>3, <2>6
  <2> HIDE DEF put, next
  <2> QED BY <2>2, <2>4, <2>7, <2>8, WriteOperationsHolds
<1> QED BY <1>2, <1>3 DEF TerminateLanded, CanTerminate

(* A cell is cleared over a terminal one.                                  *)
LEMMA ClearHolds ==
  ASSUME PInv, NEW x \in Process, Clear(x)
  PROVE  Holds
<1>1. CASE Stop(x)
  BY <1>1, StopHolds
<1>2. CASE /\ CellOf(worker[x]).state = "terminal"
           /\ WriteOperations(x, IdleCell, Idle, {Idle})
  <2>1. IdleCell \in OwnedCell
    BY DEF IdleCell, OwnedCell, Cell
  <2>2. Len(operations) = worker[x].o => Follows(IdleCell)
    BY <1>2, OverSettledCell
  <2>3. Knows(Idle)' /\ \A v \in {Idle} : Quiet(v)
    BY SnapshotsAreQuiet, QuietKnowsNext
  <2> QED BY <1>2, <2>1, <2>2, <2>3, WriteOperationsHolds
<1> QED BY <1>1, <1>2 DEF Clear, CanClear

(* A crash writes nothing.                                                 *)
LEMMA CrashHolds ==
  ASSUME PInv, NEW x \in Process, Crash(x)
  PROVE  Holds
<1>1. UNCHANGED branches /\ LateHold(late') /\ Step(x, Idle)
  BY DEF Crash, PInv, Facts
<1>2. StepHolds /\ KnowledgeStays
  BY <1>1, NothingWritten DEF PInv, IInv
<1>3. Knows(Idle)'
  BY SnapshotsAreQuiet, QuietKnowsNext
<1> QED BY <1>1, <1>2, <1>3, OthersKnow DEF Holds

(* What is delivered late held since it was written, success checks write  *)
(* over the projection that is there, and a competitor may publish.        *)
LEMMA EnvironmentHolds ==
  ASSUME PInv, Environment
  PROVE  Holds
<1>1. Branches /\ Facts /\ UNCHANGED worker
  BY DEF PInv, IInv, Environment, Deliver, ReserveSuccess, ReleaseSuccess, Compete
<1>2. SUFFICES StepHolds /\ KnowledgeStays
  BY <1>1, AllStillKnow DEF Holds
<1>3. CASE Deliver
  <2>1. late \in LateWrites /\ LateHold(late)
    BY <1>1 DEF Branches, LateFits, Facts
  <2>2. ASSUME NEW put \in late.events, AppendEvents(put)
        PROVE  StepHolds /\ KnowledgeStays
    BY <1>1, <2>1, <2>2, EventsWritten DEF LateHold, LateWrites
  <2>3. ASSUME NEW put \in late.operations, AppendOperations(put)
        PROVE  StepHolds /\ KnowledgeStays
    BY <1>1, <2>1, <2>3, OperationsWritten DEF LateHold, LateWrites
  <2>4. ASSUME NEW put \in late.coverage, AppendCoverage(put)
        PROVE  StepHolds /\ KnowledgeStays
    BY <1>1, <2>1, <2>4, CoverageWritten DEF LateHold, LateWrites
  <2>5. ASSUME NEW put \in late.derived, AppendDerived(put)
        PROVE  StepHolds /\ KnowledgeStays
    BY <1>1, <2>1, <2>5, DerivedWritten DEF LateHold, LateWrites
  <2> QED BY <1>3, <2>2, <2>3, <2>4, <2>5 DEF Deliver
<1>4. ASSUME NEW put \in Coverage, put.src = Tip.src, AppendCoverage(put)
      PROVE  StepHolds /\ KnowledgeStays
  <2>1. Tip.src \in Nat /\ Len(coverage) \in 1..Len(coverage)
    BY <1>1, CurrentCommits DEF Branches
  <2>2. Covers(put)
    BY <1>1, <1>4, <2>1 DEF Facts, SourcesHold, Covers, Between, Tip
  <2> QED BY <1>1, <1>4, <2>2, CoverageWritten
<1>5. Tip \in Coverage /\ Tip.fence \in Fence
  BY <1>1, CurrentCommits DEF Coverage
<1>6. CASE ReserveSuccess
  <2> DEFINE put == [Tip EXCEPT !.fence = ReservedFence(@)]
  <2>1. put \in Coverage /\ put.src = Tip.src
    BY <1>5 DEF Coverage, ReservedFence, Fence
  <2> QED BY <1>4, <1>6, <2>1 DEF ReserveSuccess
<1>7. CASE ReleaseSuccess
  <2> DEFINE put == [Tip EXCEPT !.fence = Released(@)]
  <2>1. put \in Coverage /\ put.src = Tip.src
    BY <1>5 DEF Coverage, Released, IdleFence, Fence
  <2> QED BY <1>4, <1>7, <2>1 DEF ReleaseSuccess
<1>8. ASSUME NEW op \in Competitor, Compete(op)
      PROVE  StepHolds /\ KnowledgeStays
  BY <1>1, <1>8, CompetitorsAreOperations, EventsWritten DEF Compete
<1> QED BY <1>3, <1>6, <1>7, <1>8 DEF Environment

(* Every step holds, and so keeps the invariant.                           *)
LEMMA NextHolds == PInv /\ [Next]_vars => StepHolds /\ PInv'
<1> SUFFICES ASSUME PInv, [Next]_vars PROVE Holds /\ IInv'
  BY DEF Holds, StepHolds, PInv
<1>1. IInv'
  BY NextKeeps DEF PInv
<1>2. CASE UNCHANGED vars
  <2>1. UNCHANGED branches /\ LateHold(late') /\ UNCHANGED worker
    BY <1>2 DEF vars, branches, PInv, Facts
  <2>2. StepHolds /\ KnowledgeStays
    BY <2>1, NothingWritten DEF PInv, IInv
  <2> QED BY <1>1, <2>1, <2>2, AllStillKnow DEF Holds
<1>3. ASSUME NEW x \in Process, Reconcile(x)
      PROVE  Holds /\ IInv'
  BY <1>1, <1>3, ReadHolds, RecoverHolds, BeginHolds, DiscoverLandedHolds, FindHolds,
     ClaimAppendHolds, UpdateEventsHolds, CheckSourceHolds, PublishCoverageHolds,
     PublishPrivateHolds, CompleteHolds, TerminateLandedHolds, ClearHolds
     DEF Reconcile
<1>4. ASSUME NEW x \in Process, StartPrepare(x) \/ Prepare(x) \/ Crash(x)
      PROVE  Holds /\ IInv'
  BY <1>1, <1>4, ReadHolds, PrepareHolds, CrashHolds
<1>5. CASE Environment
  BY <1>1, <1>5, EnvironmentHolds
<1> QED BY <1>1, <1>2, <1>3, <1>4, <1>5 DEF Next

-----------------------------------------------------------------------------
(* The theorems. *)

(* The connected project satisfies the invariant.                          *)
LEMMA PublicationStarts == Init => PInv
<1> SUFFICES ASSUME Init PROVE PInv
  OBVIOUS
<1>1. IInv
  BY InitEstablishes
<1>2. Len(events) = 0 /\ Len(coverage) = 1 /\ Len(derived) = 1 /\ Len(operations) = 1
  BY DEF Init
<1>3. Generation(0) \in Nat
  BY GenerationIsNatural
<1>4. SourcesHold
  BY <1>2, <1>3 DEF Init, SourcesHold
<1>5. ClaimsStand /\ LateHold(late)
  BY <1>2 DEF Init, ClaimsStand, IdleCell, LateHold, NothingLate
<1>6. AllKnow
  BY SnapshotsAreQuiet, QuietKnows DEF Init, AllKnow
<1> QED BY <1>1, <1>4, <1>5, <1>6 DEF PInv, Facts

(* No write, however late or stale, takes a projection back to an older    *)
(* canonical source, whatever the number of engines: each write of         *)
(* reconcile.py that moves a projection follows a check of the source and  *)
(* is conditional on the head it was read at.                              *)
THEOREM ProjectionsOnlyAdvance == Spec => ProjectionsAdvance
<1>1. PInv /\ [Next]_vars => PInv' /\ Advances
  BY NextHolds DEF StepHolds
<1>2. Advances => [Tip.src <= Tip'.src /\ PrivateNow.gen <= PrivateNow'.gen]_<<coverage, derived>>
  BY DEF Advances
<1> QED BY <1>1, <1>2, PublicationStarts, PTL DEF Spec, ProjectionsAdvance

(* A confirmed operation lands on the canonical head it was confirmed on,  *)
(* when only the engines may publish it: the claim of append stands from   *)
(* the check of confirmed_canonical_oid to the event, whoever else moves   *)
(* the cell or delivers a lost write.                                      *)
THEOREM ConfirmedLandWhereConfirmed ==
  ASSUME Confirmed \intersect Competitor = {}
  PROVE  Spec => LandsAsConfirmed
<1>1. PInv /\ [Next]_vars => PInv' /\ Lands
  BY NextHolds DEF StepHolds
<1>2. Lands => [\A op \in Confirmed :
                  events' = Append(events, op) => CellNow.base = Len(events)]_events
  BY DEF Lands
<1> QED BY <1>1, <1>2, PublicationStarts, PTL DEF Spec, LandsAsConfirmed
=============================================================================
