--------------------------- MODULE OperationState ---------------------------
(***************************************************************************)
(* The pure transitions of core/dracla/conformance/operations.py over the  *)
(* three durable guards of a mutation:                                     *)
(*                                                                         *)
(*   - the prepared-operation cell  (records repository, `operations`),    *)
(*   - the decision fence           (coverage repository, `coverage`),     *)
(*   - the in-flight marker         (coverage repository, `coverage`).     *)
(*                                                                         *)
(* Every transition of the code validates its inputs, raises when a guard  *)
(* fails and otherwise returns the new record.  Here the guard is a        *)
(* predicate Can... and the record it returns is an operator of its own.   *)
(*                                                                         *)
(* Data the properties do not tell apart is abstracted.  An operation      *)
(* stands for its owner pair (operation_id, operation_sha256), its event   *)
(* and the fence scope, which the code derives from the event alone.  The  *)
(* frozen package is its prepared_events_head (`base`): for one operation  *)
(* nothing else in the package varies.  The cell's generation is constant  *)
(* in every transition of the code and is left out.  Commits are named by  *)
(* their position on their branch.                                         *)
(***************************************************************************)
EXTENDS Naturals

CONSTANTS
  Operation,  \* the operations a project may be asked to perform
  None        \* no operation

ASSUME NoneIsNoOperation == None \notin Operation

Results == {"landed", "semantic_noop", "conflict"}

Cell ==
  [state    : {"idle", "prepared", "appending", "terminal"},
   op       : Operation \union {None},
   base     : Nat,                        \* prepared_events_head
   head     : Nat,                        \* append_head (names the append claim)
   result   : Results \union {"none"},
   observed : Nat,                        \* observed_events_head
   commit   : Nat]                        \* canonical_commit, 0 when null

Fence ==
  [state : {"idle", "mutation", "success_reserved"},
   gen   : Nat,
   op    : Operation \union {None},
   prep  : Nat]                           \* prepared_commit_oid, 0 when absent

IdleCell ==
  [state |-> "idle", op |-> None, base |-> 0, head |-> 0,
   result |-> "none", observed |-> 0, commit |-> 0]

IdleFence(gen) == [state |-> "idle", gen |-> gen, op |-> None, prep |-> 0]

(***************************************************************************)
(* A prepared reference: the commit that froze the operation and the cell  *)
(* stored in it.                                                           *)
(***************************************************************************)
Reference(oid, cell) == [oid |-> oid, cell |-> cell]

Live(cell) == cell.state \in {"prepared", "appending"}

ReferenceAgrees(fence, cell, ref) ==
  /\ fence.prep = ref.oid
  /\ cell.state # "idle"
  /\ fence.op = cell.op
  /\ cell.op = ref.cell.op
  /\ Live(cell) => cell.base = ref.cell.base

(* A marker is empty, or its only entry is the fence's operation. *)
MarkerMatches(marker, fence) == marker \in {None, fence.op}

CrossBound(cell, fence, marker, ref) ==
  \/ /\ fence.state = "mutation"
     /\ ReferenceAgrees(fence, cell, ref)
     /\ MarkerMatches(marker, fence)
  \/ /\ fence.state # "mutation"
     /\ marker = None
     /\ cell.state # "appending"

MutationBound(cell, fence, marker, ref) ==
  /\ fence.state = "mutation"
  /\ CrossBound(cell, fence, marker, ref)

-----------------------------------------------------------------------------
(* The cell: prepared -> appending -> terminal -> idle, or prepared ->     *)
(* terminal when the operation is found to be a no-op or a conflict.       *)

PreparedCell(op, base) ==
  [IdleCell EXCEPT !.state = "prepared", !.op = op, !.base = base]

CanClaim(cell, fence, marker, ref) ==
  /\ MutationBound(cell, fence, marker, ref)
  /\ marker # None
  /\ Live(cell)

Claimed(cell, head) == [cell EXCEPT !.state = "appending", !.head = head]

CanTerminate(cell, fence, marker, ref, result, projected) ==
  /\ MutationBound(cell, fence, marker, ref)
  /\ Live(cell)
  /\ (result = "landed") <=> (cell.state = "appending")
  /\ IF result = "landed" THEN marker = None /\ projected ELSE marker # None

TerminalCellAtHead(cell, result, observed, commit) ==
  [IdleCell EXCEPT !.state = "terminal", !.op = cell.op, !.result = result,
                   !.observed = observed, !.commit = observed]

TerminalCell(cell, result, observed, commit) ==
  [IdleCell EXCEPT !.state = "terminal", !.op = cell.op, !.result = result,
                   !.observed = observed, !.commit = commit]

CanClear(cell, mutation, released, marker, ref) ==
  /\ cell.state = "terminal"
  /\ mutation.state = "mutation"
  /\ ReferenceAgrees(mutation, cell, ref)
  /\ marker = None
  /\ released.state = "idle"
  /\ released.gen = mutation.gen + 1

-----------------------------------------------------------------------------
(* The fence: idle -> mutation -> idle(gen + 1), or idle ->                *)
(* success_reserved -> idle(gen + 1).                                      *)

MutationFence(fence, ref) ==
  [state |-> "mutation", gen |-> fence.gen, op |-> ref.cell.op, prep |-> ref.oid]

NeverAcquired(fence, cell, ref) == FALSE

AlreadyAcquired(fence, cell, ref) ==
  /\ Live(cell)
  /\ ReferenceAgrees(MutationFence(fence, ref), cell, ref)
  /\ fence = MutationFence(fence, ref)

CanAcquire(fence, cell, ref) ==
  /\ cell.state = "prepared"
  /\ ReferenceAgrees(MutationFence(fence, ref), cell, ref)
  /\ fence.state = "idle"

CanRelease(fence, cell, marker, ref, projected) ==
  /\ fence.state = "mutation"
  /\ cell.state = "terminal"
  /\ ReferenceAgrees(fence, cell, ref)
  /\ marker = None
  /\ cell.result = "landed" => projected

ReleasedUnknown(fence) == [IdleFence(fence.gen + 1) EXCEPT !.state = "released"]

Released(fence) == IdleFence(fence.gen + 1)

CanReserve(fence, marker) ==
  /\ fence.state = "idle"
  /\ marker = None

ReservedFence(fence) == [fence EXCEPT !.state = "success_reserved"]

-----------------------------------------------------------------------------
(* The marker. *)

CanOpen(cell, fence, marker, ref) ==
  /\ MutationBound(cell, fence, marker, ref)
  /\ Live(cell)

CanClose(cell, fence, marker, ref, projected) ==
  /\ MutationBound(cell, fence, marker, ref)
  /\ cell.state # "prepared"
  /\ cell.state = "appending" => projected
=============================================================================
