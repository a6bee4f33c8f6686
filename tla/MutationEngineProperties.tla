---------------------- MODULE MutationEngineProperties ----------------------
(* What the mutation engine is for, stated of MutationEngine. *)
EXTENDS MutationEngine

(* The shape of every branch, of the writes still in flight and of what    *)
(* each process holds: the heads it read are commits that exist.           *)
TypeOK ==
  /\ events \in Seq(Operation)
  /\ operations \in Seq(Cell)
  /\ coverage \in Seq(Coverage)
  /\ derived \in Seq(Derived)
  /\ late \in [events : SUBSET Operation, operations : SUBSET Cell,
               coverage : SUBSET Coverage, derived : SUBSET Derived]
  /\ worker \in [Process -> Worker]
  /\ faults \in Nat

-----------------------------------------------------------------------------
(* The current commits of the branches. *)

CellNow == operations[Len(operations)]

PrivateNow == derived[Len(derived)]

(* Retries, crashes, lost answers and concurrent engines never publish the *)
(* same operation twice, nor two operations under one idempotency key.     *)
(* append rereads history before every attempt and update_events extends   *)
(* only the head that history was read at.                                 *)
AtMostOnce ==
  \A i, j \in DOMAIN events :
    IdempotencyKey[events[i]] = IdempotencyKey[events[j]] => i = j

(* An engine's event appears only while the durable cell holds the append  *)
(* claim of that very operation on that very parent, under its own fence:  *)
(* whoever reads the branches can tell who may have published it.          *)
AppendUnderClaim ==
  [][\A op \in Operation \ Competitor :
       events' = Append(events, op) =>
         /\ CellNow.state = "appending"
         /\ CellNow.op = op
         /\ CellNow.head = Len(events)
         /\ Tip.fence.state = "mutation"
         /\ Tip.fence.op = op]_events

(* ... and while the in-flight marker, which readers of the coverage       *)
(* repository see, names it.                                               *)
AppendUnderMarker ==
  [][\A op \in Operation \ Competitor :
       events' = Append(events, op) => Tip.marker = op]_events

(* A terminal cell tells the truth about canonical history: landed names   *)
(* the operation's own commit, and any other result means no engine has    *)
(* published or can still publish it (an appending cell is never given up, *)
(* since a delayed publisher may own its append right).                    *)
TerminalIsFinal ==
  CellNow.state = "terminal" =>
    IF CellNow.result = "landed"
    THEN /\ CellNow.commit \in DOMAIN events
         /\ events[CellNow.commit] = CellNow.op
    ELSE /\ \A i \in DOMAIN events : events[i] # CellNow.op
         /\ CellNow.op \notin late.events
         /\ \A x \in Process :
              worker[x].pc = "publish-event" /\ worker[x].e = Len(events) =>
                CellOf(worker[x]).op # CellNow.op

(* While no mutation holds the fence, the public projection covers every   *)
(* event an engine has landed, and the private one is sealed at the last   *)
(* generation they advance.  A crash or a stale process never leaves the   *)
(* fence open on half-published facts.                                     *)
LandedIsCovered ==
  Tip.fence.state # "mutation" =>
    \A i \in DOMAIN events :
      events[i] \notin Competitor =>
        /\ i <= Tip.src
        /\ events[i] \in Private => i <= PrivateNow.gen /\ PrivateNow.sealed

(* No write, however late or stale, takes a projection back to an older    *)
(* canonical source.                                                       *)
ProjectionsAdvance ==
  [][Tip.src <= Tip'.src /\ PrivateNow.gen <= PrivateNow'.gen]_<<coverage, derived>>

(* The three guards, as the branches hold them now, always name one owner: *)
(* this is what lets recovery authenticate them after a crash at any step. *)
GuardsCrossBound ==
  CrossBound(CellNow, Tip.fence, Tip.marker, ReferenceAt(Tip.fence.prep))

(* After a crash between the fence's release and the clearing of the cell, *)
(* coverage ancestry holds exactly one release by this execution of the    *)
(* operation, even when the same package was executed before.              *)
ReleaseIsProved ==
  CellNow.state = "terminal" /\ Tip.fence.state # "mutation" =>
    LET now == [Idle EXCEPT !.e = Len(events), !.o = Len(operations),
                            !.c = Len(coverage)]
    IN Cardinality(ReleaseProofs(now)) = 1

(* A confirmed operation lands on the canonical head it was confirmed on:  *)
(* no event slips between the confirmation and the append.                 *)
LandsAsConfirmed ==
  [][\A op \in Confirmed :
       events' = Append(events, op) => CellNow.base = Len(events)]_events

(* Once an operation is durably prepared the engine is eventually idle     *)
(* again, whatever finite number of crashes and lost answers intervenes.   *)
RepairsForward == CellNow.state = "prepared" ~> CellNow.state = "idle"

(* The promise to authoritative checks: DecisionGate. *)
Gate == INSTANCE DecisionGate
  WITH log <- events, covered <- Tip.src, gate <- Tip.fence.state

GateSpec == Gate!Spec
=============================================================================
