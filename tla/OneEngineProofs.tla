-------------------------- MODULE OneEngineProofs --------------------------
(* Theorems of MutationEngine when one process runs the engine at a time,  *)
(* however often it crashes, whatever writes are applied late and whoever  *)
(* else writes the canonical branch.                                       *)
EXTENDS MutationEngineProofs

OneEngine == \A x, y \in Process : x = y

-----------------------------------------------------------------------------
(* A write that was given up may become the head at any moment, so the     *)
(* guards are related for every head a branch may come to have.            *)

Cells == {CellNow} \union late.operations

Tips == {Tip} \union late.coverage

Privates == {PrivateNow} \union late.derived

Own(i) == events[i] \notin Competitor

Held(v) == v.fence.state = "mutation"

Sealed(e) == [gen |-> Generation(e), sealed |-> TRUE]

(* The commit a fence names exists, and only success checks reserve it.    *)
Named(v) == Held(v) => v.fence.prep \in 1..Len(operations)

Reserved(v) == v.fence.state = "success_reserved"

NamesExist ==
  /\ \A i \in 1..Len(coverage) : Named(coverage[i])
  /\ \A v \in late.coverage : Named(v) /\ ~ Reserved(v)

(* Guards that name one owner; the marker of a claim stays until its event *)
(* is canonical.                                                           *)
Bound(cell, v) ==
  /\ CrossBound(cell, v.fence, v.marker, ReferenceAt(v.fence.prep))
  /\ cell.state = "appending" /\ ~ HasEvent(cell.op) => v.marker = cell.op

GuardsBound == \A cell \in Cells : \A v \in Tips : Bound(cell, v)

(* A cell that names an operation names one of the engine; if it is        *)
(* terminal, it tells the truth.                                           *)
Truthful(cell) ==
  /\ cell.state # "idle" => cell.op \in Operation \ Competitor
  /\ cell.state = "terminal" =>
       IF cell.result = "landed"
       THEN cell.commit \in DOMAIN events /\ events[cell.commit] = cell.op
       ELSE ~ HasEvent(cell.op)

(* What a late write may turn the current cell into.                       *)
Becomes(cell, put) ==
  \/ cell.state = "idle" /\ put.state = "prepared"
  \/ /\ cell.state = "prepared" /\ put.op = cell.op
     /\ put.state = "appending" \/ (put.state = "terminal" /\ put.result # "landed")
  \/ /\ cell.state = "appending" /\ put.op = cell.op
     /\ put.state = "appending" \/ (put.state = "terminal" /\ put.result = "landed")
  \/ cell.state = "terminal" /\ put.state = "idle"

CellsOK ==
  /\ \A cell \in Cells : Truthful(cell)
  /\ \A put \in late.operations : Becomes(CellNow, put)

(* Once a prepared operation may go on, its guards stay until it has.      *)
Guarded(v) == Held(v) /\ v.marker # None

Opened == CellNow.state = "prepared" /\ (late.operations # {} \/ Tip.marker # None)

OpenedStays == Opened => \A v \in Tips : Guarded(v)

(* The fence opens over complete projections only, and is open when it may *)
(* be acquired late.                                                       *)
Complete(v) ==
  /\ \A i \in 1..Len(events) : Own(i) => i <= v.src
  /\ \A p \in Privates : p = Sealed(v.src)

Acquirable == CellNow.state = "prepared" /\ Tip.fence.state = "idle"

TipsOK ==
  /\ \A v \in Tips : ~ Held(v) => v.src = Tip.src /\ Complete(v)
  /\ ~ Held(Tip) /\ late.coverage # {} => Acquirable
  /\ ~ Held(Tip) => \A v \in Tips : v.src = Tip.src

(* A late write of the private projection comes from a process that found  *)
(* it incomplete, and so does the next.                                    *)
Incomplete(e) == ~ PrivateNow.sealed \/ PrivateNow.gen < Generation(e)

LateIncomplete(e) == late.derived # {} => Incomplete(e)

GuardsOK ==
  /\ NamesExist /\ GuardsBound /\ CellsOK /\ OpenedStays /\ TipsOK
  /\ LateIncomplete(Len(events))

-----------------------------------------------------------------------------
(* What the process knows of the commits it has read, by how far its       *)
(* snapshot has come.                                                      *)

Knowing(w, places) == w.task = "refresh" \/ w.pc \notin places

HasE(w) == Knowing(w, {"idle", "events"})

HasD(w) == Knowing(w, {"idle", "events", "derived"})

HasO(w) == Knowing(w, {"idle", "events", "derived", "operations"})

HasC(w) == Knowing(w, {"idle", "events", "derived", "operations", "coverage"})

(* Only the claim in the cell may have landed since it read the events.    *)
EventsKnown(e) ==
  /\ \A i \in (e + 1)..Len(events) :
       Own(i) => /\ CellNow.state = "appending" /\ CellNow.op = events[i]
                 /\ \A put \in late.operations : put.state = "appending"
  /\ LateIncomplete(e)

(* A current projection stays, and an open fence is over it.               *)
PrivateKnown(e, p) ==
  /\ p = Sealed(e) => \A q \in Privates : q = p
  /\ \A v \in Tips : ~ Held(v) => p = Sealed(v.src)

CellKnown(cell) ==
  /\ cell.state = "prepared" => (\A c \in Cells : c = cell) \/ (\A v \in Tips : Held(v))
  /\ cell.state = "appending" =>
       \A c \in Cells : c.state \in {"appending", "terminal"} /\ c.op = cell.op
  /\ cell.state = "terminal" => (\A c \in Cells : c = cell) \/ (\A v \in Tips : ~ Held(v))

GuardsKnown(o, cell, u) ==
  /\ o = Len(operations) /\ cell.state = "prepared" /\ u.marker # None =>
       \A v \in Tips : Guarded(v)
  /\ \A v \in Tips : ~ Held(v) => v.src = u.src
  /\ cell.state = "terminal" =>
       IF Held(u) THEN \A c \in Cells : c = cell ELSE \A v \in Tips : ~ Held(v)

Known(w) ==
  /\ HasE(w) => EventsKnown(w.e)
  /\ HasD(w) => PrivateKnown(w.e, derived[w.d])
  /\ HasO(w) => CellKnown(CellOf(w))
  /\ HasC(w) => GuardsKnown(w.o, CellOf(w), coverage[w.c])

-----------------------------------------------------------------------------
(* What it knows by what it is about to do.                                *)

Completing == {"check-complete", "close", "land", "check-release", "release", "clear"}

Publishing == {"check-public", "public", "check-private", "private", "check-state", "state"}

Refreshing == {"events", "derived", "operations", "coverage"}

(* The operation it completes has landed or is terminal.                   *)
SettledHolds ==
  \A cell \in Cells :
    /\ cell.state \in {"appending", "terminal"}
    /\ cell.state = "appending" => HasEvent(cell.op)

Settled(w) ==
  \/ w.task \in {"settle", "refresh"}
  \/ w.task = "recover" /\ w.pc \in Publishing

(* It has released the fence, or found it released.                        *)
HasReleased(w) == w.pc = "clear" \/ w.proof # 0

AtWork(w) == w.pc \in Publishing \union Completing \/ w.task = "refresh"

PlacesFit(w) ==
  /\ w.pc \in Publishing => w.task \in {"recover", "settle", "repair"}
  /\ w.pc \in Completing => w.task = "refresh" \/ w.proof # 0
  /\ w.task = "refresh" => w.pc \in Completing \union Refreshing
  /\ w.proof # 0 => w.pc \in Completing

Informed(w) ==
  /\ PlacesFit(w)
  /\ w.task = "begin" => w.ref \in 1..Len(operations)
  /\ AtWork(w) /\ ~ HasReleased(w) =>
       /\ Held(coverage[w.c])
       /\ Settled(w) => SettledHolds
       /\ w.pc \notin {"check-public", "public"} => coverage[w.c].src = w.e
       /\ w.task = "refresh" => derived[w.d] = Sealed(w.e)
  /\ w.task = "settle" => SettledHolds
  /\ w.pc \in {"check-state", "state"} =>
       ~ derived[w.d].sealed /\ \A v \in Tips : Held(v)
  /\ HasReleased(w) => \A v \in Tips : ~ Held(v)

KnowsAll(w) == Known(w) /\ Informed(w)

OneKnows == \A x \in Process : KnowsAll(worker[x])

OneInv == PInv /\ GuardsOK /\ OneKnows


-----------------------------------------------------------------------------
(* What the branches and the writes in flight hold. *)

(* The commits a branch may come to have at its head are well formed.      *)
LEMMA HeadsFit ==
  ASSUME Branches
  PROVE  /\ Tips \subseteq Coverage /\ Tip \in Tips /\ late.coverage \subseteq Tips
         /\ Cells \subseteq OwnedCell /\ CellNow \in Cells /\ late.operations \subseteq Cells
         /\ Privates \subseteq Derived /\ PrivateNow \in Privates
         /\ late.derived \subseteq Privates
         /\ Len(events) \in Nat
<1>1. late.coverage \subseteq Coverage /\ late.operations \subseteq OwnedCell
      /\ late.derived \subseteq Derived
  BY DEF Branches, LateFits, LateWrites
<1> QED BY <1>1, CurrentCommits DEF Tips, Cells, Privates

(* No fence or projection of a head covers more than there is.             *)
LEMMA SourcesFit ==
  ASSUME Branches, Facts
  PROVE  \A v \in Tips : v.src \in 0..Len(events)
<1>1. Len(events) \in Nat /\ Len(coverage) \in 1..Len(coverage) /\ Tip.src \in Nat
  BY CurrentCommits DEF Branches
<1>2. Tip.src <= Len(events)
  BY <1>1 DEF Facts, SourcesHold, Tip
<1>3. \A v \in late.coverage : v.src \in Nat /\ v.src <= Len(events)
  BY <1>1 DEF Facts, LateHold, Covers, Between, Branches, LateFits, LateWrites, Coverage
<1> QED BY <1>1, <1>2, <1>3 DEF Tips

(* A fence that is held names an operation of the engine under which every *)
(* cell is; one that is not lets no cell be appending.                     *)
LEMMA WhatBoundSays ==
  ASSUME NEW cell, NEW v, Bound(cell, v)
  PROVE  /\ Held(v) => /\ cell.state # "idle" /\ v.fence.op = cell.op
                       /\ v.marker \in {None, cell.op}
         /\ ~ Held(v) => v.marker = None /\ cell.state # "appending"
         /\ v.marker # None => Held(v)
BY DEF Bound, CrossBound, Held, ReferenceAgrees, MarkerMatches

(* A write of the coverage branch replaces every head it may have.         *)
LEMMA AfterCoverage ==
  ASSUME Branches, NEW put \in Coverage, AppendCoverage(put)
  PROVE  /\ Tips' = {put} /\ Tip' = put
         /\ Cells' = Cells /\ CellNow' = CellNow
         /\ Privates' = Privates /\ PrivateNow' = PrivateNow
         /\ UNCHANGED <<events, operations, derived>>
         /\ late'.events = late.events /\ late'.operations = late.operations
         /\ late'.coverage = {} /\ late'.derived = late.derived
         /\ Len(coverage') = Len(coverage) + 1 /\ coverage'[Len(coverage) + 1] = put
         /\ \A i \in 1..Len(coverage) : coverage'[i] = coverage[i]
<1>1. UNCHANGED <<events, operations, derived>> /\ coverage' = Append(coverage, put)
      /\ late' = [late EXCEPT !.coverage = {}]
  BY DEF AppendCoverage
<1>2. late'.events = late.events /\ late'.operations = late.operations
      /\ late'.coverage = {} /\ late'.derived = late.derived
  BY <1>1 DEF Branches, LateFits, LateWrites
<1>3. Len(coverage') = Len(coverage) + 1 /\ coverage'[Len(coverage) + 1] = put
      /\ \A i \in 1..Len(coverage) : coverage'[i] = coverage[i]
  BY <1>1 DEF Branches
<1>4. Tip' = put /\ CellNow' = CellNow /\ PrivateNow' = PrivateNow
  BY <1>1, <1>3 DEF Tip, CellNow, PrivateNow
<1>5. Tips' = {put} /\ Cells' = Cells /\ Privates' = Privates
  BY <1>2, <1>4 DEF Tips, Cells, Privates
<1> QED BY <1>1, <1>2, <1>3, <1>4, <1>5

(* So does a write of the operation branch,                                *)
LEMMA AfterOperations ==
  ASSUME Branches, NEW put \in OwnedCell, AppendOperations(put)
  PROVE  /\ Tips' = Tips /\ Tip' = Tip
         /\ Cells' = {put} /\ CellNow' = put
         /\ Privates' = Privates /\ PrivateNow' = PrivateNow
         /\ UNCHANGED <<events, coverage, derived>>
         /\ late'.events = late.events /\ late'.operations = {}
         /\ late'.coverage = late.coverage /\ late'.derived = late.derived
         /\ Len(operations') = Len(operations) + 1 /\ operations'[Len(operations) + 1] = put
         /\ \A i \in 1..Len(operations) : operations'[i] = operations[i]
<1>1. UNCHANGED <<events, coverage, derived>> /\ operations' = Append(operations, put)
      /\ late' = [late EXCEPT !.operations = {}]
  BY DEF AppendOperations
<1>2. late'.events = late.events /\ late'.operations = {}
      /\ late'.coverage = late.coverage /\ late'.derived = late.derived
  BY <1>1 DEF Branches, LateFits, LateWrites
<1>3. Len(operations') = Len(operations) + 1 /\ operations'[Len(operations) + 1] = put
      /\ \A i \in 1..Len(operations) : operations'[i] = operations[i]
  BY <1>1 DEF Branches
<1>4. Tip' = Tip /\ CellNow' = put /\ PrivateNow' = PrivateNow
  BY <1>1, <1>3 DEF Tip, CellNow, PrivateNow
<1>5. Tips' = Tips /\ Cells' = {put} /\ Privates' = Privates
  BY <1>2, <1>4 DEF Tips, Cells, Privates
<1> QED BY <1>1, <1>2, <1>3, <1>4, <1>5

(* ... of the private projection                                           *)
LEMMA AfterDerived ==
  ASSUME Branches, NEW put \in Derived, AppendDerived(put)
  PROVE  /\ Tips' = Tips /\ Tip' = Tip
         /\ Cells' = Cells /\ CellNow' = CellNow
         /\ Privates' = {put} /\ PrivateNow' = put
         /\ UNCHANGED <<events, operations, coverage>>
         /\ late'.events = late.events /\ late'.operations = late.operations
         /\ late'.coverage = late.coverage /\ late'.derived = {}
         /\ Len(derived') = Len(derived) + 1 /\ derived'[Len(derived) + 1] = put
         /\ \A i \in 1..Len(derived) : derived'[i] = derived[i]
<1>1. UNCHANGED <<events, operations, coverage>> /\ derived' = Append(derived, put)
      /\ late' = [late EXCEPT !.derived = {}]
  BY DEF AppendDerived
<1>2. late'.events = late.events /\ late'.operations = late.operations
      /\ late'.coverage = late.coverage /\ late'.derived = {}
  BY <1>1 DEF Branches, LateFits, LateWrites
<1>3. Len(derived') = Len(derived) + 1 /\ derived'[Len(derived) + 1] = put
      /\ \A i \in 1..Len(derived) : derived'[i] = derived[i]
  BY <1>1 DEF Branches
<1>4. Tip' = Tip /\ CellNow' = CellNow /\ PrivateNow' = put
  BY <1>1, <1>3 DEF Tip, CellNow, PrivateNow
<1>5. Tips' = Tips /\ Cells' = Cells /\ Privates' = {put}
  BY <1>2, <1>4 DEF Tips, Cells, Privates
<1> QED BY <1>1, <1>2, <1>3, <1>4, <1>5

(* ... and of the canonical branch.                                        *)
LEMMA AfterEvents ==
  ASSUME Branches, NEW put \in Operation, AppendEvents(put)
  PROVE  /\ Tips' = Tips /\ Tip' = Tip
         /\ Cells' = Cells /\ CellNow' = CellNow
         /\ Privates' = Privates /\ PrivateNow' = PrivateNow
         /\ UNCHANGED <<operations, coverage, derived>>
         /\ late'.events = {} /\ late'.operations = late.operations
         /\ late'.coverage = late.coverage /\ late'.derived = late.derived
         /\ Len(events') = Len(events) + 1 /\ events'[Len(events) + 1] = put
         /\ \A i \in 1..Len(events) : events'[i] = events[i]
<1>1. UNCHANGED <<operations, coverage, derived>> /\ events' = Append(events, put)
      /\ late' = [late EXCEPT !.events = {}]
  BY DEF AppendEvents
<1>2. late'.events = {} /\ late'.operations = late.operations
      /\ late'.coverage = late.coverage /\ late'.derived = late.derived
  BY <1>1 DEF Branches, LateFits, LateWrites
<1>3. Len(events') = Len(events) + 1 /\ events'[Len(events) + 1] = put
      /\ \A i \in 1..Len(events) : events'[i] = events[i]
  BY <1>1 DEF Branches
<1>4. Tip' = Tip /\ CellNow' = CellNow /\ PrivateNow' = PrivateNow
  BY <1>1 DEF Tip, CellNow, PrivateNow
<1>5. Tips' = Tips /\ Cells' = Cells /\ Privates' = Privates
  BY <1>2, <1>4 DEF Tips, Cells, Privates
<1> QED BY <1>1, <1>2, <1>3, <1>4, <1>5

-----------------------------------------------------------------------------
(* What stays true of a commit while the other branches grow. *)

(* What is said of commits by the canonical and the operation branch alone. *)
LEMMA SameLog ==
  ASSUME UNCHANGED <<events, operations>>
  PROVE  /\ \A cell, v : Bound(cell, v) => Bound(cell, v)'
         /\ \A v : Named(v) => Named(v)'
         /\ \A cell : Truthful(cell) => Truthful(cell)'
         /\ \A op : HasEvent(op) <=> HasEvent(op)'
         /\ \A e : Sealed(e)' = Sealed(e) /\ Generation(e)' = Generation(e)
         /\ \A i : Own(i) <=> Own(i)'
<1>1. \A e : Generation(e)' = Generation(e)
  BY GenerationUnmoved
<1>2. \A op : HasEvent(op) <=> HasEvent(op)'
  BY DEF HasEvent
<1>3. \A cell, v : Bound(cell, v) => Bound(cell, v)'
  BY <1>2 DEF Bound, ReferenceAt
<1> QED BY <1>1, <1>2, <1>3 DEF Named, Truthful, Sealed, Own

(* ... when the operation branch grows.                                    *)
LEMMA LongerOperations ==
  ASSUME Branches, NEW put \in OwnedCell, AppendOperations(put)
  PROVE  /\ \A cell, v : Named(v) /\ Bound(cell, v) => Bound(cell, v)'
         /\ \A v : Named(v) => Named(v)'
         /\ \A cell : Truthful(cell) => Truthful(cell)'
         /\ \A op : HasEvent(op) <=> HasEvent(op)'
         /\ \A e : Sealed(e)' = Sealed(e) /\ Generation(e)' = Generation(e)
         /\ \A i : Own(i) <=> Own(i)'
<1>1. /\ UNCHANGED events
      /\ Len(operations) \in Nat /\ Len(operations') = Len(operations) + 1
      /\ \A i \in 1..Len(operations) : operations'[i] = operations[i]
  BY AfterOperations DEF Branches
<1>2. \A e : Generation(e)' = Generation(e)
  BY <1>1, GenerationUnmoved
<1>3. \A op : HasEvent(op) <=> HasEvent(op)'
  BY <1>1 DEF HasEvent
<1>4. \A v : Named(v) => Named(v)'
  BY <1>1 DEF Named
<1>5. ASSUME NEW cell, NEW v, Named(v), Bound(cell, v) PROVE Bound(cell, v)'
  <2>1. CASE Held(v)
    <3>1. ReferenceAt(v.fence.prep)' = ReferenceAt(v.fence.prep)
      BY <1>1, <1>5, <2>1 DEF Named, ReferenceAt
    <3> QED BY <1>3, <1>5, <3>1 DEF Bound
  <2>2. CASE ~ Held(v)
    BY <1>3, <1>5, <2>2 DEF Bound, CrossBound, Held
  <2> QED BY <2>1, <2>2
<1> QED BY <1>1, <1>2, <1>3, <1>4, <1>5 DEF Truthful, Sealed, Own

(* ... and when the canonical branch does, if no event contradicts a cell. *)
LEMMA LongerEvents ==
  ASSUME Branches, NEW put \in Operation, AppendEvents(put)
  PROVE  /\ \A cell, v : Bound(cell, v) => Bound(cell, v)'
         /\ \A v : Named(v) => Named(v)'
         /\ \A cell : /\ Truthful(cell)
                      /\ cell.state = "terminal" /\ cell.result # "landed" => cell.op # put
                      => Truthful(cell)'
         /\ \A op : HasEvent(op) => HasEvent(op)'
         /\ HasEvent(put)'
         /\ \A e \in 0..Len(events) : Sealed(e)' = Sealed(e) /\ Generation(e)' = Generation(e)
         /\ \A i \in 1..Len(events) : Own(i) <=> Own(i)'
         /\ \A i : i = Len(events) + 1 => (Own(i)' <=> put \notin Competitor)
<1>1. /\ UNCHANGED operations
      /\ Len(events) \in Nat /\ Len(events') = Len(events) + 1
      /\ events'[Len(events) + 1] = put
      /\ \A i \in 1..Len(events) : events'[i] = events[i]
  BY AfterEvents DEF Branches
<1>2. /\ \A e \in 0..Len(events) : Generation(e)' = Generation(e)
  BY GenerationStays DEF Branches, AppendEvents
<1>3. \A op : HasEvent(op) => HasEvent(op)'
  BY <1>1 DEF HasEvent
<1>4. \A op : HasEvent(op)' => HasEvent(op) \/ op = put
  BY <1>1 DEF HasEvent
<1>5. HasEvent(put)'
  BY <1>1 DEF HasEvent
<1>6. \A cell, v : Bound(cell, v) => Bound(cell, v)'
  BY <1>1, <1>3 DEF Bound, ReferenceAt
<1>7. DOMAIN events = 1..Len(events) /\ DOMAIN events' = 1..Len(events')
  BY DEF Branches, AppendEvents
<1>8. \A cell : /\ Truthful(cell)
                /\ cell.state = "terminal" /\ cell.result # "landed" => cell.op # put
                => Truthful(cell)'
  BY <1>1, <1>4, <1>7 DEF Truthful
<1>9. \A v : Named(v) => Named(v)'
  BY <1>1 DEF Named
<1>10. /\ \A i \in 1..Len(events) : Own(i) <=> Own(i)'
       /\ \A i : i = Len(events) + 1 => (Own(i)' <=> put \notin Competitor)
  BY <1>1 DEF Own
<1> QED BY <1>2, <1>3, <1>5, <1>6, <1>8, <1>9, <1>10 DEF Sealed

-----------------------------------------------------------------------------
(* What a write must satisfy to keep the guards, at once and late. *)

TipFits(put) ==
  /\ Named(put)
  /\ \A cell \in Cells : Bound(cell, put)
  /\ Opened => put.marker # None
  /\ ~ Held(put) => put.src = Tip.src /\ Complete(put)
  /\ ~ Held(Tip) => put.src = Tip.src

CellFits(put) ==
  /\ Truthful(put) /\ Becomes(CellNow, put)
  /\ \A v \in Tips : Bound(put, v)
  /\ CellNow.state = "prepared" => \A v \in Tips : Guarded(v)

PrivateFits(put) == \A v \in Tips : ~ Held(v) => put = Sealed(v.src)

EventFits(op) == op \notin Competitor => IsOfClaim(op) /\ ~ HasEvent(op)

(* What is in flight satisfies it.                                         *)
LEMMA LateFit ==
  ASSUME Branches, Facts, GuardsOK
  PROVE  /\ \A put \in late.coverage : TipFits(put)
         /\ \A put \in late.operations : CellFits(put)
         /\ \A put \in late.derived : PrivateFits(put)
         /\ \A op \in late.events : EventFits(op)
<1>1. /\ late.coverage \subseteq Tips /\ late.operations \subseteq Cells
      /\ late.derived \subseteq Privates
  BY HeadsFit
<1>2. ASSUME NEW put \in late.coverage PROVE TipFits(put)
  <2>1. put \in Tips
    BY <1>1
  <2>2. Named(put) /\ \A cell \in Cells : Bound(cell, put)
    BY <2>1 DEF GuardsOK, NamesExist, GuardsBound
  <2>3. Opened => put.marker # None
    BY <2>1 DEF GuardsOK, OpenedStays, Guarded
  <2> QED BY <2>1, <2>2, <2>3 DEF TipFits, GuardsOK, TipsOK
<1>3. ASSUME NEW put \in late.operations PROVE CellFits(put)
  <2>1. put \in Cells
    BY <1>1
  <2>2. CellNow.state = "prepared" => \A v \in Tips : Guarded(v)
    BY DEF GuardsOK, OpenedStays, Opened
  <2> QED BY <2>1, <2>2 DEF CellFits, GuardsOK, CellsOK, GuardsBound
<1>4. ASSUME NEW put \in late.derived PROVE PrivateFits(put)
  BY <1>1 DEF PrivateFits, GuardsOK, TipsOK, Complete
<1>5. ASSUME NEW op \in late.events PROVE EventFits(op)
  BY DEF EventFits, Facts, LateHold, Branches, LateFits, KeyFree, HasEvent
<1> QED BY <1>2, <1>3, <1>4, <1>5

(* The coverage branch takes what fits,                                    *)
LEMMA CoverageKeepsGuards ==
  ASSUME Branches, GuardsOK, NEW put \in Coverage, TipFits(put), AppendCoverage(put)
  PROVE  GuardsOK'
<1>1. /\ Tips' = {put} /\ Tip' = put
      /\ Cells' = Cells /\ CellNow' = CellNow
      /\ Privates' = Privates /\ PrivateNow' = PrivateNow
      /\ UNCHANGED <<events, operations, derived>>
      /\ late'.operations = late.operations
      /\ late'.coverage = {} /\ late'.derived = late.derived
      /\ Len(coverage') = Len(coverage) + 1 /\ coverage'[Len(coverage) + 1] = put
      /\ \A i \in 1..Len(coverage) : coverage'[i] = coverage[i]
      /\ Len(coverage) \in Nat
  BY AfterCoverage DEF Branches
<1>2. /\ \A cell, v : Bound(cell, v) => Bound(cell, v)'
      /\ \A v : Named(v) => Named(v)'
      /\ \A cell : Truthful(cell) => Truthful(cell)'
      /\ \A e : Sealed(e)' = Sealed(e) /\ Generation(e)' = Generation(e)
      /\ \A i : Own(i) <=> Own(i)'
  BY <1>1, SameLog
<1>3. NamesExist'
  <2>1. \A i \in 1..Len(coverage') : Named(coverage'[i])
    BY <1>1 DEF TipFits, GuardsOK, NamesExist
  <2> QED BY <1>1, <1>2, <2>1 DEF NamesExist
<1>4. GuardsBound'
  BY <1>1, <1>2 DEF GuardsBound, TipFits
<1>5. CellsOK'
  BY <1>1, <1>2 DEF GuardsOK, CellsOK
<1>6. OpenedStays'
  <2>1. put.marker # None => Guarded(put)
    BY HeadsFit, WhatBoundSays DEF TipFits, Guarded
  <2> QED BY <1>1, <2>1 DEF OpenedStays, Opened, TipFits
<1>7. TipsOK'
  <2>1. ~ Held(put) => Complete(put)'
    BY <1>1, <1>2 DEF TipFits, Complete
  <2> QED BY <1>1, <2>1 DEF TipsOK
<1>8. LateIncomplete(Len(events))'
  BY <1>1, <1>2 DEF GuardsOK, LateIncomplete, Incomplete
<1> QED BY <1>3, <1>4, <1>5, <1>6, <1>7, <1>8 DEF GuardsOK

(* ... or may take it late, when the fence is open only to be acquired.    *)
LEMMA LateCoverageKeepsGuards ==
  ASSUME Branches, GuardsOK, NEW put \in Coverage, TipFits(put),
         ~ Held(Tip) => Acquirable, ~ Reserved(put),
         UNCHANGED branches, late' = [late EXCEPT !.coverage = @ \union {put}]
  PROVE  GuardsOK'
<1>1. /\ UNCHANGED <<events, operations, coverage, derived>>
      /\ late'.operations = late.operations /\ late'.derived = late.derived
      /\ late'.coverage = late.coverage \union {put}
  BY DEF branches, Branches, LateFits, LateWrites
<1>2. /\ Tips' = Tips \union {put} /\ Tip' = Tip
      /\ Cells' = Cells /\ CellNow' = CellNow
      /\ Privates' = Privates /\ PrivateNow' = PrivateNow
  BY <1>1 DEF Tips, Tip, Cells, CellNow, Privates, PrivateNow
<1>3. /\ \A cell, v : Bound(cell, v) => Bound(cell, v)'
      /\ \A v : Named(v) => Named(v)'
      /\ \A cell : Truthful(cell) => Truthful(cell)'
      /\ \A e : Sealed(e)' = Sealed(e) /\ Generation(e)' = Generation(e)
      /\ \A i : Own(i) <=> Own(i)'
  BY <1>1, SameLog
<1>4. NamesExist'
  BY <1>1, <1>3 DEF NamesExist, GuardsOK, TipFits
<1>5. GuardsBound'
  BY <1>2, <1>3 DEF GuardsBound, TipFits, GuardsOK
<1>6. CellsOK'
  BY <1>1, <1>2, <1>3 DEF GuardsOK, CellsOK
<1>7. OpenedStays'
  <2>1. put.marker # None => Guarded(put)
    BY HeadsFit, WhatBoundSays DEF TipFits, Guarded
  <2> QED BY <1>1, <1>2, <2>1 DEF OpenedStays, Opened, TipFits, GuardsOK
<1>8. TipsOK'
  <2>1. \A v : Complete(v) => Complete(v)'
    BY <1>1, <1>2, <1>3 DEF Complete
  <2>2. Acquirable => Acquirable'
    BY <1>2 DEF Acquirable
  <2> QED BY <1>2, <2>1, <2>2 DEF TipsOK, GuardsOK, TipFits
<1>9. LateIncomplete(Len(events))'
  BY <1>1, <1>2, <1>3 DEF GuardsOK, LateIncomplete, Incomplete
<1> QED BY <1>4, <1>5, <1>6, <1>7, <1>8, <1>9 DEF GuardsOK

(* The operation branch takes what fits,                                   *)
LEMMA OperationsKeepGuards ==
  ASSUME Branches, GuardsOK, NEW put \in OwnedCell, CellFits(put), AppendOperations(put)
  PROVE  GuardsOK'
<1>1. /\ Tips' = Tips /\ Tip' = Tip /\ Tip \in Tips
      /\ Cells' = {put} /\ CellNow' = put /\ CellNow \in Cells
      /\ Privates' = Privates /\ PrivateNow' = PrivateNow
      /\ UNCHANGED <<events, coverage, derived>>
      /\ late'.operations = {}
      /\ late'.coverage = late.coverage /\ late'.derived = late.derived
  BY AfterOperations, HeadsFit
<1>2. /\ \A cell, v : Named(v) /\ Bound(cell, v) => Bound(cell, v)'
      /\ \A v : Named(v) => Named(v)'
      /\ \A cell : Truthful(cell) => Truthful(cell)'
      /\ \A e : Sealed(e)' = Sealed(e) /\ Generation(e)' = Generation(e)
      /\ \A i : Own(i) <=> Own(i)'
  BY LongerOperations
<1>3. \A v \in Tips : Named(v)
  <2>1. Len(coverage) \in 1..Len(coverage)
    BY DEF Branches
  <2> QED BY <2>1 DEF Tips, Tip, GuardsOK, NamesExist
<1>4. NamesExist'
  BY <1>1, <1>2 DEF NamesExist, GuardsOK
<1>5. GuardsBound'
  BY <1>1, <1>2, <1>3 DEF GuardsBound, CellFits
<1>6. CellsOK'
  BY <1>1, <1>2 DEF CellsOK, CellFits
<1>7. OpenedStays'
  <2>1. put.state = "prepared" => CellNow.state = "idle"
    BY DEF CellFits, Becomes
  <2>2. CellNow.state = "idle" => Tip.marker = None
    BY <1>1, WhatBoundSays DEF GuardsOK, GuardsBound
  <2> QED BY <1>1, <2>1, <2>2 DEF OpenedStays, Opened
<1>8. TipsOK'
  <2>1. \A v : Complete(v) => Complete(v)'
    BY <1>1, <1>2 DEF Complete
  <2>2. ~ Held(Tip) => late.coverage = {}
    BY <1>1 DEF GuardsOK, TipsOK, Acquirable, CellFits, Guarded
  <2> QED BY <1>1, <2>1, <2>2 DEF TipsOK, GuardsOK
<1>9. LateIncomplete(Len(events))'
  BY <1>1, <1>2 DEF GuardsOK, LateIncomplete, Incomplete
<1> QED BY <1>4, <1>5, <1>6, <1>7, <1>8, <1>9 DEF GuardsOK

(* ... or may take it late.                                                *)
LEMMA LateOperationKeepsGuards ==
  ASSUME Branches, GuardsOK, NEW put \in OwnedCell, CellFits(put),
         UNCHANGED branches, late' = [late EXCEPT !.operations = @ \union {put}]
  PROVE  GuardsOK'
<1>1. /\ UNCHANGED <<events, operations, coverage, derived>>
      /\ late'.coverage = late.coverage /\ late'.derived = late.derived
      /\ late'.operations = late.operations \union {put}
  BY DEF branches, Branches, LateFits, LateWrites
<1>2. /\ Tips' = Tips /\ Tip' = Tip
      /\ Cells' = Cells \union {put} /\ CellNow' = CellNow
      /\ Privates' = Privates /\ PrivateNow' = PrivateNow
  BY <1>1 DEF Tips, Tip, Cells, CellNow, Privates, PrivateNow
<1>3. /\ \A cell, v : Bound(cell, v) => Bound(cell, v)'
      /\ \A v : Named(v) => Named(v)'
      /\ \A cell : Truthful(cell) => Truthful(cell)'
      /\ \A e : Sealed(e)' = Sealed(e) /\ Generation(e)' = Generation(e)
      /\ \A i : Own(i) <=> Own(i)'
  BY <1>1, SameLog
<1>4. NamesExist'
  BY <1>1, <1>3 DEF NamesExist, GuardsOK
<1>5. GuardsBound'
  BY <1>2, <1>3 DEF GuardsBound, CellFits, GuardsOK
<1>6. CellsOK'
  BY <1>1, <1>2, <1>3 DEF GuardsOK, CellsOK, CellFits
<1>7. OpenedStays'
  BY <1>1, <1>2 DEF OpenedStays, Opened, CellFits
<1>8. TipsOK'
  <2>1. \A v : Complete(v) => Complete(v)'
    BY <1>1, <1>2, <1>3 DEF Complete
  <2>2. Acquirable => Acquirable'
    BY <1>2 DEF Acquirable
  <2> QED BY <1>1, <1>2, <2>1, <2>2 DEF TipsOK, GuardsOK
<1>9. LateIncomplete(Len(events))'
  BY <1>1, <1>2, <1>3 DEF GuardsOK, LateIncomplete, Incomplete
<1> QED BY <1>4, <1>5, <1>6, <1>7, <1>8, <1>9 DEF GuardsOK

(* The private projection takes what fits,                                 *)
LEMMA DerivedKeepsGuards ==
  ASSUME Branches, GuardsOK, NEW put \in Derived, PrivateFits(put), AppendDerived(put)
  PROVE  GuardsOK'
<1>1. /\ Tips' = Tips /\ Tip' = Tip
      /\ Cells' = Cells /\ CellNow' = CellNow
      /\ Privates' = {put} /\ PrivateNow' = put
      /\ UNCHANGED <<events, operations, coverage>>
      /\ late'.operations = late.operations
      /\ late'.coverage = late.coverage /\ late'.derived = {}
  BY AfterDerived
<1>2. /\ \A cell, v : Bound(cell, v) => Bound(cell, v)'
      /\ \A v : Named(v) => Named(v)'
      /\ \A cell : Truthful(cell) => Truthful(cell)'
      /\ \A e : Sealed(e)' = Sealed(e) /\ Generation(e)' = Generation(e)
      /\ \A i : Own(i) <=> Own(i)'
  BY <1>1, SameLog
<1>3. NamesExist' /\ GuardsBound' /\ CellsOK'
  BY <1>1, <1>2 DEF GuardsOK, NamesExist, GuardsBound, CellsOK
<1>4. OpenedStays'
  BY <1>1 DEF GuardsOK, OpenedStays, Opened
<1>5. TipsOK'
  <2>1. \A v \in Tips : ~ Held(v) => Complete(v)'
    BY <1>1, <1>2 DEF GuardsOK, TipsOK, Complete, PrivateFits
  <2>2. Acquirable => Acquirable'
    BY <1>1 DEF Acquirable
  <2> QED BY <1>1, <2>1, <2>2 DEF TipsOK, GuardsOK
<1>6. LateIncomplete(Len(events))'
  BY <1>1 DEF LateIncomplete
<1> QED BY <1>3, <1>4, <1>5, <1>6 DEF GuardsOK

(* ... or may take it late, when it was found incomplete.                  *)
LEMMA LateDerivedKeepsGuards ==
  ASSUME Branches, GuardsOK, NEW put \in Derived, PrivateFits(put),
         Incomplete(Len(events)),
         UNCHANGED branches, late' = [late EXCEPT !.derived = @ \union {put}]
  PROVE  GuardsOK'
<1>1. /\ UNCHANGED <<events, operations, coverage, derived>>
      /\ late'.coverage = late.coverage /\ late'.operations = late.operations
      /\ late'.derived = late.derived \union {put}
  BY DEF branches, Branches, LateFits, LateWrites
<1>2. /\ Tips' = Tips /\ Tip' = Tip
      /\ Cells' = Cells /\ CellNow' = CellNow
      /\ Privates' = Privates \union {put} /\ PrivateNow' = PrivateNow
  BY <1>1 DEF Tips, Tip, Cells, CellNow, Privates, PrivateNow
<1>3. /\ \A cell, v : Bound(cell, v) => Bound(cell, v)'
      /\ \A v : Named(v) => Named(v)'
      /\ \A cell : Truthful(cell) => Truthful(cell)'
      /\ \A e : Sealed(e)' = Sealed(e) /\ Generation(e)' = Generation(e)
      /\ \A i : Own(i) <=> Own(i)'
  BY <1>1, SameLog
<1>4. NamesExist' /\ GuardsBound' /\ CellsOK'
  BY <1>1, <1>2, <1>3 DEF GuardsOK, NamesExist, GuardsBound, CellsOK
<1>5. OpenedStays'
  BY <1>1, <1>2 DEF GuardsOK, OpenedStays, Opened
<1>6. TipsOK'
  <2>1. \A v \in Tips : ~ Held(v) => Complete(v)'
    BY <1>1, <1>2, <1>3 DEF GuardsOK, TipsOK, Complete, PrivateFits
  <2>2. Acquirable => Acquirable'
    BY <1>2 DEF Acquirable
  <2> QED BY <1>1, <1>2, <2>1, <2>2 DEF TipsOK, GuardsOK
<1>7. LateIncomplete(Len(events))'
  BY <1>1, <1>2, <1>3 DEF LateIncomplete, Incomplete
<1> QED BY <1>4, <1>5, <1>6, <1>7 DEF GuardsOK

(* While an event of the claim is not canonical, every guard names it.     *)
LEMMA ClaimIsGuarded ==
  ASSUME Branches, GuardsOK, NEW op \in Operation, IsOfClaim(op), ~ HasEvent(op)
  PROVE  /\ \A v \in Tips : Held(v) /\ v.marker = op
         /\ \A cell \in Cells : cell.state = "appending" /\ cell.op = op
<1>1. CellNow \in Cells /\ CellNow.state = "appending" /\ CellNow.op = op
  BY HeadsFit DEF IsOfClaim
<1>2. ASSUME NEW v \in Tips PROVE Held(v) /\ v.marker = op
  <2>1. Bound(CellNow, v)
    BY <1>1 DEF GuardsOK, GuardsBound
  <2> QED BY <1>1, <2>1, WhatBoundSays DEF Bound
<1>3. ASSUME NEW cell \in late.operations PROVE cell.state = "appending" /\ cell.op = op
  <2>1. Becomes(CellNow, cell) /\ Truthful(cell)
    BY DEF GuardsOK, CellsOK, Cells
  <2>2. \A i \in DOMAIN events : events[i] # op
    <3>1. DOMAIN events = 1..Len(events)
      BY DEF Branches
    <3> QED BY <3>1 DEF HasEvent
  <2> QED BY <1>1, <2>1, <2>2 DEF Becomes, Truthful
<1> QED BY <1>1, <1>2, <1>3 DEF Cells

(* What is incomplete stays so while canonical history grows.              *)
LEMMA IncompleteStays ==
  ASSUME Branches, NEW put \in Operation, AppendEvents(put)
  PROVE  /\ \A e \in 0..Len(events) : LateIncomplete(e) => LateIncomplete(e)'
         /\ LateIncomplete(Len(events)) => LateIncomplete(Len(events))'
<1>1. PICK m \in Nat : m = Len(events)
  BY DEF Branches
<1>2. /\ PrivateNow' = PrivateNow /\ late'.derived = late.derived
      /\ \A e \in 0..m : Generation(e)' = Generation(e)
      /\ Len(events') = m + 1
  BY <1>1, AfterEvents, LongerEvents
<1>3. \A e \in 0..m : LateIncomplete(e) => LateIncomplete(e)'
  BY <1>2 DEF LateIncomplete, Incomplete
<1>4. PICK gen \in Nat : gen = PrivateNow.gen
  BY CurrentCommits
<1>5. PICK old \in Nat : old = Generation(m)
  BY <1>1, GenerationIsNatural
<1>6. PICK new \in Nat : new = Generation(m + 1)' /\ old <= new
  <2>1. m + 1 \in Nat /\ m <= m + 1
    OBVIOUS
  <2>2. Generation(m + 1)' \in Nat /\ Generation(m)' <= Generation(m + 1)'
    BY <2>1, GenerationIsNaturalNext, GenerationAdvancesNext
  <2> QED BY <1>1, <1>2, <1>5, <2>2
<1>7. gen < old => gen < new
  BY <1>6
<1>8. LateIncomplete(m) => ~ PrivateNow.sealed \/ gen < old \/ late.derived = {}
  BY <1>4, <1>5 DEF LateIncomplete, Incomplete
<1>9. (late'.derived # {} => ~ PrivateNow'.sealed \/ PrivateNow'.gen < new)
      => LateIncomplete(Len(events))'
  BY <1>2, <1>6 DEF LateIncomplete, Incomplete
<1> QED BY <1>1, <1>2, <1>3, <1>4, <1>7, <1>8, <1>9

(* The canonical branch takes what fits.                                   *)
LEMMA EventsKeepGuards ==
  ASSUME Branches, Facts, GuardsOK, NEW put \in Operation, EventFits(put), AppendEvents(put)
  PROVE  GuardsOK'
<1>1. /\ Tips' = Tips /\ Tip' = Tip
      /\ Cells' = Cells /\ CellNow' = CellNow /\ CellNow \in Cells
      /\ Privates' = Privates /\ PrivateNow' = PrivateNow
      /\ UNCHANGED <<operations, coverage, derived>>
      /\ late'.operations = late.operations
      /\ late'.coverage = late.coverage /\ late'.derived = late.derived
      /\ Len(events') = Len(events) + 1 /\ Len(events) \in Nat
  BY AfterEvents, HeadsFit
<1>2. /\ \A cell, v : Bound(cell, v) => Bound(cell, v)'
      /\ \A v : Named(v) => Named(v)'
      /\ \A e \in 0..Len(events) : Sealed(e)' = Sealed(e)
      /\ \A i \in 1..Len(events) : Own(i) <=> Own(i)'
      /\ \A i : i = Len(events) + 1 => (Own(i)' <=> put \notin Competitor)
  BY LongerEvents
<1>3. NamesExist' /\ GuardsBound'
  BY <1>1, <1>2 DEF GuardsOK, NamesExist, GuardsBound
<1>4. ASSUME NEW cell \in Cells PROVE Truthful(cell)'
  <2>1. Truthful(cell)
    BY DEF GuardsOK, CellsOK
  <2>2. cell.state = "terminal" => cell.op # put
    <3>1. CASE put \in Competitor
      BY <2>1, <3>1 DEF Truthful
    <3>2. CASE put \notin Competitor
      BY <3>2, ClaimIsGuarded DEF EventFits
    <3> QED BY <3>1, <3>2
  <2> QED BY <2>1, <2>2, LongerEvents
<1>5. CellsOK'
  BY <1>1, <1>4 DEF GuardsOK, CellsOK
<1>6. OpenedStays'
  BY <1>1 DEF GuardsOK, OpenedStays, Opened
<1>7. TipsOK'
  <2>1. ASSUME NEW v \in Tips, ~ Held(v) PROVE Complete(v)'
    <3>1. v.src \in 0..Len(events) /\ Complete(v)
      BY <2>1, SourcesFit DEF GuardsOK, TipsOK
    <3>2. put \in Competitor
      BY <2>1, ClaimIsGuarded DEF EventFits
    <3>3. \A i \in 1..Len(events') : i \in 1..Len(events) \/ i = Len(events) + 1
      BY <1>1
    <3>4. \A i \in 1..Len(events) : Own(i)' => i <= v.src
      BY <1>2, <3>1 DEF Complete
    <3>5. \A i \in 1..Len(events') : Own(i)' => i <= v.src
      BY <1>2, <3>2, <3>3, <3>4
    <3>6. \A p \in Privates : p = Sealed(v.src)'
      BY <1>2, <3>1 DEF Complete
    <3> QED BY <1>1, <3>5, <3>6 DEF Complete
  <2>2. Acquirable => Acquirable'
    BY <1>1 DEF Acquirable
  <2> QED BY <1>1, <2>1, <2>2 DEF TipsOK, GuardsOK
<1>8. LateIncomplete(Len(events))'
  BY IncompleteStays DEF GuardsOK
<1> QED BY <1>3, <1>5, <1>6, <1>7, <1>8 DEF GuardsOK

(* Nothing said of the guards depends on events in flight.                 *)
LEMMA LateEventKeepsGuards ==
  ASSUME Branches, GuardsOK, UNCHANGED branches,
         NEW op, late' = [late EXCEPT !.events = @ \union {op}] \/ late' = late
  PROVE  GuardsOK'
<1>1. /\ UNCHANGED <<events, operations, coverage, derived>>
      /\ late'.coverage = late.coverage /\ late'.operations = late.operations
      /\ late'.derived = late.derived
  BY DEF branches, Branches, LateFits, LateWrites
<1>2. /\ Tips' = Tips /\ Tip' = Tip
      /\ Cells' = Cells /\ CellNow' = CellNow
      /\ Privates' = Privates /\ PrivateNow' = PrivateNow
  BY <1>1 DEF Tips, Tip, Cells, CellNow, Privates, PrivateNow
<1>3. /\ \A cell, v : Bound(cell, v) => Bound(cell, v)'
      /\ \A v : Named(v) => Named(v)'
      /\ \A cell : Truthful(cell) => Truthful(cell)'
      /\ \A e : Sealed(e)' = Sealed(e) /\ Generation(e)' = Generation(e)
      /\ \A i : Own(i) <=> Own(i)'
  BY <1>1, SameLog
<1>4. NamesExist' /\ GuardsBound' /\ CellsOK'
  BY <1>1, <1>2, <1>3 DEF GuardsOK, NamesExist, GuardsBound, CellsOK
<1>5. OpenedStays'
  BY <1>1, <1>2 DEF GuardsOK, OpenedStays, Opened
<1>6. TipsOK'
  <2>1. \A v : Complete(v) => Complete(v)'
    BY <1>1, <1>2, <1>3 DEF Complete
  <2>2. Acquirable => Acquirable'
    BY <1>2 DEF Acquirable
  <2> QED BY <1>1, <1>2, <2>1, <2>2 DEF TipsOK, GuardsOK
<1>7. LateIncomplete(Len(events))'
  BY <1>1, <1>2, <1>3 DEF GuardsOK, LateIncomplete, Incomplete
<1> QED BY <1>4, <1>5, <1>6, <1>7 DEF GuardsOK

-----------------------------------------------------------------------------
(* What the process keeps knowing through a step that is not its own. *)

(* The heads of its snapshot stay, and so does each kind of knowledge.     *)
LEMMA KnowledgeStaysIn ==
  ASSUME NEW w,
         derived'[w.d] = derived[w.d], CellOf(w)' = CellOf(w), coverage'[w.c] = coverage[w.c],
         EventsKnown(w.e) => EventsKnown(w.e)',
         \A p : PrivateKnown(w.e, p) => PrivateKnown(w.e, p)',
         \A cell : CellKnown(cell) => CellKnown(cell)',
         \A cell, u : GuardsKnown(w.o, cell, u) => GuardsKnown(w.o, cell, u)',
         Known(w)
  PROVE  Known(w)'
<1>1. PICK p, cell, u : p = derived[w.d] /\ cell = CellOf(w) /\ u = coverage[w.c]
  OBVIOUS
<1>2. HasE(w)' => EventsKnown(w.e)'
  BY DEF Known, HasE, Knowing
<1>3. HasD(w)' => PrivateKnown(w.e, p)'
  BY <1>1 DEF Known, HasD, Knowing
<1>4. HasO(w)' => CellKnown(cell)'
  BY <1>1 DEF Known, HasO, Knowing
<1>5. HasC(w)' => GuardsKnown(w.o, cell, u)'
  BY <1>1 DEF Known, HasC, Knowing
<1>6. PrivateKnown(w.e, p)' => PrivateKnown(w.e, derived[w.d])'
  BY <1>1 DEF PrivateKnown
<1>7. CellKnown(cell)' => CellKnown(CellOf(w))'
  BY <1>1 DEF CellKnown
<1>8. GuardsKnown(w.o, cell, u)' => GuardsKnown(w.o, CellOf(w), coverage[w.c])'
  BY <1>1 DEF GuardsKnown
<1> QED BY <1>2, <1>3, <1>4, <1>5, <1>6, <1>7, <1>8 DEF Known

(* ... and what it is informed of.                                         *)
LEMMA InformationStaysIn ==
  ASSUME NEW w,
         derived'[w.d] = derived[w.d], coverage'[w.c] = coverage[w.c],
         Len(operations) \in Nat, Len(operations') \in Nat, Len(operations) <= Len(operations'),
         Sealed(w.e)' = Sealed(w.e), SettledHolds => SettledHolds',
         (\A v \in Tips : Held(v)) => (\A v \in Tips : Held(v))',
         (\A v \in Tips : ~ Held(v)) => (\A v \in Tips : ~ Held(v))',
         Informed(w)
  PROVE  Informed(w)'
<1>1. w.task = "begin" => w.ref \in 1..Len(operations')
  BY DEF Informed
<1>2. Held(coverage[w.c])' <=> Held(coverage[w.c])
  BY DEF Held
<1> QED BY <1>1, <1>2 DEF Informed, PlacesFit, AtWork, HasReleased, Settled

(* Another writer of the guards leaves them as they were, or delivers      *)
(* guards that were in flight.                                             *)
LEMMA CoverageKeepsKnowledge ==
  ASSUME Branches, GuardsOK, NEW put \in Coverage, AppendCoverage(put),
         NEW u \in Tips, put.src = u.src, put.marker = u.marker, Held(put) <=> Held(u),
         NEW w, FitsNow(w), KnowsAll(w)
  PROVE  KnowsAll(w)'
<1>1. /\ Tips' = {put}
      /\ Cells' = Cells /\ CellNow' = CellNow
      /\ Privates' = Privates /\ PrivateNow' = PrivateNow
      /\ UNCHANGED <<events, operations, derived>>
      /\ late'.operations = late.operations /\ late'.derived = late.derived
      /\ \A i \in 1..Len(coverage) : coverage'[i] = coverage[i]
      /\ Len(operations) \in Nat
  BY AfterCoverage DEF Branches
<1>2. /\ \A e : Sealed(e)' = Sealed(e) /\ Generation(e)' = Generation(e)
      /\ \A i : Own(i) <=> Own(i)'
      /\ \A op : HasEvent(op) <=> HasEvent(op)'
  BY <1>1, SameLog
<1>3. coverage'[w.c] = coverage[w.c] /\ derived'[w.d] = derived[w.d] /\ CellOf(w)' = CellOf(w)
  BY <1>1 DEF FitsNow, Fits, CellOf
<1>4. EventsKnown(w.e) => EventsKnown(w.e)'
  BY <1>1, <1>2 DEF EventsKnown, LateIncomplete, Incomplete
<1>5. \A p : PrivateKnown(w.e, p) => PrivateKnown(w.e, p)'
  BY <1>1, <1>2 DEF PrivateKnown
<1>6. \A cell : CellKnown(cell) => CellKnown(cell)'
  BY <1>1 DEF CellKnown
<1>7. \A cell, v : GuardsKnown(w.o, cell, v) => GuardsKnown(w.o, cell, v)'
  BY <1>1 DEF GuardsKnown, Guarded
<1>8. SettledHolds => SettledHolds'
  BY <1>1, <1>2 DEF SettledHolds
<1>9. /\ (\A v \in Tips : Held(v)) => (\A v \in Tips : Held(v))'
      /\ (\A v \in Tips : ~ Held(v)) => (\A v \in Tips : ~ Held(v))'
  BY <1>1
<1>10. Known(w)'
  BY <1>3, <1>4, <1>5, <1>6, <1>7, KnowledgeStaysIn DEF KnowsAll
<1>11. Informed(w)'
  BY <1>1, <1>2, <1>3, <1>8, <1>9, InformationStaysIn DEF KnowsAll
<1> QED BY <1>10, <1>11 DEF KnowsAll

(* A cell that was in flight is delivered.                                 *)
LEMMA OperationsKeepKnowledge ==
  ASSUME Branches, GuardsOK, NEW put \in late.operations, AppendOperations(put),
         NEW w, FitsNow(w), KnowsAll(w)
  PROVE  KnowsAll(w)'
<1>0. put \in OwnedCell /\ put \in Cells /\ Becomes(CellNow, put)
  BY HeadsFit DEF GuardsOK, CellsOK
<1>1. /\ Tips' = Tips
      /\ Cells' = {put} /\ CellNow' = put
      /\ Privates' = Privates /\ PrivateNow' = PrivateNow
      /\ UNCHANGED <<events, coverage, derived>>
      /\ late'.operations = {} /\ late'.derived = late.derived
      /\ Len(operations') = Len(operations) + 1 /\ Len(operations) \in Nat
      /\ \A i \in 1..Len(operations) : operations'[i] = operations[i]
  BY <1>0, AfterOperations DEF Branches
<1>2. /\ \A e : Sealed(e)' = Sealed(e) /\ Generation(e)' = Generation(e)
      /\ \A i : Own(i) <=> Own(i)'
      /\ \A op : HasEvent(op) <=> HasEvent(op)'
  BY <1>0, LongerOperations
<1>3. coverage'[w.c] = coverage[w.c] /\ derived'[w.d] = derived[w.d] /\ CellOf(w)' = CellOf(w)
  BY <1>1 DEF FitsNow, Fits, CellOf
<1>4. EventsKnown(w.e) => EventsKnown(w.e)'
  BY <1>0, <1>1, <1>2 DEF EventsKnown, LateIncomplete, Incomplete, Becomes
<1>5. \A p : PrivateKnown(w.e, p) => PrivateKnown(w.e, p)'
  BY <1>1, <1>2 DEF PrivateKnown
<1>6. \A cell : CellKnown(cell) => CellKnown(cell)'
  BY <1>0, <1>1 DEF CellKnown
<1>7. \A cell, v : GuardsKnown(w.o, cell, v) => GuardsKnown(w.o, cell, v)'
  <2>1. w.o # Len(operations')
    BY <1>1 DEF FitsNow, Fits
  <2> QED BY <1>0, <1>1, <2>1 DEF GuardsKnown
<1>8. SettledHolds => SettledHolds'
  BY <1>0, <1>1, <1>2 DEF SettledHolds
<1>9. /\ (\A v \in Tips : Held(v)) => (\A v \in Tips : Held(v))'
      /\ (\A v \in Tips : ~ Held(v)) => (\A v \in Tips : ~ Held(v))'
  BY <1>1
<1>10. Known(w)'
  BY <1>3, <1>4, <1>5, <1>6, <1>7, KnowledgeStaysIn DEF KnowsAll
<1>11. Informed(w)'
  BY <1>1, <1>2, <1>3, <1>8, <1>9, InformationStaysIn DEF KnowsAll
<1> QED BY <1>10, <1>11 DEF KnowsAll

(* A private projection that was in flight is delivered.                   *)
LEMMA DerivedKeepsKnowledge ==
  ASSUME Branches, GuardsOK, NEW put \in late.derived, AppendDerived(put),
         NEW w, FitsNow(w), KnowsAll(w)
  PROVE  KnowsAll(w)'
<1>0. put \in Derived /\ put \in Privates
  BY HeadsFit
<1>1. /\ Tips' = Tips
      /\ Cells' = Cells /\ CellNow' = CellNow
      /\ Privates' = {put}
      /\ UNCHANGED <<events, operations, coverage>>
      /\ late'.operations = late.operations /\ late'.derived = {}
      /\ \A i \in 1..Len(derived) : derived'[i] = derived[i]
      /\ Len(operations) \in Nat
  BY <1>0, AfterDerived DEF Branches
<1>2. /\ \A e : Sealed(e)' = Sealed(e) /\ Generation(e)' = Generation(e)
      /\ \A i : Own(i) <=> Own(i)'
      /\ \A op : HasEvent(op) <=> HasEvent(op)'
  BY <1>1, SameLog
<1>3. coverage'[w.c] = coverage[w.c] /\ derived'[w.d] = derived[w.d] /\ CellOf(w)' = CellOf(w)
  BY <1>1 DEF FitsNow, Fits, CellOf
<1>4. EventsKnown(w.e) => EventsKnown(w.e)'
  BY <1>1, <1>2 DEF EventsKnown, LateIncomplete
<1>5. \A p : PrivateKnown(w.e, p) => PrivateKnown(w.e, p)'
  BY <1>0, <1>1, <1>2 DEF PrivateKnown
<1>6. \A cell : CellKnown(cell) => CellKnown(cell)'
  BY <1>1 DEF CellKnown
<1>7. \A cell, v : GuardsKnown(w.o, cell, v) => GuardsKnown(w.o, cell, v)'
  BY <1>1 DEF GuardsKnown
<1>8. SettledHolds => SettledHolds'
  BY <1>1, <1>2 DEF SettledHolds
<1>9. /\ (\A v \in Tips : Held(v)) => (\A v \in Tips : Held(v))'
      /\ (\A v \in Tips : ~ Held(v)) => (\A v \in Tips : ~ Held(v))'
  BY <1>1
<1>10. Known(w)'
  BY <1>3, <1>4, <1>5, <1>6, <1>7, KnowledgeStaysIn DEF KnowsAll
<1>11. Informed(w)'
  BY <1>1, <1>2, <1>3, <1>8, <1>9, InformationStaysIn DEF KnowsAll
<1> QED BY <1>10, <1>11 DEF KnowsAll

(* An event lands that was in flight, or is a competitor's.                *)
LEMMA EventsKeepKnowledge ==
  ASSUME Branches, Facts, GuardsOK, NEW put \in Operation, EventFits(put), AppendEvents(put),
         NEW w, FitsNow(w), KnowsAll(w)
  PROVE  KnowsAll(w)'
<1>1. /\ Tips' = Tips
      /\ Cells' = Cells /\ CellNow' = CellNow
      /\ Privates' = Privates
      /\ UNCHANGED <<operations, coverage, derived>>
      /\ late'.operations = late.operations /\ late'.derived = late.derived
      /\ Len(events') = Len(events) + 1 /\ Len(events) \in Nat
      /\ events'[Len(events) + 1] = put
      /\ \A i \in 1..Len(events) : events'[i] = events[i]
      /\ Len(operations) \in Nat
  BY AfterEvents DEF Branches
<1>2. /\ \A e \in 0..Len(events) : Sealed(e)' = Sealed(e)
      /\ \A i \in 1..Len(events) : Own(i) <=> Own(i)'
      /\ \A i : i = Len(events) + 1 => (Own(i)' <=> put \notin Competitor)
      /\ \A op : HasEvent(op) => HasEvent(op)'
  BY LongerEvents
<1>3. coverage'[w.c] = coverage[w.c] /\ derived'[w.d] = derived[w.d] /\ CellOf(w)' = CellOf(w)
  BY <1>1 DEF CellOf
<1>4. w.e \in 0..Len(events)
  BY DEF FitsNow, Fits
<1>5. EventsKnown(w.e) => EventsKnown(w.e)'
  <2> SUFFICES ASSUME EventsKnown(w.e) PROVE EventsKnown(w.e)'
    OBVIOUS
  <2>1. LateIncomplete(w.e)'
    BY <1>4, IncompleteStays DEF EventsKnown
  <2>2. ASSUME NEW i \in (w.e + 1)..Len(events'), Own(i)'
        PROVE  /\ CellNow.state = "appending" /\ CellNow.op = events'[i]
               /\ \A c \in late.operations : c.state = "appending"
    <3>1. CASE i \in 1..Len(events)
      <4>1. Own(i) /\ i \in (w.e + 1)..Len(events) /\ events'[i] = events[i]
        BY <1>1, <1>2, <1>4, <2>2, <3>1
      <4> QED BY <4>1 DEF EventsKnown
    <3>2. CASE i = Len(events) + 1
      <4>1. put \notin Competitor /\ events'[i] = put
        BY <1>1, <1>2, <2>2, <3>2
      <4>2. IsOfClaim(put) /\ ~ HasEvent(put)
        BY <4>1 DEF EventFits
      <4> QED BY <4>1, <4>2, ClaimIsGuarded, HeadsFit
    <3> QED BY <1>1, <1>4, <2>2, <3>1, <3>2
  <2> QED BY <1>1, <2>1, <2>2 DEF EventsKnown
<1>6. \A p : PrivateKnown(w.e, p) => PrivateKnown(w.e, p)'
  BY <1>1, <1>2, <1>4, SourcesFit DEF PrivateKnown
<1>7. \A cell : CellKnown(cell) => CellKnown(cell)'
  BY <1>1 DEF CellKnown
<1>8. \A cell, v : GuardsKnown(w.o, cell, v) => GuardsKnown(w.o, cell, v)'
  BY <1>1 DEF GuardsKnown
<1>9. SettledHolds => SettledHolds'
  BY <1>1, <1>2 DEF SettledHolds
<1>10. /\ (\A v \in Tips : Held(v)) => (\A v \in Tips : Held(v))'
       /\ (\A v \in Tips : ~ Held(v)) => (\A v \in Tips : ~ Held(v))'
  BY <1>1
<1>11. Known(w)'
  BY <1>3, <1>5, <1>6, <1>7, <1>8, KnowledgeStaysIn DEF KnowsAll
<1>12. Informed(w)'
  BY <1>1, <1>2, <1>3, <1>4, <1>9, <1>10, InformationStaysIn DEF KnowsAll
<1> QED BY <1>11, <1>12 DEF KnowsAll

(* Nothing is written.                                                     *)
LEMMA NothingKeepsKnowledge ==
  ASSUME Branches, UNCHANGED <<branches, late>>, NEW w, KnowsAll(w)
  PROVE  KnowsAll(w)'
<1>1. UNCHANGED <<events, operations, coverage, derived, late>> /\ Len(operations) \in Nat
  BY DEF branches, Branches
<1>2. /\ Tips' = Tips /\ Cells' = Cells /\ CellNow' = CellNow
      /\ Privates' = Privates /\ PrivateNow' = PrivateNow
  BY <1>1 DEF Tips, Tip, Cells, CellNow, Privates, PrivateNow
<1>3. /\ \A e : Sealed(e)' = Sealed(e) /\ Generation(e)' = Generation(e)
      /\ \A i : Own(i) <=> Own(i)'
      /\ \A op : HasEvent(op) <=> HasEvent(op)'
  BY <1>1, SameLog
<1>4. EventsKnown(w.e) => EventsKnown(w.e)'
  BY <1>1, <1>2, <1>3 DEF EventsKnown, LateIncomplete, Incomplete
<1>5. \A p : PrivateKnown(w.e, p) => PrivateKnown(w.e, p)'
  BY <1>1, <1>2, <1>3 DEF PrivateKnown
<1>6. \A cell : CellKnown(cell) => CellKnown(cell)'
  BY <1>2 DEF CellKnown
<1>7. \A cell, v : GuardsKnown(w.o, cell, v) => GuardsKnown(w.o, cell, v)'
  BY <1>1, <1>2 DEF GuardsKnown
<1>8. SettledHolds => SettledHolds'
  BY <1>2, <1>3 DEF SettledHolds
<1>9. /\ (\A v \in Tips : Held(v)) => (\A v \in Tips : Held(v))'
      /\ (\A v \in Tips : ~ Held(v)) => (\A v \in Tips : ~ Held(v))'
  BY <1>2
<1>10. CellOf(w)' = CellOf(w)
  BY <1>1 DEF CellOf
<1>11. Known(w)'
  BY <1>1, <1>4, <1>5, <1>6, <1>7, <1>10, KnowledgeStaysIn DEF KnowsAll
<1>12. Informed(w)'
  BY <1>1, <1>3, <1>8, <1>9, InformationStaysIn DEF KnowsAll
<1> QED BY <1>11, <1>12 DEF KnowsAll

-----------------------------------------------------------------------------
(* Steps of the only process. *)

OneHolds == GuardsOK /\ OneKnows

(* At most one branch moves, by what fits it; success checks wait for the  *)
(* fence to be open, and engines for it not to be reserved.                *)
EventMoves == \E op \in Operation : EventFits(op) /\ AppendEvents(op)

CellMoves == \E put \in OwnedCell : CellFits(put) /\ AppendOperations(put)

GateMoves(put) ==
  /\ Reserved(Tip) => put.fence.state = "idle"
  /\ Reserved(put) => Tip.fence.state = "idle"

TipMoves == \E put \in Coverage : TipFits(put) /\ GateMoves(put) /\ AppendCoverage(put)

PrivateMoves == \E put \in Derived : AppendDerived(put)

BranchesMove ==
  UNCHANGED branches \/ EventMoves \/ CellMoves \/ TipMoves \/ PrivateMoves

OneStep == OneHolds' /\ BranchesMove

(* The process moves to a state in which it knows enough.                  *)
LEMMA OnlyProcessMoves ==
  ASSUME OneEngine, PInv, NEW x \in Process, NEW w, Step(x, w), KnowsAll(w)'
  PROVE  OneKnows'
<1> SUFFICES ASSUME NEW y \in Process PROVE KnowsAll(worker[y])'
  BY DEF OneKnows
<1>1. worker'[y] = w
  BY DEF OneEngine, PInv, IInv, Step
<1> QED BY <1>1

(* Where a snapshot starts it knows nothing, ...                           *)
Fresh(w) == w.pc \in {"idle", "events"} /\ w.task # "refresh" /\ w.proof = 0

(* ... but that a commit exists or an operation is settled.                *)
LEMMA FreshKnows ==
  \A w : /\ Fresh(w)
         /\ w.task = "begin" => w.ref \in 1..Len(operations)
         /\ w.task = "settle" => SettledHolds
         => KnowsAll(w)
<1> SUFFICES ASSUME NEW w, Fresh(w),
                    w.task = "begin" => w.ref \in 1..Len(operations),
                    w.task = "settle" => SettledHolds
             PROVE  KnowsAll(w)
  OBVIOUS
<1>1. Known(w)
  BY DEF Fresh, Known, HasE, HasD, HasO, HasC, Knowing
<1>2. PlacesFit(w)
  BY DEF Fresh, PlacesFit, Publishing, Completing
<1>3. w.pc \notin {"check-state", "state"} /\ ~ AtWork(w) /\ ~ HasReleased(w)
  BY DEF Fresh, AtWork, HasReleased, Publishing, Completing
<1> QED BY <1>1, <1>2, <1>3 DEF KnowsAll, Informed

Blank(w) == Fresh(w) /\ w.task \notin {"begin", "settle"}

(* A process that gives up or starts over knows nothing, before a step     *)
(* and after it.                                                           *)
LEMMA BlankKnows == \A w : Blank(w) => KnowsAll(w)
BY FreshKnows DEF Blank

(* ... after the step as before.                                           *)
LEMMA BlankKnowsNext == \A w : Blank(w) => KnowsAll(w)'
<1>1. (\A w : Blank(w) => KnowsAll(w))'
  BY BlankKnows, PTL
<1> QED BY <1>1 DEF Blank, Fresh

(* Most snapshots are blank.                                               *)
LEMMA SnapshotsAreBlank ==
  /\ Blank(Idle)
  /\ \A task, ref : task \notin {"begin", "settle", "refresh"} => Blank(Snapshot(task, ref))
  /\ \A w : \A v \in Retried(w) : Blank(v)
<1>1. Blank(Idle)
  BY DEF Blank, Fresh, Idle
<1>2. ASSUME NEW task, NEW ref, task \notin {"begin", "settle", "refresh"}
      PROVE  Blank(Snapshot(task, ref))
  BY <1>2 DEF Blank, Fresh, Snapshot, Idle
<1> QED BY <1>1, <1>2 DEF Retried

(* A settle snapshot is fresh over a settled operation.                    *)
LEMMA SettleKnowsNext ==
  ASSUME SettledHolds' PROVE KnowsAll(Snapshot("settle", 0))'
<1>1. PICK v : v = Snapshot("settle", 0)
  OBVIOUS
<1>2. Fresh(v) /\ v.task = "settle"
  BY <1>1 DEF Fresh, Snapshot, Idle
<1>3. (\A w : /\ Fresh(w)
              /\ w.task = "begin" => w.ref \in 1..Len(operations)
              /\ w.task = "settle" => SettledHolds
              => KnowsAll(w))'
  BY FreshKnows, PTL
<1>4. Fresh(v)'
  BY <1>2 DEF Fresh
<1>5. KnowsAll(v)'
  BY <1>2, <1>3, <1>4
<1> QED BY <1>1, <1>5

(* A local step.                                                           *)
LEMMA ContinueOne ==
  ASSUME OneEngine, OneInv, NEW x \in Process, NEW w, KnowsAll(w), Continue(x, w)
  PROVE  OneStep
<1>1. UNCHANGED branches /\ UNCHANGED <<branches, late>> /\ late' = late /\ Step(x, w) /\ Branches
  BY DEF Continue, OneInv, PInv, IInv
<1>2. GuardsOK'
  BY <1>1, LateEventKeepsGuards DEF OneInv
<1>3. KnowsAll(w)'
  BY <1>1, NothingKeepsKnowledge
<1>4. BranchesMove
  BY <1>1 DEF BranchesMove
<1> QED BY <1>1, <1>2, <1>3, <1>4, OnlyProcessMoves DEF OneStep, OneHolds, OneInv

(* Giving up.                                                              *)
LEMMA StopOne ==
  ASSUME OneEngine, OneInv, NEW x \in Process, Stop(x)
  PROVE  OneStep
<1>1. KnowsAll(Idle)
  BY BlankKnows, SnapshotsAreBlank
<1> QED BY <1>1, ContinueOne DEF Stop, Continue

(* A write refused or lost.                                                *)
LEMMA LoseOrRefuseOne ==
  ASSUME OneEngine, OneInv, NEW x \in Process, NEW isHead, NEW lost, NEW onFailure,
         \A w \in onFailure : Blank(w),
         isHead /\ UNCHANGED branches /\ late' = lost => GuardsOK',
         LoseOrRefuse(x, isHead, lost, onFailure)
  PROVE  OneStep
<1>1. PICK w \in onFailure : Step(x, w)
  BY DEF LoseOrRefuse
<1>2. UNCHANGED branches /\ (late' = late \/ (isHead /\ late' = lost)) /\ Branches
  BY DEF LoseOrRefuse, OneInv, PInv, IInv
<1>3. GuardsOK'
  BY <1>2, LateEventKeepsGuards DEF OneInv
<1>4. KnowsAll(w)'
  BY <1>1, BlankKnowsNext
<1>5. BranchesMove
  BY <1>2 DEF BranchesMove
<1> QED BY <1>1, <1>3, <1>4, <1>5, OnlyProcessMoves DEF OneStep, OneHolds, OneInv

(* The conditional write of the guards.                                    *)
LEMMA WriteCoverageOne ==
  ASSUME OneEngine, OneInv, NEW x \in Process, NEW put \in Coverage, NEW w,
         Len(coverage) = worker[x].c => TipFits(put) /\ (~ Held(Tip) => Acquirable),
         ~ Reserved(put),
         Len(coverage) = worker[x].c /\ AppendCoverage(put) => KnowsAll(w)',
         WriteCoverage(x, put, w)
  PROVE  OneStep
<1>1. Branches /\ GuardsOK
  BY DEF OneInv, PInv, IInv
<1>2. CASE Len(coverage) = worker[x].c /\ AppendCoverage(put) /\ Step(x, w)
  <2>1. GateMoves(put)
    BY <1>2 DEF GateMoves, Reserved, Held, Acquirable
  <2>2. BranchesMove
    BY <1>2, <2>1 DEF BranchesMove, TipMoves
  <2> QED BY <1>1, <1>2, <2>2, CoverageKeepsGuards, OnlyProcessMoves
          DEF OneStep, OneHolds, OneInv
<1>3. CASE LoseOrRefuse(x, Len(coverage) = worker[x].c,
             [late EXCEPT !.coverage = @ \union {put}], {Idle})
  <2>1. PICK quit, lost : quit = {Idle} /\ lost = [late EXCEPT !.coverage = @ \union {put}]
    OBVIOUS
  <2>2. \A v \in quit : Blank(v)
    BY <2>1, SnapshotsAreBlank
  <2>3. Len(coverage) = worker[x].c /\ UNCHANGED branches /\ late' = lost => GuardsOK'
    BY <1>1, <2>1, LateCoverageKeepsGuards
  <2> QED BY <1>3, <2>1, <2>2, <2>3, LoseOrRefuseOne
<1> QED BY <1>2, <1>3 DEF WriteCoverage

(* The conditional write of the cell.                                      *)
LEMMA WriteOperationsOne ==
  ASSUME OneEngine, OneInv, NEW x \in Process, NEW put \in OwnedCell, NEW w, NEW onFailure,
         Len(operations) = worker[x].o => CellFits(put),
         Len(operations) = worker[x].o /\ AppendOperations(put) => KnowsAll(w)',
         \A v \in onFailure : Blank(v),
         WriteOperations(x, put, w, onFailure)
  PROVE  OneStep
<1>1. Branches /\ GuardsOK
  BY DEF OneInv, PInv, IInv
<1>2. CASE Len(operations) = worker[x].o /\ AppendOperations(put) /\ Step(x, w)
  <2>1. BranchesMove
    BY <1>2 DEF BranchesMove, CellMoves
  <2> QED BY <1>1, <1>2, <2>1, OperationsKeepGuards, OnlyProcessMoves
          DEF OneStep, OneHolds, OneInv
<1>3. CASE LoseOrRefuse(x, Len(operations) = worker[x].o,
             [late EXCEPT !.operations = @ \union {put}], onFailure)
  <2>1. PICK lost : lost = [late EXCEPT !.operations = @ \union {put}]
    OBVIOUS
  <2>2. Len(operations) = worker[x].o /\ UNCHANGED branches /\ late' = lost => GuardsOK'
    BY <1>1, <2>1, LateOperationKeepsGuards
  <2> QED BY <1>3, <2>1, <2>2, LoseOrRefuseOne
<1> QED BY <1>2, <1>3 DEF WriteOperations

(* The conditional write of the private projection.                        *)
LEMMA WriteDerivedOne ==
  ASSUME OneEngine, OneInv, NEW x \in Process, NEW put \in Derived, NEW w,
         Len(derived) = worker[x].d => PrivateFits(put) /\ Incomplete(Len(events)),
         Len(derived) = worker[x].d /\ AppendDerived(put) => KnowsAll(w)',
         WriteDerived(x, put, w)
  PROVE  OneStep
<1>1. Branches /\ GuardsOK
  BY DEF OneInv, PInv, IInv
<1>2. CASE Len(derived) = worker[x].d /\ AppendDerived(put) /\ Step(x, w)
  <2>1. BranchesMove
    BY <1>2 DEF BranchesMove, PrivateMoves
  <2> QED BY <1>1, <1>2, <2>1, DerivedKeepsGuards, OnlyProcessMoves
          DEF OneStep, OneHolds, OneInv
<1>3. CASE LoseOrRefuse(x, Len(derived) = worker[x].d,
             [late EXCEPT !.derived = @ \union {put}], {Idle})
  <2>1. PICK quit, lost : quit = {Idle} /\ lost = [late EXCEPT !.derived = @ \union {put}]
    OBVIOUS
  <2>2. \A v \in quit : Blank(v)
    BY <2>1, SnapshotsAreBlank
  <2>3. Len(derived) = worker[x].d /\ UNCHANGED branches /\ late' = lost => GuardsOK'
    BY <1>1, <2>1, LateDerivedKeepsGuards
  <2> QED BY <1>3, <2>1, <2>2, <2>3, LoseOrRefuseOne
<1> QED BY <1>2, <1>3 DEF WriteDerived

(* The process stays where it is.                                          *)
LEMMA OnlyProcessStays ==
  ASSUME PInv, OneKnows, UNCHANGED worker,
         \A w : FitsNow(w) /\ KnowsAll(w) => KnowsAll(w)'
  PROVE  OneKnows'
<1> SUFFICES ASSUME NEW y \in Process PROVE KnowsAll(worker[y])'
  BY DEF OneKnows
<1>1. PICK w : w = worker[y]
  OBVIOUS
<1>2. FitsNow(w) /\ KnowsAll(w)
  BY <1>1 DEF PInv, IInv, OneKnows
<1>3. KnowsAll(w)'
  BY <1>2
<1> QED BY <1>1, <1>3

(* A crash leaves nothing behind but what is on the branches.              *)
LEMMA CrashOne ==
  ASSUME OneEngine, OneInv, NEW x \in Process, Crash(x)
  PROVE  OneStep
<1>1. UNCHANGED branches /\ late' = late /\ Step(x, Idle) /\ Branches
  BY DEF Crash, OneInv, PInv, IInv
<1>2. GuardsOK'
  BY <1>1, LateEventKeepsGuards DEF OneInv
<1>3. KnowsAll(Idle)'
  BY SnapshotsAreBlank, BlankKnowsNext
<1>4. BranchesMove
  BY <1>1 DEF BranchesMove
<1> QED BY <1>1, <1>2, <1>3, <1>4, OnlyProcessMoves DEF OneStep, OneHolds, OneInv

(* What was in flight is delivered.                                        *)
LEMMA DeliverOne ==
  ASSUME OneInv, Deliver
  PROVE  OneStep
<1>1. Branches /\ Facts /\ GuardsOK /\ PInv /\ OneKnows /\ UNCHANGED worker
  BY DEF OneInv, PInv, IInv, Deliver
<1>2. late \in LateWrites
  BY <1>1 DEF Branches, LateFits
<1>3. ASSUME NEW put \in late.events, AppendEvents(put) PROVE OneStep
  <2>1. put \in Operation /\ EventFits(put)
    BY <1>1, <1>2, LateFit DEF LateWrites
  <2>2. BranchesMove
    BY <1>3, <2>1 DEF BranchesMove, EventMoves
  <2> QED BY <1>1, <1>3, <2>1, <2>2, EventsKeepGuards, EventsKeepKnowledge, OnlyProcessStays
          DEF OneStep, OneHolds
<1>4. ASSUME NEW put \in late.operations, AppendOperations(put) PROVE OneStep
  <2>1. put \in OwnedCell /\ CellFits(put)
    BY <1>1, <1>2, LateFit DEF LateWrites
  <2>2. BranchesMove
    BY <1>4, <2>1 DEF BranchesMove, CellMoves
  <2> QED BY <1>1, <1>4, <2>1, <2>2, OperationsKeepGuards, OperationsKeepKnowledge,
             OnlyProcessStays DEF OneStep, OneHolds
<1>5. ASSUME NEW put \in late.coverage, AppendCoverage(put) PROVE OneStep
  <2>1. put \in Coverage /\ put \in Tips /\ TipFits(put)
    BY <1>1, <1>2, LateFit, HeadsFit DEF LateWrites
  <2>2. \A w : FitsNow(w) /\ KnowsAll(w) => KnowsAll(w)'
    BY <1>1, <1>5, <2>1, CoverageKeepsKnowledge
  <2>3. GateMoves(put)
    BY <1>1, <2>1 DEF GuardsOK, NamesExist, TipsOK, GateMoves, Reserved, Held, Acquirable
  <2>4. BranchesMove
    BY <1>5, <2>1, <2>3 DEF BranchesMove, TipMoves
  <2> QED BY <1>1, <1>5, <2>1, <2>2, <2>4, CoverageKeepsGuards, OnlyProcessStays
          DEF OneStep, OneHolds
<1>6. ASSUME NEW put \in late.derived, AppendDerived(put) PROVE OneStep
  <2>1. put \in Derived /\ PrivateFits(put)
    BY <1>1, <1>2, LateFit DEF LateWrites
  <2>2. BranchesMove
    BY <1>6, <2>1 DEF BranchesMove, PrivateMoves
  <2> QED BY <1>1, <1>6, <2>1, <2>2, DerivedKeepsGuards, DerivedKeepsKnowledge,
             OnlyProcessStays DEF OneStep, OneHolds
<1> QED BY <1>3, <1>4, <1>5, <1>6 DEF Deliver

(* A success check reserves an open fence and opens it again.              *)
LEMMA SuccessCheckOne ==
  ASSUME OneInv, ReserveSuccess \/ ReleaseSuccess
  PROVE  OneStep
<1>1. Branches /\ GuardsOK /\ PInv /\ OneKnows /\ UNCHANGED worker
  BY DEF OneInv, PInv, IInv, ReserveSuccess, ReleaseSuccess
<1>2. Tip \in Coverage /\ Tip \in Tips /\ CellNow \in Cells
  BY <1>1, HeadsFit
<1>3. PICK put \in Coverage : /\ AppendCoverage(put)
                              /\ put.src = Tip.src /\ put.marker = Tip.marker
                              /\ ~ Held(put) /\ ~ Held(Tip) /\ GateMoves(put)
  <2>1. CASE ReserveSuccess
    <3> DEFINE p == [Tip EXCEPT !.fence = ReservedFence(@)]
    <3>1. /\ p \in Coverage /\ p.src = Tip.src /\ p.marker = Tip.marker
          /\ p.fence = ReservedFence(Tip.fence) /\ p.fence.state = "success_reserved"
      BY <1>2 DEF Coverage, ReservedFence, Fence
    <3> QED BY <2>1, <3>1 DEF ReserveSuccess, CanReserve, Held, GateMoves, Reserved
  <2>2. CASE ReleaseSuccess
    <3> DEFINE p == [Tip EXCEPT !.fence = Released(@)]
    <3>1. /\ p \in Coverage /\ p.src = Tip.src /\ p.marker = Tip.marker
          /\ p.fence = Released(Tip.fence) /\ p.fence.state = "idle"
      BY <1>2 DEF Coverage, Released, IdleFence, Fence
    <3> QED BY <2>2, <3>1 DEF ReleaseSuccess, Held, GateMoves, Reserved
  <2> QED BY <2>1, <2>2
<1>4. TipFits(put)
  <2>1. \A cell \in Cells : Bound(cell, Tip)
    BY <1>1, <1>2 DEF GuardsOK, GuardsBound
  <2>2. \A cell \in Cells : Bound(cell, put)
    BY <1>3, <2>1 DEF Bound, CrossBound, Held
  <2>3. ~ Opened
    BY <1>1, <1>2, <1>3 DEF GuardsOK, OpenedStays, Guarded
  <2>4. Complete(put)
    BY <1>1, <1>2, <1>3 DEF GuardsOK, TipsOK, Complete
  <2> QED BY <1>3, <2>2, <2>3, <2>4 DEF TipFits, Named
<1>5. \A w : FitsNow(w) /\ KnowsAll(w) => KnowsAll(w)'
  BY <1>1, <1>2, <1>3, CoverageKeepsKnowledge
<1>6. BranchesMove
  BY <1>3, <1>4 DEF BranchesMove, TipMoves
<1> QED BY <1>1, <1>3, <1>4, <1>5, <1>6, CoverageKeepsGuards, OnlyProcessStays
        DEF OneStep, OneHolds

(* A competitor may publish at any time.                                   *)
LEMMA CompeteOne ==
  ASSUME OneInv, NEW op \in Competitor, Compete(op)
  PROVE  OneStep
<1>1. Branches /\ Facts /\ GuardsOK /\ PInv /\ OneKnows /\ UNCHANGED worker
  BY DEF OneInv, PInv, IInv, Compete
<1>2. op \in Operation /\ EventFits(op) /\ AppendEvents(op)
  BY CompetitorsAreOperations DEF EventFits, Compete
<1>3. BranchesMove
  BY <1>2 DEF BranchesMove, EventMoves
<1> QED BY <1>1, <1>2, <1>3, EventsKeepGuards, EventsKeepKnowledge, OnlyProcessStays
        DEF OneStep, OneHolds

-----------------------------------------------------------------------------
(* The process takes a snapshot. *)

(* What the process is and knows.                                          *)
LEMMA WhatItKnows ==
  ASSUME OneInv, NEW x \in Process
  PROVE  /\ Branches /\ Facts /\ GuardsOK
         /\ worker[x] \in Worker /\ FitsNow(worker[x]) /\ Knows(worker[x])
         /\ Known(worker[x]) /\ Informed(worker[x])
         /\ CellOf(worker[x]) \in OwnedCell /\ coverage[worker[x].c] \in Coverage
         /\ derived[worker[x].d] \in Derived
BY WhatIsRead DEF OneInv, PInv, IInv, AllKnow, OneKnows, KnowsAll

(* At the heads it holds, what it reads is current.                        *)
LEMMA AtTheHeads ==
  ASSUME NEW w
  PROVE  /\ Len(operations) = w.o => CellOf(w) = CellNow
         /\ Len(coverage) = w.c => coverage[w.c] = Tip
         /\ Len(derived) = w.d => derived[w.d] = PrivateNow
BY DEF CellOf, CellNow, Tip, PrivateNow

(* An attempt starts.                                                      *)
LEMMA StartOne ==
  ASSUME OneEngine, OneInv, NEW x \in Process, StartPrepare(x) \/ StartReconcile(x)
  PROVE  OneStep
<1>1. KnowsAll(Snapshot("prepare", 0)) /\ KnowsAll(Snapshot("recover", 0))
  BY SnapshotsAreBlank, BlankKnows
<1> QED BY <1>1, ContinueOne DEF StartPrepare, StartReconcile

(* Reading on, it is informed of what it was.                              *)
LEMMA ReadingInformed ==
  ASSUME NEW w, Informed(w), w.pc \in Refreshing,
         NEW v, v.task = w.task, v.ref = w.ref, v.proof = w.proof,
         v.task = "refresh" => /\ v.e = w.e /\ v.d = w.d /\ v.c = w.c
                               /\ v.pc \in Refreshing \union {"check-complete"},
         v.task # "refresh" => v.pc \in Refreshing \union {"decide"}
  PROVE  Informed(v)
<1>1. w.pc \notin Publishing \union Completing /\ w.proof = 0 /\ ~ HasReleased(w)
  BY DEF Informed, PlacesFit, Publishing, Completing, Refreshing, HasReleased
<1>2. v.pc \notin Publishing /\ v.proof = 0 /\ ~ HasReleased(v)
  BY <1>1 DEF Publishing, Refreshing, HasReleased
<1>3. v.pc \in Completing => v.task = "refresh"
  BY DEF Completing, Refreshing
<1>4. PlacesFit(v)
  BY <1>1, <1>2, <1>3 DEF PlacesFit, Completing
<1>5. AtWork(v) => v.task = "refresh" /\ AtWork(w)
  BY <1>2, <1>3 DEF AtWork
<1>6. v.task = "refresh" => w.pc \notin {"check-public", "public"} /\ Settled(w)
  BY <1>1 DEF Settled, Publishing
<1>7. v.pc \notin {"check-state", "state"}
  BY <1>2 DEF Publishing
<1> QED BY <1>1, <1>2, <1>4, <1>5, <1>6, <1>7 DEF Informed

(* The canonical branch is read first, ...                                 *)
LEMMA ReadEventsOne ==
  ASSUME OneEngine, OneInv, NEW x \in Process, ReadEvents(x)
  PROVE  OneStep
<1> DEFINE w == worker[x]
<1>1. /\ Branches /\ GuardsOK /\ w \in Worker /\ Known(w) /\ Informed(w)
      /\ w.pc = "events"
  BY WhatItKnows DEF ReadEvents
<1>2. CASE Continue(x, Idle)
  BY <1>2, StopOne DEF Stop, Continue
<1>3. CASE /\ w.task = "refresh" => w.e = Len(events)
           /\ Continue(x, [w EXCEPT !.pc = "derived", !.e = Len(events)])
  <2>1. PICK v : v = [w EXCEPT !.pc = "derived", !.e = Len(events)]
    OBVIOUS
  <2>2. /\ v.pc = "derived" /\ v.e = Len(events) /\ v.task = w.task /\ v.ref = w.ref
        /\ v.proof = w.proof /\ v.d = w.d /\ v.o = w.o /\ v.c = w.c
    BY <1>1, <2>1 DEF Worker
  <2>3. Informed(v)
    BY <1>1, <1>3, <2>2, ReadingInformed DEF Refreshing
  <2>4. EventsKnown(v.e)
    <3>1. Len(events) \in Nat
      BY <1>1, HeadsFit
    <3> QED BY <1>1, <2>2, <3>1 DEF EventsKnown, GuardsOK
  <2>5. v.task = "refresh" => /\ v.e = w.e
                              /\ HasD(w) /\ HasO(w) /\ HasC(w)
    BY <1>3, <2>2 DEF HasD, HasO, HasC, Knowing
  <2>6. v.task # "refresh" => ~ HasD(v) /\ ~ HasO(v) /\ ~ HasC(v)
    BY <2>2 DEF HasD, HasO, HasC, Knowing
  <2>7. CellOf(v) = CellOf(w)
    BY <2>2 DEF CellOf
  <2>8. Known(v)
    BY <1>1, <2>2, <2>4, <2>5, <2>6, <2>7 DEF Known
  <2> QED BY <1>3, <2>1, <2>3, <2>8, ContinueOne DEF KnowsAll
<1> QED BY <1>2, <1>3 DEF ReadEvents, Moved

(* ... then the private projection, which stays if it is current, ...      *)
LEMMA ReadDerivedOne ==
  ASSUME OneEngine, OneInv, NEW x \in Process, ReadDerived(x)
  PROVE  OneStep
<1> DEFINE w == worker[x]
<1>1. /\ Branches /\ GuardsOK /\ w \in Worker /\ Known(w) /\ Informed(w)
      /\ w.pc = "derived"
  BY WhatItKnows DEF ReadDerived
<1>2. CASE Continue(x, Idle)
  BY <1>2, StopOne DEF Stop, Continue
<1>3. CASE /\ w.task = "refresh" => w.d = Len(derived)
           /\ Continue(x, [w EXCEPT !.pc = "operations", !.d = Len(derived)])
  <2>1. PICK v : v = [w EXCEPT !.pc = "operations", !.d = Len(derived)]
    OBVIOUS
  <2>2. /\ v.pc = "operations" /\ v.d = Len(derived) /\ v.task = w.task /\ v.ref = w.ref
        /\ v.proof = w.proof /\ v.e = w.e /\ v.o = w.o /\ v.c = w.c
    BY <1>1, <2>1 DEF Worker
  <2>3. Informed(v)
    BY <1>1, <1>3, <2>2, ReadingInformed DEF Refreshing
  <2>4. EventsKnown(v.e)
    BY <1>1, <2>2 DEF Known, HasE, Knowing
  <2>5. PrivateKnown(v.e, derived[v.d])
    <3>1. derived[v.d] = PrivateNow
      BY <2>2 DEF PrivateNow
    <3>2. PrivateNow = Sealed(v.e) => late.derived = {}
      <4>1. PICK gen \in Nat : gen = PrivateNow.gen
        BY <1>1, CurrentCommits
      <4>2. PrivateNow = Sealed(v.e) => PrivateNow.sealed /\ gen = Generation(v.e)
        BY <4>1 DEF Sealed
      <4> QED BY <2>4, <4>1, <4>2 DEF EventsKnown, LateIncomplete, Incomplete
    <3>3. \A v1 \in Tips : ~ Held(v1) => PrivateNow = Sealed(v1.src)
      BY <1>1, HeadsFit DEF GuardsOK, TipsOK, Complete
    <3> QED BY <3>1, <3>2, <3>3 DEF PrivateKnown, Privates
  <2>6. v.task = "refresh" => HasO(w) /\ HasC(w)
    BY <2>2 DEF HasO, HasC, Knowing
  <2>7. v.task # "refresh" => ~ HasO(v) /\ ~ HasC(v)
    BY <2>2 DEF HasO, HasC, Knowing
  <2>8. CellOf(v) = CellOf(w)
    BY <2>2 DEF CellOf
  <2>9. Known(v)
    BY <1>1, <2>2, <2>4, <2>5, <2>6, <2>7, <2>8 DEF Known
  <2> QED BY <1>3, <2>1, <2>3, <2>9, ContinueOne DEF KnowsAll
<1> QED BY <1>2, <1>3 DEF ReadDerived, Moved

(* ... then the cell, which goes on only under held guards, ...            *)
LEMMA ReadOperationsOne ==
  ASSUME OneEngine, OneInv, NEW x \in Process, ReadOperations(x)
  PROVE  OneStep
<1> DEFINE w == worker[x]
<1>1. /\ Branches /\ GuardsOK /\ w \in Worker /\ Known(w) /\ Informed(w)
      /\ w.pc = "operations"
  BY WhatItKnows DEF ReadOperations
<1>2. CASE Continue(x, Idle)
  BY <1>2, StopOne DEF Stop, Continue
<1>3. CASE /\ w.task = "refresh" => w.o = Len(operations)
           /\ Continue(x, [w EXCEPT !.pc = "coverage", !.o = Len(operations)])
  <2>1. PICK v : v = [w EXCEPT !.pc = "coverage", !.o = Len(operations)]
    OBVIOUS
  <2>2. /\ v.pc = "coverage" /\ v.o = Len(operations) /\ v.task = w.task /\ v.ref = w.ref
        /\ v.proof = w.proof /\ v.e = w.e /\ v.d = w.d /\ v.c = w.c
    BY <1>1, <2>1 DEF Worker
  <2>3. Informed(v)
    BY <1>1, <2>2, ReadingInformed DEF Refreshing
  <2>4. EventsKnown(v.e) /\ PrivateKnown(v.e, derived[v.d])
    BY <1>1, <2>2 DEF Known, HasE, HasD, Knowing
  <2>5. CellKnown(CellNow)
    <3>1. CellNow.state = "prepared" =>
            (\A c \in Cells : c = CellNow) \/ (\A u \in Tips : Held(u))
      BY <1>1 DEF Cells, GuardsOK, OpenedStays, Opened, Guarded
    <3>2. CellNow.state = "appending" =>
            \A c \in Cells : c.state \in {"appending", "terminal"} /\ c.op = CellNow.op
      BY <1>1 DEF Cells, GuardsOK, CellsOK, Becomes
    <3>3. CellNow.state = "terminal" =>
            (\A c \in Cells : c = CellNow) \/ (\A u \in Tips : ~ Held(u))
      <4>1. CASE late.operations = {}
        BY <4>1 DEF Cells
      <4>2. ASSUME NEW put \in late.operations, CellNow.state = "terminal", NEW u \in Tips
            PROVE  ~ Held(u)
        <5>1. put.state = "idle"
          BY <1>1, <4>2 DEF GuardsOK, CellsOK, Becomes
        <5>2. Bound(put, u)
          BY <1>1 DEF GuardsOK, GuardsBound, Cells
        <5> QED BY <5>1, <5>2, WhatBoundSays
      <4> QED BY <4>1, <4>2
    <3> QED BY <3>1, <3>2, <3>3 DEF CellKnown
  <2>6. CellOf(v) = CellNow
    BY <2>2, AtTheHeads
  <2>7. v.task = "refresh" => HasC(w) /\ v.o = w.o /\ CellOf(v) = CellOf(w)
    BY <1>3, <2>2 DEF HasC, Knowing, CellOf
  <2>8. v.task # "refresh" => ~ HasC(v)
    BY <2>2 DEF HasC, Knowing
  <2>9. Known(v)
    BY <1>1, <2>2, <2>4, <2>5, <2>6, <2>7, <2>8 DEF Known
  <2> QED BY <1>3, <2>1, <2>3, <2>9, ContinueOne DEF KnowsAll
<1> QED BY <1>2, <1>3 DEF ReadOperations, Moved

(* ... and the guards last.                                                *)
LEMMA ReadCoverageOne ==
  ASSUME OneEngine, OneInv, NEW x \in Process, ReadCoverage(x)
  PROVE  OneStep
<1> DEFINE w == worker[x]
           place == IF w.task = "refresh" THEN "check-complete" ELSE "decide"
<1>1. /\ Branches /\ GuardsOK /\ w \in Worker /\ Known(w) /\ Informed(w)
      /\ w.pc = "coverage"
  BY WhatItKnows DEF ReadCoverage
<1>2. CASE Continue(x, Idle)
  BY <1>2, StopOne DEF Stop, Continue
<1>3. CASE /\ w.task = "refresh" => w.c = Len(coverage)
           /\ Continue(x, [w EXCEPT !.pc = place, !.c = Len(coverage)])
  <2>1. PICK v : v = [w EXCEPT !.pc = place, !.c = Len(coverage)]
    OBVIOUS
  <2>2. /\ v.pc = place /\ v.c = Len(coverage) /\ v.task = w.task /\ v.ref = w.ref
        /\ v.proof = w.proof /\ v.e = w.e /\ v.d = w.d /\ v.o = w.o
    BY <1>1, <2>1 DEF Worker
  <2>3. Informed(v)
    BY <1>1, <1>3, <2>2, ReadingInformed DEF Refreshing
  <2>4. EventsKnown(v.e) /\ PrivateKnown(v.e, derived[v.d]) /\ CellKnown(CellOf(v))
    BY <1>1, <2>2 DEF Known, HasE, HasD, HasO, Knowing, CellOf
  <2>5. Tip \in Tips /\ CellNow \in Cells
    BY <1>1, HeadsFit
  <2>6. v.o = Len(operations) /\ CellOf(v).state = "prepared" /\ Tip.marker # None =>
          \A u \in Tips : Guarded(u)
    BY <1>1, AtTheHeads DEF GuardsOK, OpenedStays, Opened
  <2>7. \A u \in Tips : ~ Held(u) => u.src = Tip.src
    BY <1>1 DEF GuardsOK, TipsOK
  <2>8. CellOf(v).state = "terminal" =>
          IF Held(Tip) THEN \A c \in Cells : c = CellOf(v) ELSE \A u \in Tips : ~ Held(u)
    <3>1. ~ Held(Tip) /\ late.coverage # {} => CellNow.state = "prepared"
      BY <1>1 DEF GuardsOK, TipsOK, Acquirable
    <3>2. late.coverage = {} => Tips = {Tip}
      BY DEF Tips
    <3> QED BY <2>4, <2>5, <3>1, <3>2 DEF CellKnown
  <2>9. GuardsKnown(v.o, CellOf(v), coverage[v.c])
    BY <2>2, <2>6, <2>7, <2>8 DEF GuardsKnown, Tip
  <2>10. Known(v)
    BY <2>4, <2>9 DEF Known
  <2> QED BY <1>3, <2>1, <2>3, <2>10, ContinueOne DEF KnowsAll
<1> QED BY <1>2, <1>3 DEF ReadCoverage, Moved

-----------------------------------------------------------------------------
(* The process publishes. *)

(* The conditional write of an event.                                      *)
LEMMA WriteEventsOne ==
  ASSUME OneEngine, OneInv, NEW x \in Process, NEW put \in Operation, NEW w, NEW onFailure,
         Len(events) = worker[x].e => EventFits(put),
         Len(events) = worker[x].e /\ AppendEvents(put) => KnowsAll(w)',
         \A v \in onFailure : Blank(v),
         WriteEvents(x, put, w, onFailure)
  PROVE  OneStep
<1>1. Branches /\ Facts /\ GuardsOK
  BY DEF OneInv, PInv, IInv
<1>2. CASE Len(events) = worker[x].e /\ AppendEvents(put) /\ Step(x, w)
  <2>1. BranchesMove
    BY <1>2 DEF BranchesMove, EventMoves
  <2> QED BY <1>1, <1>2, <2>1, EventsKeepGuards, OnlyProcessMoves
          DEF OneStep, OneHolds, OneInv
<1>3. CASE LoseOrRefuse(x, Len(events) = worker[x].e,
             [late EXCEPT !.events = @ \union {put}], onFailure)
  <2>1. PICK lost : lost = [late EXCEPT !.events = @ \union {put}]
    OBVIOUS
  <2>2. Len(events) = worker[x].e /\ UNCHANGED branches /\ late' = lost => GuardsOK'
    BY <1>1, <2>1, LateEventKeepsGuards
  <2> QED BY <1>3, <2>1, <2>2, LoseOrRefuseOne
<1> QED BY <1>2, <1>3 DEF WriteEvents

(* Who may publish at the head holds the claim of an event not canonical.  *)
LEMMA PublisherClaims ==
  ASSUME PInv, NEW x \in Process,
         worker[x].pc = "publish-event", Len(events) = worker[x].e
  PROVE  LET op == CellOf(worker[x]).op
         IN  op \in Operation /\ IsOfClaim(op) /\ ~ HasEvent(op)
<1> DEFINE w == worker[x]
           op == CellOf(w).op
<1>1. FitsNow(w) /\ Knows(w)
  BY DEF PInv, IInv, AllKnow
<1>2. /\ op \in Operation
      /\ w.o \in 1..Len(operations)
      /\ \A i \in 1..w.e : IdempotencyKey[events[i]] # IdempotencyKey[op]
  BY <1>1 DEF FitsNow, Fits, CellOf
<1>3. CellOf(w).state = "appending" /\ (op \in Confirmed => CellOf(w).base = w.e)
  BY <1>1 DEF Knows
<1>4. ~ HasEvent(op)
  BY <1>2 DEF HasEvent
<1>5. SameClaim(CellNow, CellOf(w))
  BY <1>2, <1>3, <1>4 DEF PInv, Facts, ClaimsStand, CellOf
<1>6. IsOfClaim(op)
  BY <1>3, <1>5 DEF IsOfClaim, SameClaim
<1> QED BY <1>2, <1>4, <1>6

(* The event settles the operation.                                        *)
LEMMA UpdateEventsOne ==
  ASSUME OneEngine, OneInv, NEW x \in Process, UpdateEvents(x)
  PROVE  OneStep
<1> DEFINE w == worker[x]
<1>1. Branches /\ GuardsOK /\ PInv
  BY DEF OneInv, PInv, IInv
<1>2. PICK op : op = CellOf(w).op
  OBVIOUS
<1>3. op \in Operation
  BY <1>1, <1>2, WhatIsRead DEF UpdateEvents, PInv, FitsNow, Fits, CellOf
<1>4. Len(events) = w.e => IsOfClaim(op) /\ ~ HasEvent(op)
  BY <1>1, <1>2, PublisherClaims DEF UpdateEvents
<1>5. Len(events) = w.e => EventFits(op)
  BY <1>4 DEF EventFits
<1>6. ASSUME Len(events) = w.e, AppendEvents(op) PROVE KnowsAll(Snapshot("settle", 0))'
  <2>1. \A cell \in Cells : cell.state = "appending" /\ cell.op = op
    BY <1>1, <1>3, <1>4, <1>6, ClaimIsGuarded
  <2>2. Cells' = Cells /\ HasEvent(op)'
    BY <1>1, <1>3, <1>6, AfterEvents, LongerEvents
  <2>3. SettledHolds'
    BY <2>1, <2>2 DEF SettledHolds
  <2> QED BY <2>3, SettleKnowsNext
<1>7. PICK retried : retried = Retried(w) /\ \A v \in retried : Blank(v)
  BY SnapshotsAreBlank
<1>8. WriteEvents(x, op, Snapshot("settle", 0), retried)
  BY <1>2, <1>7 DEF UpdateEvents
<1> QED BY <1>3, <1>5, <1>6, <1>7, <1>8, WriteEventsOne

(* An operation is prepared over an idle cell, under an open fence.        *)
LEMMA PrepareOne ==
  ASSUME OneEngine, OneInv, NEW x \in Process, Prepare(x)
  PROVE  OneStep
<1> DEFINE w == worker[x]
<1>1. Branches /\ GuardsOK /\ w \in Worker
  BY WhatItKnows
<1>2. CASE Stop(x)
  BY <1>2, StopOne
<1>3. ASSUME NEW op \in Operation \ Competitor, CellOf(w).state = "idle",
             WriteOperations(x, PreparedCell(op, w.e), Idle, {Idle})
      PROVE  OneStep
  <2>1. PICK put : put = PreparedCell(op, w.e)
    OBVIOUS
  <2>2. /\ put \in OwnedCell
        /\ put.state = "prepared" /\ put.op = op
    BY <1>1, <2>1 DEF PreparedCell, IdleCell, OwnedCell, Cell, Worker
  <2>3. ASSUME Len(operations) = w.o PROVE CellFits(put)
    <3>1. CellNow \in Cells /\ CellNow.state = "idle"
      BY <1>1, <1>3, <2>3, HeadsFit, AtTheHeads
    <3>2. ASSUME NEW v \in Tips PROVE Bound(put, v)
      <4>1. ~ Held(v) /\ v.marker = None
        BY <1>1, <3>1, WhatBoundSays DEF GuardsOK, GuardsBound
      <4> QED BY <2>2, <4>1 DEF Bound, CrossBound, Held
    <3>3. Truthful(put) /\ Becomes(CellNow, put)
      BY <2>2, <3>1 DEF Truthful, Becomes
    <3> QED BY <3>1, <3>2, <3>3 DEF CellFits
  <2>4. PICK quit : quit = {Idle}
    OBVIOUS
  <2>5. KnowsAll(Idle)' /\ \A v \in quit : Blank(v)
    BY <2>4, SnapshotsAreBlank, BlankKnowsNext
  <2>6. WriteOperations(x, put, Idle, quit)
    BY <1>3, <2>1, <2>4
  <2> QED BY <2>2, <2>3, <2>5, <2>6, WriteOperationsOne
<1> QED BY <1>2, <1>3 DEF Prepare

-----------------------------------------------------------------------------
(* The process recovers. *)

(* A step that reads nothing loses nothing it knew.                        *)
LEMMA SameView ==
  ASSUME NEW w, Known(w), HasC(w),
         NEW v, v.e = w.e, v.d = w.d, v.o = w.o, v.c = w.c
  PROVE  Known(v)
<1>1. HasE(w) /\ HasD(w) /\ HasO(w)
  BY DEF HasE, HasD, HasO, HasC, Knowing
<1>2. CellOf(v) = CellOf(w)
  BY DEF CellOf
<1> QED BY <1>1, <1>2 DEF Known

(* Under a held fence a terminal cell is settled, under a released one the *)
(* fence stays released.                                                   *)
LEMMA TerminalUnderGuards ==
  ASSUME NEW w, Known(w), HasC(w), CellOf(w).state = "terminal"
  PROVE  /\ Held(coverage[w.c]) => SettledHolds
         /\ ~ Held(coverage[w.c]) => \A v \in Tips : ~ Held(v)
<1>1. GuardsKnown(w.o, CellOf(w), coverage[w.c])
  BY DEF Known
<1> QED BY <1>1 DEF GuardsKnown, SettledHolds

(* Recovery starts from what is authenticated.                             *)
LEMMA RecoverOne ==
  ASSUME OneEngine, OneInv, NEW x \in Process, Recover(x)
  PROVE  OneStep
<1> DEFINE w == worker[x]
           proof == CHOOSE k \in ReleaseProofs(w) : TRUE
<1>1. /\ Branches /\ GuardsOK /\ w \in Worker /\ FitsNow(w) /\ Known(w) /\ Informed(w)
      /\ w.pc = "decide" /\ w.task = "recover"
      /\ CellOf(w) \in OwnedCell
  BY WhatItKnows DEF Recover, Decides
<1>2. HasC(w) /\ w.proof = 0
  BY <1>1 DEF HasC, Knowing, Informed, PlacesFit, Completing
<1>3. w.c \in 1..Len(coverage) /\ w.o \in 1..Len(operations)
  BY <1>1 DEF FitsNow, Fits
<1>4. CASE Continue(x, Idle)
  BY <1>4, StopOne DEF Stop, Continue
<1>5. CASE Continue(x, Snapshot("begin", RecoveredReference(w)))
  <2>1. RecoveredReference(w) \in 1..Len(operations)
    BY <1>1, <1>3 DEF RecoveredReference, FenceOf, GuardsOK, NamesExist, Named, Held
  <2>2. PICK v : v = Snapshot("begin", RecoveredReference(w))
    OBVIOUS
  <2>3. Fresh(v) /\ v.task = "begin" /\ v.ref = RecoveredReference(w)
    BY <2>2 DEF Fresh, Snapshot, Idle
  <2>4. KnowsAll(v)
    BY <2>1, <2>3, FreshKnows
  <2> QED BY <1>5, <2>2, <2>4, ContinueOne
<1>6. CASE /\ RecoversUnderGuards(w) /\ ~ Live(CellOf(w))
           /\ Continue(x, [w EXCEPT !.pc = "check-public"])
  <2>1. PICK v : v = [w EXCEPT !.pc = "check-public"]
    OBVIOUS
  <2>2. /\ v.pc = "check-public" /\ v.task = "recover" /\ v.proof = 0
        /\ v.e = w.e /\ v.d = w.d /\ v.o = w.o /\ v.c = w.c
    BY <1>1, <1>2, <2>1 DEF Worker
  <2>3. Held(coverage[v.c]) /\ CellOf(w).state = "terminal"
    BY <1>1, <1>6, <2>2 DEF RecoversUnderGuards, Live, Held, FenceOf, CrossBound,
                            ReferenceAgrees, OwnedCell, Cell
  <2>4. SettledHolds
    BY <1>1, <1>2, <2>2, <2>3, TerminalUnderGuards
  <2>5. Informed(v)
    BY <2>2, <2>3, <2>4 DEF Informed, PlacesFit, Publishing, Completing, HasReleased
  <2>6. Known(v)
    BY <1>1, <1>2, <2>2, SameView
  <2> QED BY <1>6, <2>1, <2>5, <2>6, ContinueOne DEF KnowsAll
<1>7. CASE /\ RecoversReleased(w)
           /\ Continue(x, [w EXCEPT !.pc = "check-complete", !.proof = proof])
  <2>1. ReleaseProofs(w) # {}
    BY <1>7, FS_EmptySet DEF RecoversReleased
  <2>2. proof # 0
    BY <1>1, <2>1 DEF ReleaseProofs, Worker
  <2> HIDE DEF proof
  <2>3. PICK v : v = [w EXCEPT !.pc = "check-complete", !.proof = proof]
    OBVIOUS
  <2>4. /\ v.pc = "check-complete" /\ v.task = "recover" /\ v.proof # 0
        /\ v.e = w.e /\ v.d = w.d /\ v.o = w.o /\ v.c = w.c
    BY <1>1, <2>2, <2>3 DEF Worker
  <2>5. \A u \in Tips : ~ Held(u)
    <3>1. ~ Held(coverage[w.c]) /\ CellOf(w).state = "terminal"
      BY <1>7 DEF RecoversReleased, Held, FenceOf
    <3> QED BY <1>1, <1>2, <3>1, TerminalUnderGuards
  <2>6. Informed(v)
    BY <2>4, <2>5 DEF Informed, PlacesFit, Publishing, Completing, HasReleased
  <2>7. Known(v)
    BY <1>1, <1>2, <2>4, SameView
  <2> QED BY <1>7, <2>3, <2>6, <2>7, ContinueOne DEF KnowsAll
<1> QED BY <1>4, <1>5, <1>6, <1>7 DEF Recover

(* ... again after append has returned.                                    *)
LEMMA SettleOne ==
  ASSUME OneEngine, OneInv, NEW x \in Process, Settle(x)
  PROVE  OneStep
<1> DEFINE w == worker[x]
<1>1. /\ w \in Worker /\ Known(w) /\ Informed(w)
      /\ w.pc = "decide" /\ w.task \in {"settle", "repair"}
  BY WhatItKnows DEF Settle, Decides
<1>2. HasC(w) /\ w.proof = 0
  BY <1>1 DEF HasC, Knowing, Informed, PlacesFit, Completing
<1>3. CASE Continue(x, Idle)
  BY <1>3, StopOne DEF Stop, Continue
<1>4. CASE /\ FenceOf(w).state = "mutation"
           /\ Continue(x, [w EXCEPT !.pc = "check-public"])
  <2>1. PICK v : v = [w EXCEPT !.pc = "check-public"]
    OBVIOUS
  <2>2. /\ v.pc = "check-public" /\ v.task = w.task /\ v.proof = 0
        /\ v.e = w.e /\ v.d = w.d /\ v.o = w.o /\ v.c = w.c
    BY <1>1, <1>2, <2>1 DEF Worker
  <2>3. Held(coverage[v.c])
    BY <1>4, <2>2 DEF Held, FenceOf
  <2>4. w.task = "settle" => SettledHolds
    BY <1>1 DEF Informed
  <2>5. Informed(v)
    BY <1>1, <2>2, <2>3, <2>4
       DEF Informed, PlacesFit, Publishing, Completing, HasReleased, Settled
  <2>6. Known(v)
    BY <1>1, <1>2, <2>2, SameView
  <2> QED BY <1>4, <2>1, <2>5, <2>6, ContinueOne DEF KnowsAll
<1> QED BY <1>3, <1>4 DEF Settle

(* append returns when the cell is terminal under the guards.              *)
LEMMA AppendReturnsOne ==
  ASSUME OneEngine, OneInv, NEW x \in Process, AppendReturns(x)
  PROVE  OneStep
<1> DEFINE w == worker[x]
<1>1. Known(w) /\ w.pc = "decide"
  BY WhatItKnows DEF AppendReturns, Decides
<1>2. CASE Continue(x, Idle)
  BY <1>2, StopOne DEF Stop, Continue
<1>3. CASE /\ CellOf(w).state = "terminal"
           /\ MutationBound(CellOf(w), FenceOf(w), MarkerOf(w), ReferenceAt(w.ref))
           /\ Continue(x, Snapshot("settle", 0))
  <2>1. HasC(w) /\ Held(coverage[w.c])
    BY <1>1, <1>3 DEF HasC, Knowing, MutationBound, Held, FenceOf
  <2>2. SettledHolds
    BY <1>1, <1>3, <2>1, TerminalUnderGuards
  <2>3. PICK v : v = Snapshot("settle", 0)
    OBVIOUS
  <2>4. Fresh(v) /\ v.task = "settle"
    BY <2>3 DEF Fresh, Snapshot, Idle
  <2>5. KnowsAll(v)
    BY <2>2, <2>4, FreshKnows
  <2> QED BY <1>3, <2>3, <2>5, ContinueOne
<1> QED BY <1>2, <1>3 DEF AppendReturns

(* A missing projection is repaired from a new snapshot.                   *)
LEMMA MissFactsOne ==
  ASSUME OneEngine, OneInv, NEW x \in Process, MissFacts(x)
  PROVE  OneStep
<1>1. KnowsAll(Snapshot("repair", 0))
  BY SnapshotsAreBlank, BlankKnows
<1> QED BY <1>1, ContinueOne DEF MissFacts

-----------------------------------------------------------------------------
(* The process writes the guards. *)

(* What it knows once its write of the guards is the head.                 *)
LEMMA CoverageMoves ==
  ASSUME Branches, NEW put \in Coverage, AppendCoverage(put),
         NEW w, FitsNow(w), Known(w), HasC(w),
         ~ Held(put) => derived[w.d] = Sealed(put.src),
         CellOf(w).state = "prepared" => Held(put),
         CellOf(w).state = "terminal" /\ Held(put) => \A c \in Cells : c = CellOf(w),
         NEW v, v.e = w.e, v.d = w.d, v.o = w.o, v.c = Len(coverage) + 1
  PROVE  Known(v)'
<1>1. /\ Tips' = {put}
      /\ Cells' = Cells /\ CellNow' = CellNow
      /\ Privates' = Privates /\ PrivateNow' = PrivateNow
      /\ UNCHANGED <<events, operations, derived>>
      /\ late'.operations = late.operations /\ late'.derived = late.derived
      /\ coverage'[Len(coverage) + 1] = put
  BY AfterCoverage
<1>2. /\ \A e : Sealed(e)' = Sealed(e) /\ Generation(e)' = Generation(e)
      /\ \A i : Own(i) <=> Own(i)'
  BY <1>1, SameLog
<1>3. HasE(w) /\ HasD(w) /\ HasO(w)
  BY DEF HasE, HasD, HasO, HasC, Knowing
<1>4. PICK e, p, cell : e = w.e /\ p = derived[w.d] /\ cell = CellOf(w)
  OBVIOUS
<1>5. EventsKnown(e) /\ PrivateKnown(e, p) /\ CellKnown(cell)
  BY <1>3, <1>4 DEF Known
<1>6. EventsKnown(e)'
  BY <1>1, <1>2, <1>5 DEF EventsKnown, LateIncomplete, Incomplete
<1>7. PrivateKnown(e, p)'
  BY <1>1, <1>2, <1>4, <1>5 DEF PrivateKnown
<1>8. CellKnown(cell)'
  BY <1>1, <1>4, <1>5 DEF CellKnown
<1>9. GuardsKnown(v.o, cell, put)'
  BY <1>1, <1>4 DEF GuardsKnown, Guarded
<1>10. v.e = e /\ derived'[v.d] = p /\ CellOf(v)' = cell /\ coverage'[v.c] = put
  BY <1>1, <1>4 DEF CellOf
<1> QED BY <1>6, <1>7, <1>8, <1>9, <1>10
        DEF Known, EventsKnown, LateIncomplete, Incomplete, PrivateKnown, CellKnown, GuardsKnown

(* Under the fence in force the marker opens, and closes over events.      *)
LEMMA SameFenceFits ==
  ASSUME Branches, GuardsOK, Held(Tip), NEW put \in Coverage, put.fence = Tip.fence,
         put.marker \in {None, Tip.fence.op},
         \A cell \in Cells : cell.state = "appending" /\ ~ HasEvent(cell.op) =>
                               put.marker = cell.op,
         Opened => put.marker # None
  PROVE  TipFits(put)
<1>1. Tip \in Tips /\ Held(put)
  BY HeadsFit DEF Held
<1>2. Named(put)
  <2>1. Len(coverage) \in 1..Len(coverage)
    BY DEF Branches
  <2> QED BY <2>1 DEF GuardsOK, NamesExist, Named, Held, Tip
<1>3. ASSUME NEW cell \in Cells PROVE Bound(cell, put)
  <2>1. Bound(cell, Tip)
    BY <1>1 DEF GuardsOK, GuardsBound
  <2> QED BY <2>1 DEF Bound, CrossBound, MarkerMatches, Held
<1> QED BY <1>1, <1>2, <1>3 DEF TipFits

(* A fence is acquired for the prepared cell.                              *)
LEMMA AcquireFenceOne ==
  ASSUME OneEngine, OneInv, NEW x \in Process, AcquireFence(x)
  PROVE  OneStep
<1> DEFINE w == worker[x]
           wanted == MutationFence(FenceOf(w), ReferenceAt(w.ref))
<1>1. /\ Branches /\ GuardsOK /\ w \in Worker /\ FitsNow(w) /\ Known(w) /\ Informed(w)
      /\ w.pc = "decide" /\ w.task = "begin"
      /\ CellOf(w) \in OwnedCell /\ coverage[w.c] \in Coverage
  BY WhatItKnows DEF AcquireFence, Decides
<1>2. HasC(w) /\ w.proof = 0 /\ w.ref \in 1..Len(operations)
  BY <1>1 DEF HasC, Knowing, Informed, PlacesFit, Completing
<1>3. CASE Stop(x)
  BY <1>3, StopOne
<1>4. CASE Continue(x, [w EXCEPT !.pc = "open-marker"])
  <2>1. PICK v : v = [w EXCEPT !.pc = "open-marker"]
    OBVIOUS
  <2>2. /\ v.pc = "open-marker" /\ v.task = "begin" /\ v.proof = 0 /\ v.ref = w.ref
        /\ v.e = w.e /\ v.d = w.d /\ v.o = w.o /\ v.c = w.c
    BY <1>1, <1>2, <2>1 DEF Worker
  <2>3. Informed(v)
    BY <1>2, <2>2 DEF Informed, PlacesFit, Publishing, Completing, HasReleased, AtWork
  <2>4. Known(v)
    BY <1>1, <1>2, <2>2, SameView
  <2> QED BY <1>4, <2>1, <2>3, <2>4, ContinueOne DEF KnowsAll
<1>5. CASE /\ CanAcquire(FenceOf(w), CellOf(w), ReferenceAt(w.ref)) /\ MarkerOf(w) = None
           /\ WriteCoverage(x, [coverage[w.c] EXCEPT !.fence = wanted],
                            [w EXCEPT !.pc = "open-marker", !.c = w.c + 1])
  <2>1. PICK put, v : /\ put = [coverage[w.c] EXCEPT !.fence = wanted]
                      /\ v = [w EXCEPT !.pc = "open-marker", !.c = w.c + 1]
    OBVIOUS
  <2>2. /\ put \in Coverage /\ Held(put) /\ ~ Reserved(put) /\ put.fence = wanted
        /\ put.marker = None /\ put.src = coverage[w.c].src
    BY <1>1, <1>5, <2>1 DEF CanAcquire, ReferenceAgrees, MutationFence, ReferenceAt, Reference,
          Fence, Cell, OwnedCell, Worker, Coverage, Held, Reserved, MarkerOf, FenceOf
  <2>3. /\ v.pc = "open-marker" /\ v.task = "begin" /\ v.proof = 0 /\ v.ref = w.ref
        /\ v.e = w.e /\ v.d = w.d /\ v.o = w.o /\ v.c = w.c + 1
    BY <1>1, <1>2, <2>1 DEF Worker
  <2>4. CellOf(w).state = "prepared" /\ FenceOf(w).state = "idle"
    BY <1>5 DEF CanAcquire
  <2>5. ASSUME Len(coverage) = w.c PROVE TipFits(put) /\ Acquirable
    <3>1. Tip = coverage[w.c] /\ Tip \in Tips /\ ~ Held(Tip) /\ CellNow \in Cells
      BY <1>1, <2>4, <2>5, HeadsFit, AtTheHeads DEF Held, FenceOf
    <3>2. CellKnown(CellOf(w))
      BY <1>1, <1>2 DEF Known, HasO, HasC, Knowing
    <3>3. \A cell \in Cells : cell = CellOf(w)
      BY <2>4, <3>1, <3>2 DEF CellKnown
    <3>4. Bound(CellOf(w), put)
      BY <1>5, <2>2, <2>4 DEF Bound, CanAcquire, CrossBound, MarkerMatches, MutationFence,
                              ReferenceAt, Reference
    <3>5. late.operations = {}
      <4>1. \A c \in late.operations : Becomes(CellNow, c) /\ c = CellNow
        BY <1>1, <3>1, <3>3, HeadsFit DEF GuardsOK, CellsOK
      <4> QED BY <2>4, <3>1, <3>3, <4>1 DEF Becomes
    <3>6. ~ Opened
      BY <1>5, <3>1, <3>5 DEF Opened, MarkerOf
    <3>7. Named(put)
      BY <1>2, <2>2 DEF Named, MutationFence, ReferenceAt, Reference
    <3>8. TipFits(put)
      BY <2>2, <3>1, <3>3, <3>4, <3>6, <3>7 DEF TipFits
    <3> QED BY <2>4, <3>1, <3>3, <3>8 DEF Acquirable, FenceOf
  <2>6. ASSUME Len(coverage) = w.c, AppendCoverage(put) PROVE KnowsAll(v)'
    <3>1. Known(v)'
      BY <1>1, <1>2, <2>2, <2>3, <2>4, <2>6, CoverageMoves
    <3>2. UNCHANGED operations
      BY <2>6 DEF AppendCoverage
    <3>3. Informed(v)'
      BY <1>2, <2>3, <3>2 DEF Informed, PlacesFit, Publishing, Completing, HasReleased, AtWork
    <3> QED BY <3>1, <3>3 DEF KnowsAll
  <2> QED BY <1>5, <2>1, <2>2, <2>5, <2>6, WriteCoverageOne
<1> QED BY <1>3, <1>4, <1>5 DEF AcquireFence

(* The marker names the operation of the fence in force.                   *)
LEMMA OpenMarkerOne ==
  ASSUME OneEngine, OneInv, NEW x \in Process, OpenMarker(x)
  PROVE  OneStep
<1> DEFINE w == worker[x]
<1>1. /\ Branches /\ GuardsOK /\ w \in Worker
      /\ CellOf(w) \in OwnedCell /\ coverage[w.c] \in Coverage
  BY WhatItKnows
<1>2. PICK append : append = Snapshot("append", w.ref) /\ Blank(append)
  BY SnapshotsAreBlank
<1>3. KnowsAll(append) /\ KnowsAll(append)'
  BY <1>2, BlankKnows, BlankKnowsNext
<1>4. CASE Stop(x)
  BY <1>4, StopOne
<1>5. CASE Continue(x, append)
  BY <1>3, <1>5, ContinueOne
<1>6. CASE /\ CanOpen(CellOf(w), FenceOf(w), MarkerOf(w), ReferenceAt(w.ref))
           /\ WriteCoverage(x, [coverage[w.c] EXCEPT !.marker = FenceOf(w).op], append)
  <2>1. PICK put : put = [coverage[w.c] EXCEPT !.marker = FenceOf(w).op]
    OBVIOUS
  <2>2. /\ put \in Coverage /\ put.fence = coverage[w.c].fence /\ put.marker = FenceOf(w).op
        /\ put.marker # None /\ Held(coverage[w.c]) /\ ~ Reserved(put)
    BY <1>1, <1>6, <2>1, NoneIsNoOperation
       DEF CanOpen, MutationBound, CrossBound, ReferenceAgrees, FenceOf, Coverage, Fence,
           OwnedCell, Cell, Held, Reserved
  <2>3. ASSUME Len(coverage) = w.c PROVE TipFits(put) /\ Held(Tip)
    <3>1. Tip = coverage[w.c] /\ Tip \in Tips
      BY <1>1, <2>3, HeadsFit, AtTheHeads
    <3>2. \A cell \in Cells : cell.op = put.marker
      <4>1. \A cell \in Cells : Bound(cell, Tip)
        BY <1>1, <3>1 DEF GuardsOK, GuardsBound
      <4> QED BY <2>2, <3>1, <4>1, WhatBoundSays DEF FenceOf
    <3> QED BY <1>1, <2>2, <3>1, <3>2, SameFenceFits DEF FenceOf
  <2> QED BY <1>3, <1>6, <2>1, <2>2, <2>3, WriteCoverageOne
<1> QED BY <1>2, <1>4, <1>5, <1>6 DEF OpenMarker

-----------------------------------------------------------------------------
(* The process claims the append right, or finds there is nothing to do. *)

(* What it knows once its write of the cell is the head.                   *)
LEMMA OperationsMove ==
  ASSUME Branches, NEW put \in OwnedCell, AppendOperations(put),
         NEW w, FitsNow(w), Known(w), HasC(w),
         put.state \in {"appending", "terminal"},
         put.state = "terminal" => Held(coverage[w.c]),
         \A i \in (w.e + 1)..Len(events) : Own(i) => put.state = "appending" /\ put.op = events[i],
         NEW v, v.e = w.e, v.d = w.d, v.c = w.c, v.o = Len(operations) + 1
  PROVE  Known(v)'
<1>1. /\ Tips' = Tips
      /\ Cells' = {put} /\ CellNow' = put
      /\ Privates' = Privates /\ PrivateNow' = PrivateNow
      /\ UNCHANGED <<events, coverage, derived>>
      /\ late'.operations = {} /\ late'.derived = late.derived
      /\ operations'[Len(operations) + 1] = put
  BY AfterOperations
<1>2. /\ \A e : Sealed(e)' = Sealed(e) /\ Generation(e)' = Generation(e)
      /\ \A i : Own(i) <=> Own(i)'
  BY LongerOperations
<1>3. HasE(w) /\ HasD(w)
  BY DEF HasE, HasD, HasC, Knowing
<1>4. PICK e, p, u : e = w.e /\ p = derived[w.d] /\ u = coverage[w.c]
  OBVIOUS
<1>5. EventsKnown(e) /\ PrivateKnown(e, p) /\ GuardsKnown(w.o, CellOf(w), u)
  BY <1>3, <1>4 DEF Known
<1>6. EventsKnown(e)'
  BY <1>1, <1>2, <1>4, <1>5 DEF EventsKnown, LateIncomplete, Incomplete
<1>7. PrivateKnown(e, p)'
  BY <1>1, <1>2, <1>5 DEF PrivateKnown
<1>8. CellKnown(put)'
  BY <1>1 DEF CellKnown
<1>9. GuardsKnown(v.o, put, u)'
  BY <1>1, <1>4, <1>5 DEF GuardsKnown
<1>10. v.e = e /\ derived'[v.d] = p /\ CellOf(v)' = put /\ coverage'[v.c] = u
  BY <1>1, <1>4 DEF CellOf
<1> QED BY <1>6, <1>7, <1>8, <1>9, <1>10
        DEF Known, EventsKnown, LateIncomplete, Incomplete, PrivateKnown, CellKnown, GuardsKnown

(* Past an open marker every guard names the operation.                    *)
LEMMA MarkedIsGuarded ==
  ASSUME Branches, GuardsOK, NEW w, Known(w), HasC(w), Len(operations) = w.o,
         Live(CellOf(w)), coverage[w.c].marker # None
  PROVE  /\ CellOf(w) = CellNow
         /\ \A v \in Tips : Held(v) /\ Bound(CellNow, v) /\ v.fence.op = CellNow.op
         /\ CellNow.state = "prepared" => \A v \in Tips : Guarded(v)
<1>1. CellOf(w) = CellNow /\ CellNow \in Cells
  BY HeadsFit, AtTheHeads
<1>2. CellNow.state = "prepared" => \A v \in Tips : Guarded(v)
  BY <1>1 DEF Known, GuardsKnown
<1>3. ASSUME NEW v \in Tips PROVE Held(v) /\ Bound(CellNow, v) /\ v.fence.op = CellNow.op
  <2>1. Bound(CellNow, v)
    BY <1>1 DEF GuardsOK, GuardsBound
  <2> QED BY <1>1, <1>2, <2>1, WhatBoundSays DEF Live, Guarded
<1> QED BY <1>1, <1>2, <1>3

(* The claim is written under held guards.                                 *)
LEMMA ClaimAtOne ==
  ASSUME OneEngine, OneInv, NEW x \in Process, NEW head \in Nat, NEW held, NEW written,
         worker[x].pc = "decide",
         /\ CellOf(worker[x]).state = "appending"
         => KnowsAll(held),
         /\ Live(CellOf(worker[x])) /\ Len(operations) = worker[x].o
         /\ Claimed(CellOf(worker[x]), head) \in OwnedCell
         /\ AppendOperations(Claimed(CellOf(worker[x]), head))
         => KnowsAll(written)',
         ClaimAt(x, head, held, written)
  PROVE  OneStep
<1> DEFINE w == worker[x]
<1>1. Branches /\ GuardsOK /\ Known(w) /\ HasC(w) /\ CellOf(w) \in OwnedCell
  BY WhatItKnows DEF HasC, Knowing
<1>2. PICK put : put = Claimed(CellOf(w), head)
  OBVIOUS
<1>3. /\ put.state = "appending" /\ put.op = CellOf(w).op /\ put.base = CellOf(w).base
      /\ Live(CellOf(w)) => put \in OwnedCell
  BY <1>1, <1>2 DEF Claimed, Live, OwnedCell, Cell
<1>4. CASE Stop(x)
  BY <1>4, StopOne
<1>5. CASE put = CellOf(w) /\ Continue(x, held)
  BY <1>3, <1>5, ContinueOne
<1>6. CASE /\ CanClaim(CellOf(w), FenceOf(w), MarkerOf(w), ReferenceAt(w.ref))
           /\ WriteOperations(x, put, written, Retried(w))
  <2>1. Live(CellOf(w)) /\ coverage[w.c].marker # None
    BY <1>6 DEF CanClaim, MarkerOf
  <2>2. ASSUME Len(operations) = w.o PROVE CellFits(put)
    <3>1. /\ CellOf(w) = CellNow /\ CellNow \in Cells
          /\ \A v \in Tips : Held(v) /\ Bound(CellNow, v)
          /\ CellNow.state = "prepared" => \A v \in Tips : Guarded(v)
      BY <1>1, <2>1, <2>2, MarkedIsGuarded, HeadsFit
    <3>2. Truthful(put)
      <4>1. Truthful(CellNow)
        BY <1>1, <3>1 DEF GuardsOK, CellsOK
      <4> QED BY <1>3, <2>1, <3>1, <4>1 DEF Truthful, Live
    <3>3. Becomes(CellNow, put)
      BY <1>3, <2>1, <3>1 DEF Becomes, Live
    <3>4. ASSUME NEW v \in Tips PROVE Bound(put, v)
      <4>1. Held(v) /\ Bound(CellNow, v) /\ (CellNow.state = "prepared" => v.marker # None)
        BY <3>1 DEF Guarded
      <4> QED BY <1>3, <2>1, <3>1, <4>1
              DEF Bound, CrossBound, ReferenceAgrees, MarkerMatches, Held, Live
    <3> QED BY <3>1, <3>2, <3>3, <3>4 DEF CellFits
  <2>3. PICK retried : retried = Retried(w) /\ \A v \in retried : Blank(v)
    BY SnapshotsAreBlank
  <2>4. Len(operations) = w.o /\ AppendOperations(put) => KnowsAll(written)'
    BY <1>2, <1>3, <2>1
  <2>5. WriteOperations(x, put, written, retried)
    BY <1>6, <2>3
  <2> QED BY <1>3, <2>1, <2>2, <2>3, <2>4, <2>5, WriteOperationsOne
<1> QED BY <1>2, <1>4, <1>5, <1>6 DEF ClaimAt

(* A landed event settles the operation it is of.                          *)
LEMMA DiscoverLandedOne ==
  ASSUME OneEngine, OneInv, NEW x \in Process, DiscoverLanded(x)
  PROVE  OneStep
<1> DEFINE w == worker[x]
           op == CellOf(w).op
           head == FirstTaken(op, w.e) - 1
<1>1. /\ Branches /\ w \in Worker /\ FitsNow(w) /\ Known(w)
      /\ w.pc = "decide" /\ Live(CellOf(w)) /\ HasLanded(op, w.e)
      /\ CellOf(w) \in OwnedCell
  BY WhatItKnows DEF DiscoverLanded, MayAppend, Decides
<1>2. FirstTaken(op, w.e) \in 1..w.e /\ events[FirstTaken(op, w.e)] = op
  BY <1>1, FirstTakenExists DEF HasLanded, Worker
<1>3. HasEvent(op)
  BY <1>1, <1>2 DEF HasEvent, FitsNow, Fits
<1>4. PICK settle : settle = Snapshot("settle", 0)
  OBVIOUS
<1>5. CellOf(w).state = "appending" => KnowsAll(settle)
  <2> SUFFICES ASSUME CellOf(w).state = "appending" PROVE KnowsAll(settle)
    OBVIOUS
  <2>1. CellKnown(CellOf(w))
    BY <1>1 DEF Known, HasO, Knowing
  <2>2. SettledHolds
    BY <1>3, <2>1 DEF CellKnown, SettledHolds
  <2>3. Fresh(settle) /\ settle.task = "settle"
    BY <1>4 DEF Fresh, Snapshot, Idle
  <2> QED BY <2>2, <2>3, FreshKnows
<1>6. CASE CellOf(w).state = "appending" /\ Continue(x, settle)
  BY <1>5, <1>6, ContinueOne
<1>7. CASE ClaimAt(x, head, settle, settle)
  <2>1. head \in Nat
    BY <1>1, <1>2 DEF Worker
  <2>2. ASSUME Claimed(CellOf(w), head) \in OwnedCell,
               AppendOperations(Claimed(CellOf(w), head))
        PROVE  KnowsAll(settle)'
    <3>1. PICK put : put = Claimed(CellOf(w), head)
      OBVIOUS
    <3>2. put.state = "appending" /\ put.op = op
      BY <1>1, <3>1 DEF Claimed, OwnedCell, Cell
    <3>3. Cells' = {put} /\ HasEvent(put.op)'
      BY <1>1, <1>3, <2>2, <3>1, <3>2, AfterOperations, LongerOperations
    <3>4. SettledHolds'
      BY <3>2, <3>3 DEF SettledHolds
    <3> QED BY <1>4, <3>4, SettleKnowsNext
  <2>3. PICK h \in Nat : h = head
    BY <2>1
  <2>4. ClaimAt(x, h, settle, settle)
    BY <1>7, <2>3
  <2>5. ASSUME Claimed(CellOf(w), h) \in OwnedCell, AppendOperations(Claimed(CellOf(w), h))
        PROVE  KnowsAll(settle)'
    BY <2>2, <2>3, <2>5
  <2> HIDE DEF head
  <2> QED BY <1>1, <1>5, <2>4, <2>5, ClaimAtOne
<1> QED BY <1>4, <1>6, <1>7 DEF DiscoverLanded

(* The claim gives the right to publish.                                   *)
LEMMA ClaimAppendOne ==
  ASSUME OneEngine, OneInv, NEW x \in Process, ClaimAppend(x)
  PROVE  OneStep
<1> DEFINE w == worker[x]
<1>1. /\ Branches /\ w \in Worker /\ FitsNow(w) /\ Known(w) /\ Informed(w)
      /\ w.pc = "decide" /\ w.task = "append"
      /\ CellOf(w) \in OwnedCell
  BY WhatItKnows DEF ClaimAppend, Applicable, Absent, MayAppend, Decides
<1>2. HasC(w) /\ w.proof = 0
  BY <1>1 DEF HasC, Knowing, Informed, PlacesFit, Completing
<1>3. PICK held, written : /\ held = [w EXCEPT !.pc = "publish-event"]
                           /\ written = [w EXCEPT !.pc = "publish-event", !.o = w.o + 1]
  OBVIOUS
<1>4. /\ held.pc = "publish-event" /\ held.task = "append" /\ held.proof = 0
      /\ held.e = w.e /\ held.d = w.d /\ held.o = w.o /\ held.c = w.c
  BY <1>1, <1>2, <1>3 DEF Worker
<1>5. /\ written.pc = "publish-event" /\ written.task = "append" /\ written.proof = 0
      /\ written.e = w.e /\ written.d = w.d /\ written.o = w.o + 1 /\ written.c = w.c
  BY <1>1, <1>2, <1>3 DEF Worker
<1>6. KnowsAll(held)
  <2>1. Known(held)
    BY <1>1, <1>2, <1>4, SameView
  <2>2. Informed(held)
    BY <1>4 DEF Informed, PlacesFit, Publishing, Completing, HasReleased, AtWork
  <2> QED BY <2>1, <2>2 DEF KnowsAll
<1>7. ASSUME Live(CellOf(w)), Len(operations) = w.o,
             Claimed(CellOf(w), w.e) \in OwnedCell, AppendOperations(Claimed(CellOf(w), w.e))
      PROVE  KnowsAll(written)'
  <2>1. PICK put : put = Claimed(CellOf(w), w.e)
    OBVIOUS
  <2>2. put.state = "appending" /\ put.op = CellOf(w).op
    BY <1>1, <2>1 DEF Claimed, OwnedCell, Cell
  <2>3. \A i \in (w.e + 1)..Len(events) : Own(i) => put.op = events[i]
    <3>1. EventsKnown(w.e)
      BY <1>1 DEF Known, HasE, Knowing
    <3>2. CellOf(w) = CellNow
      BY <1>7, AtTheHeads
    <3> QED BY <2>2, <3>1, <3>2 DEF EventsKnown
  <2>4. Known(written)'
    BY <1>1, <1>2, <1>5, <1>7, <2>1, <2>2, <2>3, OperationsMove
  <2>5. Informed(written)'
    BY <1>5 DEF Informed, PlacesFit, Publishing, Completing, HasReleased, AtWork
  <2> QED BY <2>4, <2>5 DEF KnowsAll
<1>8. w.e \in Nat /\ ClaimAt(x, w.e, held, written)
  BY <1>1, <1>3 DEF ClaimAppend, Worker
<1> QED BY <1>1, <1>6, <1>7, <1>8, ClaimAtOne

(* A prepared cell ends without an event when none can land any more.      *)
LEMMA TerminateAbsentOne ==
  ASSUME OneEngine, OneInv, NEW x \in Process, NEW result \in {"semantic_noop", "conflict"},
         NEW onFailure, \A v \in onFailure : Blank(v),
         worker[x].pc = "decide",
         CellOf(worker[x]).state # "appending",
         Len(operations) = worker[x].o => ~ HasEvent(CellOf(worker[x]).op),
         TerminateAbsent(x, result, onFailure)
  PROVE  OneStep
<1> DEFINE w == worker[x]
<1>1. /\ Branches /\ GuardsOK /\ Known(w) /\ HasC(w) /\ w \in Worker
      /\ CellOf(w) \in OwnedCell
  BY WhatItKnows DEF HasC, Knowing
<1>2. CASE Stop(x)
  BY <1>2, StopOne
<1>3. CASE /\ CanTerminate(CellOf(w), FenceOf(w), MarkerOf(w), ReferenceAt(w.ref), result, FALSE)
           /\ WriteOperations(x, TerminalCell(CellOf(w), result, w.e, 0),
                              Snapshot("settle", 0), onFailure)
  <2>1. PICK put : put = TerminalCell(CellOf(w), result, w.e, 0)
    OBVIOUS
  <2>2. /\ CellOf(w).state = "prepared" /\ Live(CellOf(w)) /\ coverage[w.c].marker # None
    BY <1>3 DEF CanTerminate, Live, MarkerOf
  <2>3. /\ put.state = "terminal" /\ put.op = CellOf(w).op /\ put.result = result
        /\ put \in OwnedCell
    BY <1>1, <2>1, <2>2 DEF TerminalCell, IdleCell, OwnedCell, Cell, Worker, Results
  <2>4. ASSUME Len(operations) = w.o PROVE CellFits(put)
    <3>1. /\ CellOf(w) = CellNow /\ CellNow \in Cells
          /\ \A v \in Tips : Held(v) /\ Bound(CellNow, v)
          /\ \A v \in Tips : Guarded(v)
      BY <1>1, <2>2, <2>4, MarkedIsGuarded, HeadsFit
    <3>2. Truthful(put)
      <4>1. Truthful(CellNow)
        BY <1>1, <3>1 DEF GuardsOK, CellsOK
      <4> QED BY <2>2, <2>3, <2>4, <3>1, <4>1 DEF Truthful
    <3>3. Becomes(CellNow, put)
      BY <2>2, <2>3, <3>1 DEF Becomes
    <3>4. ASSUME NEW v \in Tips PROVE Bound(put, v)
      <4>1. Held(v) /\ Bound(CellNow, v)
        BY <3>1
      <4> QED BY <2>2, <2>3, <3>1, <4>1 DEF Bound, CrossBound, ReferenceAgrees, Held, Live
    <3> QED BY <3>1, <3>2, <3>3, <3>4 DEF CellFits
  <2>5. ASSUME AppendOperations(put) PROVE KnowsAll(Snapshot("settle", 0))'
    <3>1. Cells' = {put}
      BY <1>1, <2>3, <2>5, AfterOperations
    <3>2. SettledHolds'
      BY <2>3, <3>1 DEF SettledHolds
    <3> QED BY <3>2, SettleKnowsNext
  <2>6. WriteOperations(x, put, Snapshot("settle", 0), onFailure)
    BY <1>3, <2>1
  <2> QED BY <2>3, <2>4, <2>5, <2>6, WriteOperationsOne
<1> QED BY <1>2, <1>3 DEF TerminateAbsent

(* The key is another's, so the operation has no event.                    *)
LEMMA ConflictHasNoEvent ==
  ASSUME Branches, NEW op, NEW e \in 0..Len(events), IsConflict(op, e)
  PROVE  ~ HasEvent(op)
<1> SUFFICES ASSUME NEW j \in 1..Len(events), events[j] = op PROVE FALSE
  BY DEF HasEvent
<1>1. e \in Nat /\ Len(events) \in Nat /\ DOMAIN events = 1..Len(events) /\ e <= Len(events)
  BY DEF Branches
<1>2. KeyTakenAt(op, e) \subseteq Nat /\ KeyTakenAt(op, e) # {}
  BY <1>1 DEF KeyTakenAt, IsConflict
<1>3. FirstTaken(op, e) \in KeyTakenAt(op, e)
  BY <1>2, MinChosen DEF FirstTaken
<1>4. PICK i \in 1..e : i = FirstTaken(op, e) /\ SameKey(events[i], op)
  BY <1>3 DEF KeyTakenAt
<1>5. i = j
  <2>1. AtMostOnce /\ i \in DOMAIN events /\ j \in DOMAIN events
    BY <1>1, <1>4 DEF Branches
  <2>2. IdempotencyKey[events[i]] = IdempotencyKey[events[j]]
    BY <1>4 DEF SameKey
  <2> QED BY <2>1, <2>2 DEF AtMostOnce
<1> QED BY <1>4, <1>5 DEF IsConflict

(* Neither has it while its key is free and its cell only prepared.        *)
LEMMA PreparedHasNoEvent ==
  ASSUME Branches, GuardsOK, NEW w, FitsNow(w), Known(w), HasC(w), CellOf(w) = CellNow,
         CellNow.state = "prepared", KeyTakenAt(CellNow.op, w.e) = {}
  PROVE  ~ HasEvent(CellNow.op)
<1> SUFFICES ASSUME NEW j \in 1..Len(events), events[j] = CellNow.op PROVE FALSE
  BY DEF HasEvent
<1>1. w.e \in 0..Len(events) /\ Len(events) \in Nat
  BY DEF FitsNow, Fits, Branches
<1>2. CellNow.op \notin Competitor
  BY HeadsFit DEF GuardsOK, CellsOK, Truthful
<1>3. EventsKnown(w.e)
  BY DEF Known, HasE, HasC, Knowing
<1>4. j \notin (w.e + 1)..Len(events)
  BY <1>2, <1>3 DEF EventsKnown, Own
<1>5. j \in 1..w.e
  BY <1>1, <1>4
<1> QED BY <1>5 DEF KeyTakenAt, SameKey

(* A conflict or an operation that does not apply ends there.              *)
LEMMA FindOne ==
  ASSUME OneEngine, OneInv, NEW x \in Process, FindConflict(x) \/ FindInapplicable(x)
  PROVE  OneStep
<1> DEFINE w == worker[x]
<1>1. /\ Branches /\ GuardsOK /\ FitsNow(w) /\ Known(w) /\ w.pc = "decide" /\ Live(CellOf(w))
  BY WhatItKnows DEF FindConflict, FindInapplicable, Absent, MayAppend, Decides
<1>2. HasC(w) /\ w.e \in 0..Len(events)
  BY <1>1 DEF HasC, Knowing, FitsNow, Fits
<1>3. CASE Stop(x)
  BY <1>3, StopOne
<1>4. PICK quit, retried : /\ quit = {Idle} /\ \A v \in quit : Blank(v)
                           /\ retried = Retried(w) /\ \A v \in retried : Blank(v)
  BY SnapshotsAreBlank
<1>5. CASE FindConflict(x)
  <2>1. ~ HasEvent(CellOf(w).op)
    BY <1>1, <1>2, <1>5, ConflictHasNoEvent DEF FindConflict
  <2>2. Stop(x) \/ (CellOf(w).state # "appending" /\ TerminateAbsent(x, "conflict", quit))
    BY <1>4, <1>5 DEF FindConflict
  <2> QED BY <1>1, <1>3, <1>4, <2>1, <2>2, TerminateAbsentOne
<1>6. CASE FindInapplicable(x)
  <2>1. KeyTakenAt(CellOf(w).op, w.e) = {}
    BY <1>6 DEF FindInapplicable, Absent
  <2>2. \/ Stop(x)
        \/ \E result \in {"semantic_noop", "conflict"} :
             CellOf(w).state # "appending" /\ TerminateAbsent(x, result, retried)
    BY <1>4, <1>6 DEF FindInapplicable
  <2>3. CellOf(w).state # "appending" /\ Len(operations) = w.o => ~ HasEvent(CellOf(w).op)
    BY <1>1, <1>2, <2>1, AtTheHeads, PreparedHasNoEvent DEF Live
  <2> QED BY <1>1, <1>3, <1>4, <2>2, <2>3, TerminateAbsentOne
<1> QED BY <1>5, <1>6

-----------------------------------------------------------------------------
(* The process publishes the projections. *)

(* What settles an operation is not undone.                                *)
LEMMA SettledStays ==
  ASSUME Branches,
         \/ \E put \in Coverage : AppendCoverage(put)
         \/ \E put \in Derived : AppendDerived(put),
         SettledHolds
  PROVE  SettledHolds'
<1>1. Cells' = Cells /\ UNCHANGED <<events, operations>>
  BY AfterCoverage, AfterDerived
<1>2. \A op : HasEvent(op) <=> HasEvent(op)'
  BY <1>1, SameLog
<1> QED BY <1>1, <1>2 DEF SettledHolds

(* What it knows once its write of the private projection is the head.     *)
LEMMA DerivedMoves ==
  ASSUME Branches, NEW put \in Derived, AppendDerived(put),
         NEW w, FitsNow(w), Known(w), HasC(w), \A v \in Tips : Held(v),
         NEW v, v.e = w.e, v.d = Len(derived) + 1, v.o = w.o, v.c = w.c
  PROVE  Known(v)'
<1>1. /\ Tips' = Tips
      /\ Cells' = Cells /\ CellNow' = CellNow
      /\ Privates' = {put}
      /\ UNCHANGED <<events, operations, coverage>>
      /\ late'.operations = late.operations /\ late'.derived = {}
      /\ derived'[Len(derived) + 1] = put
  BY AfterDerived
<1>2. \A i : Own(i) <=> Own(i)'
  BY <1>1, SameLog
<1>3. HasE(w) /\ HasO(w)
  BY DEF HasE, HasO, HasC, Knowing
<1>4. PICK e, u, cell : e = w.e /\ u = coverage[w.c] /\ cell = CellOf(w)
  OBVIOUS
<1>5. EventsKnown(e) /\ CellKnown(cell) /\ GuardsKnown(v.o, cell, u)
  BY <1>3, <1>4 DEF Known
<1>6. EventsKnown(e)'
  BY <1>1, <1>2, <1>5 DEF EventsKnown, LateIncomplete
<1>7. PrivateKnown(e, put)'
  BY <1>1 DEF PrivateKnown
<1>8. CellKnown(cell)'
  BY <1>1, <1>5 DEF CellKnown
<1>9. GuardsKnown(v.o, cell, u)'
  BY <1>1, <1>5 DEF GuardsKnown
<1>10. v.e = e /\ derived'[v.d] = put /\ CellOf(v)' = cell /\ coverage'[v.c] = u
  BY <1>1, <1>4 DEF CellOf
<1> QED BY <1>6, <1>7, <1>8, <1>9, <1>10
        DEF Known, EventsKnown, LateIncomplete, PrivateKnown, CellKnown, GuardsKnown

(* Each write is preceded by a check of its source.                        *)
LEMMA CheckSourceOne ==
  ASSUME OneEngine, OneInv, NEW x \in Process, CheckSource(x)
  PROVE  OneStep
<1> DEFINE w == worker[x]
<1>1. w \in Worker /\ Known(w) /\ Informed(w) /\ w.pc \in DOMAIN SourceCheck
  BY WhatItKnows DEF CheckSource
<1>2. CASE Continue(x, Idle)
  BY <1>2, StopOne DEF Stop, Continue
<1>3. CASE Continue(x, [w EXCEPT !.pc = SourceCheck[w.pc]])
  <2>1. PICK v : v = [w EXCEPT !.pc = SourceCheck[w.pc]]
    OBVIOUS
  <2>2. /\ v.pc = SourceCheck[w.pc] /\ v.task = w.task /\ v.proof = w.proof /\ v.ref = w.ref
        /\ v.e = w.e /\ v.d = w.d /\ v.o = w.o /\ v.c = w.c
    BY <1>1, <2>1 DEF Worker
  <2>3. \/ w.pc = "check-public" /\ v.pc = "public"
        \/ w.pc = "check-private" /\ v.pc = "private"
        \/ w.pc = "check-state" /\ v.pc = "state"
        \/ w.pc = "check-complete" /\ v.pc = "close"
        \/ w.pc = "check-release" /\ v.pc = "release"
    BY <1>1, <2>2 DEF SourceCheck
  <2>4. HasC(w)
    BY <2>3 DEF HasC, Knowing
  <2>5. /\ PlacesFit(w) => PlacesFit(v)
        /\ AtWork(w) /\ AtWork(v)
        /\ HasReleased(w) <=> HasReleased(v)
        /\ Settled(w) <=> Settled(v)
        /\ w.pc \in {"check-public", "public"} <=> v.pc \in {"check-public", "public"}
        /\ w.pc \in {"check-state", "state"} <=> v.pc \in {"check-state", "state"}
    <3>1. /\ w.pc \in Publishing <=> v.pc \in Publishing
          /\ w.pc \in Completing <=> v.pc \in Completing
          /\ w.pc \in Publishing \union Completing
      BY <2>3 DEF Publishing, Completing
    <3> QED BY <2>2, <2>3, <3>1 DEF PlacesFit, AtWork, HasReleased, Settled
  <2>6. Informed(v)
    BY <1>1, <2>2, <2>5 DEF Informed
  <2>7. Known(v)
    BY <1>1, <2>2, <2>4, SameView
  <2> QED BY <1>3, <2>1, <2>6, <2>7, ContinueOne DEF KnowsAll
<1> QED BY <1>2, <1>3 DEF CheckSource

(* What it knows while it publishes.                                       *)
LEMMA WhatPublishingKnows ==
  ASSUME NEW w, Informed(w), w.pc \in Publishing
  PROVE  /\ w.task \in {"recover", "settle", "repair"} /\ w.proof = 0
         /\ Held(coverage[w.c]) /\ HasC(w)
         /\ w.task # "repair" => SettledHolds
         /\ w.pc \notin {"check-public", "public"} => coverage[w.c].src = w.e
         /\ w.pc \in {"check-state", "state"} =>
              ~ derived[w.d].sealed /\ \A v \in Tips : Held(v)
<1>1. w.pc \notin Completing /\ w.pc \notin {"idle", "events", "derived", "operations", "coverage"}
  BY DEF Publishing, Completing
<1>2. w.task \in {"recover", "settle", "repair"} /\ w.proof = 0 /\ HasC(w)
  BY <1>1 DEF Informed, PlacesFit, HasC, Knowing
<1>3. AtWork(w) /\ ~ HasReleased(w)
  BY <1>1, <1>2 DEF AtWork, HasReleased, Completing
<1>4. w.task # "repair" => Settled(w)
  BY <1>2 DEF Settled
<1> QED BY <1>2, <1>3, <1>4 DEF Informed

(* Going on publishing, it is informed of what it was.                     *)
LEMMA PublishingInformed ==
  ASSUME NEW v, v.pc \in Publishing \ {"check-public", "public"}, v.proof = 0,
         v.task \in {"recover", "settle", "repair"},
         Held(coverage[v.c]), coverage[v.c].src = v.e, v.task # "repair" => SettledHolds,
         v.pc \in {"check-state", "state"} =>
           ~ derived[v.d].sealed /\ \A u \in Tips : Held(u)
  PROVE  Informed(v)
<1>1. v.pc \notin Completing
  BY DEF Publishing, Completing
<1>2. PlacesFit(v) /\ ~ HasReleased(v) /\ (Settled(v) => SettledHolds)
  BY <1>1 DEF PlacesFit, HasReleased, Settled, Completing
<1> QED BY <1>2 DEF Informed

(* ... after the step as before.                                           *)
LEMMA PublishingInformedNext ==
  ASSUME NEW v, v.pc \in Publishing \ {"check-public", "public"}, v.proof = 0,
         v.task \in {"recover", "settle", "repair"},
         Held(coverage'[v.c]), coverage'[v.c].src = v.e, v.task # "repair" => SettledHolds',
         v.pc \in {"check-state", "state"} =>
           ~ derived'[v.d].sealed /\ \A u \in Tips' : Held(u)
  PROVE  Informed(v)'
<1>1. v.pc \notin Completing
  BY DEF Publishing, Completing
<1>2. PlacesFit(v)' /\ ~ HasReleased(v)' /\ (Settled(v)' => SettledHolds')
  BY <1>1 DEF PlacesFit, HasReleased, Settled, Completing
<1> QED BY <1>2 DEF Informed, Held

(* A refresh begins over complete projections of a settled operation.      *)
Refreshed(w) ==
  /\ w.pc \in Refreshing \union (Completing \ {"clear"}) /\ w.task = "refresh"
  /\ w.proof = 0
  /\ Held(coverage[w.c]) /\ coverage[w.c].src = w.e /\ derived[w.d] = Sealed(w.e)
  /\ SettledHolds

LEMMA RefreshInformed == \A w : Refreshed(w) => Informed(w)
<1> SUFFICES ASSUME NEW w, Refreshed(w) PROVE Informed(w)
  OBVIOUS
<1>1. w.pc \notin Publishing /\ ~ HasReleased(w) /\ w.task = "refresh" /\ w.proof = 0
  BY DEF Refreshed, Publishing, Refreshing, Completing, HasReleased
<1>2. PlacesFit(w)
  BY <1>1 DEF PlacesFit, Refreshed
<1> QED BY <1>1, <1>2 DEF Refreshed, Informed, Publishing

(* ... after the step as before.                                           *)
LEMMA RefreshInformedNext == \A w : Refreshed(w)' => Informed(w)'
<1>1. (\A w : Refreshed(w) => Informed(w))'
  BY RefreshInformed, PTL
<1> QED BY <1>1

(* Public coverage is published under the fence, ...                       *)
LEMMA PublishCoverageOne ==
  ASSUME OneEngine, OneInv, NEW x \in Process, PublishCoverage(x)
  PROVE  OneStep
<1> DEFINE w == worker[x]
<1>1. /\ Branches /\ GuardsOK /\ w \in Worker /\ FitsNow(w) /\ Known(w) /\ Informed(w)
      /\ w.pc = "public" /\ coverage[w.c] \in Coverage
  BY WhatItKnows DEF PublishCoverage
<1>2. /\ w.task \in {"recover", "settle", "repair"} /\ w.proof = 0
      /\ Held(coverage[w.c]) /\ HasC(w) /\ (w.task # "repair" => SettledHolds)
  BY <1>1, WhatPublishingKnows DEF Publishing
<1>3. CASE PublicIsCurrent(w) /\ Continue(x, [w EXCEPT !.pc = "check-private"])
  <2>1. PICK v : v = [w EXCEPT !.pc = "check-private"]
    OBVIOUS
  <2>2. /\ v.pc = "check-private" /\ v.task = w.task /\ v.proof = 0
        /\ v.e = w.e /\ v.d = w.d /\ v.o = w.o /\ v.c = w.c
    BY <1>1, <1>2, <2>1 DEF Worker
  <2>3. Informed(v)
    BY <1>2, <1>3, <2>2, PublishingInformed DEF Publishing, PublicIsCurrent
  <2>4. Known(v)
    BY <1>1, <1>2, <2>2, SameView
  <2> QED BY <1>3, <2>1, <2>3, <2>4, ContinueOne DEF KnowsAll
<1>4. CASE WriteCoverage(x, [coverage[w.c] EXCEPT !.src = w.e],
                         [w EXCEPT !.pc = "check-private", !.c = w.c + 1])
  <2>1. PICK put, v : /\ put = [coverage[w.c] EXCEPT !.src = w.e]
                      /\ v = [w EXCEPT !.pc = "check-private", !.c = w.c + 1]
    OBVIOUS
  <2>2. /\ put \in Coverage /\ put.fence = coverage[w.c].fence
        /\ put.marker = coverage[w.c].marker /\ put.src = w.e
        /\ Held(put) /\ ~ Reserved(put)
    BY <1>1, <1>2, <2>1 DEF Coverage, Worker, Held, Reserved
  <2>3. /\ v.pc = "check-private" /\ v.task = w.task /\ v.proof = 0
        /\ v.e = w.e /\ v.d = w.d /\ v.o = w.o /\ v.c = w.c + 1
    BY <1>1, <1>2, <2>1 DEF Worker
  <2>4. ASSUME Len(coverage) = w.c PROVE TipFits(put) /\ Held(Tip)
    <3>1. Tip = coverage[w.c] /\ Tip \in Tips /\ CellNow \in Cells
      BY <1>1, <2>4, HeadsFit, AtTheHeads
    <3>2. \A cell \in Cells : Bound(cell, Tip)
      BY <1>1, <3>1 DEF GuardsOK, GuardsBound
    <3>3. put.marker \in {None, Tip.fence.op}
      BY <1>2, <2>2, <3>1, <3>2, WhatBoundSays
    <3>4. \A cell \in Cells : cell.state = "appending" /\ ~ HasEvent(cell.op) =>
                                put.marker = cell.op
      BY <2>2, <3>1, <3>2 DEF Bound
    <3>5. Opened => put.marker # None
      BY <1>1, <2>2, <3>1 DEF GuardsOK, OpenedStays, Guarded
    <3> QED BY <1>1, <1>2, <2>2, <3>1, <3>3, <3>4, <3>5, SameFenceFits
  <2>5. ASSUME Len(coverage) = w.c, AppendCoverage(put) PROVE KnowsAll(v)'
    <3>1. CellOf(w).state = "terminal" => \A c \in Cells : c = CellOf(w)
      BY <1>1, <1>2 DEF Known, GuardsKnown
    <3>2. Known(v)'
      BY <1>1, <1>2, <2>2, <2>3, <2>5, <3>1, CoverageMoves
    <3>3. coverage'[v.c] = put
      BY <1>1, <2>2, <2>3, <2>5, AfterCoverage
    <3>4. w.task # "repair" => SettledHolds'
      BY <1>1, <1>2, <2>2, <2>5, SettledStays
    <3>5. Informed(v)'
      BY <1>2, <2>2, <2>3, <3>3, <3>4, PublishingInformedNext DEF Publishing
    <3> QED BY <3>2, <3>5 DEF KnowsAll
  <2> QED BY <1>4, <2>1, <2>2, <2>4, <2>5, WriteCoverageOne
<1> QED BY <1>3, <1>4 DEF PublishCoverage

(* A publication ends in a refresh of complete projections, or in a repair *)
(* that starts over.                                                       *)
LEMMA PublishedKnows ==
  ASSUME NEW w \in Worker, Known(w), HasC(w), w.proof = 0,
         Held(coverage[w.c]), coverage[w.c].src = w.e, derived[w.d] = Sealed(w.e),
         w.task # "repair" => SettledHolds
  PROVE  KnowsAll(Published(w))
<1>1. CASE w.task = "repair"
  BY <1>1, SnapshotsAreBlank, BlankKnows DEF Published
<1>2. CASE w.task # "repair"
  <2>1. PICK v : v = [w EXCEPT !.pc = "events", !.task = "refresh"]
    OBVIOUS
  <2>2. /\ v.pc = "events" /\ v.task = "refresh" /\ v.proof = 0
        /\ v.e = w.e /\ v.d = w.d /\ v.o = w.o /\ v.c = w.c
    BY <2>1 DEF Worker
  <2>3. Informed(v)
    BY <1>2, <2>2, RefreshInformed DEF Refreshed, Refreshing
  <2>4. Known(v)
    BY <2>2, SameView
  <2> QED BY <1>2, <2>1, <2>3, <2>4 DEF KnowsAll, Published
<1> QED BY <1>1, <1>2

(* ... then the shards of a private projection that is behind, ...         *)
LEMMA PublishShardsOne ==
  ASSUME OneEngine, OneInv, NEW x \in Process, PublishShards(x)
  PROVE  OneStep
<1> DEFINE w == worker[x]
<1>1. /\ Branches /\ GuardsOK /\ w \in Worker /\ FitsNow(w) /\ Known(w) /\ Informed(w)
      /\ Knows(w) /\ w.pc = "private" /\ derived[w.d] \in Derived
  BY WhatItKnows DEF PublishShards
<1>2. /\ w.task \in {"recover", "settle", "repair"} /\ w.proof = 0
      /\ Held(coverage[w.c]) /\ HasC(w) /\ (w.task # "repair" => SettledHolds)
      /\ coverage[w.c].src = w.e
  BY <1>1, WhatPublishingKnows DEF Publishing
<1>3. CASE PrivateIsCurrent(w) /\ Continue(x, Published(w))
  <2>1. KnowsAll(Published(w))
    BY <1>1, <1>2, <1>3, PublishedKnows DEF PrivateIsCurrent, Sealed
  <2> QED BY <1>3, <2>1, ContinueOne
<1>4. CASE /\ ~ PrivateIsCurrent(w)
           /\ WriteDerived(x, [derived[w.d] EXCEPT !.sealed = FALSE],
                           [w EXCEPT !.pc = "check-state", !.d = w.d + 1])
  <2>1. PICK put, v : /\ put = [derived[w.d] EXCEPT !.sealed = FALSE]
                      /\ v = [w EXCEPT !.pc = "check-state", !.d = w.d + 1]
    OBVIOUS
  <2>2. put \in Derived /\ ~ put.sealed
    BY <1>1, <2>1 DEF Derived
  <2>3. /\ v.pc = "check-state" /\ v.task = w.task /\ v.proof = 0
        /\ v.e = w.e /\ v.d = w.d + 1 /\ v.o = w.o /\ v.c = w.c
    BY <1>1, <1>2, <2>1 DEF Worker
  <2>4. \A u \in Tips : Held(u)
    <3>1. derived[w.d] # Sealed(w.e)
      BY <1>4 DEF PrivateIsCurrent, Sealed
    <3>2. PrivateKnown(w.e, derived[w.d]) /\ GuardsKnown(w.o, CellOf(w), coverage[w.c])
      BY <1>1, <1>2 DEF Known, HasD, HasC, Knowing
    <3> QED BY <1>2, <3>1, <3>2 DEF PrivateKnown, GuardsKnown
  <2>5. ASSUME Len(derived) = w.d PROVE PrivateFits(put) /\ Incomplete(Len(events))
    <3>1. PICK m \in Nat, e \in Nat : m = Len(events) /\ e = w.e /\ e <= m
      BY <1>1 DEF Branches, FitsNow, Fits
    <3>2. PICK old \in Nat, new \in Nat : /\ old = Generation(e) /\ new = Generation(m)
                                          /\ old <= new
      BY <3>1, GenerationIsNatural, GenerationAdvances
    <3>3. PICK gen \in Nat : gen = derived[w.d].gen /\ gen <= old
      BY <1>1, <3>1, <3>2 DEF Knows, Derived
    <3>4. derived[w.d].sealed => gen # old
      BY <1>1, <1>4, <3>1, <3>2, <3>3 DEF PrivateIsCurrent, Derived
    <3>5. derived[w.d].sealed => gen < new
      BY <3>2, <3>3, <3>4
    <3>6. PrivateNow = derived[w.d]
      BY <2>5, AtTheHeads
    <3> QED BY <2>4, <3>1, <3>2, <3>3, <3>5, <3>6 DEF PrivateFits, Incomplete
  <2>6. ASSUME Len(derived) = w.d, AppendDerived(put) PROVE KnowsAll(v)'
    <3>1. Known(v)'
      BY <1>1, <1>2, <2>2, <2>3, <2>4, <2>6, DerivedMoves
    <3>2. derived'[v.d] = put /\ Tips' = Tips /\ UNCHANGED coverage
      BY <1>1, <2>2, <2>3, <2>6, AfterDerived
    <3>3. w.task # "repair" => SettledHolds'
      BY <1>1, <1>2, <2>2, <2>6, SettledStays
    <3>4. Informed(v)'
      BY <1>2, <2>2, <2>3, <2>4, <3>2, <3>3, PublishingInformedNext DEF Publishing
    <3> QED BY <3>1, <3>4 DEF KnowsAll
  <2> QED BY <1>4, <2>1, <2>2, <2>5, <2>6, WriteDerivedOne
<1> QED BY <1>3, <1>4 DEF PublishShards

(* ... and the state file that seals them.                                 *)
LEMMA PublishStateOne ==
  ASSUME OneEngine, OneInv, NEW x \in Process, PublishState(x)
  PROVE  OneStep
<1> DEFINE w == worker[x]
<1>1. /\ Branches /\ GuardsOK /\ w \in Worker /\ FitsNow(w) /\ Known(w) /\ Informed(w)
      /\ w.pc = "state"
  BY WhatItKnows DEF PublishState
<1>2. /\ w.task \in {"recover", "settle", "repair"} /\ w.proof = 0
      /\ Held(coverage[w.c]) /\ HasC(w) /\ (w.task # "repair" => SettledHolds)
      /\ coverage[w.c].src = w.e
      /\ ~ derived[w.d].sealed /\ \A u \in Tips : Held(u)
  BY <1>1, WhatPublishingKnows DEF Publishing
<1>3. PICK put, v : put = Sealed(w.e) /\ v = Published([w EXCEPT !.d = w.d + 1])
  OBVIOUS
<1>4. put \in Derived
  BY <1>1, <1>3, GenerationIsNatural DEF Sealed, Derived, Worker
<1>5. Len(derived) = w.d => PrivateFits(put) /\ Incomplete(Len(events))
  BY <1>2, AtTheHeads DEF PrivateFits, Incomplete
<1>6. ASSUME Len(derived) = w.d, AppendDerived(put) PROVE KnowsAll(v)'
  <2>1. CASE w.task = "repair"
    <3>1. v = Idle
      BY <1>1, <1>3, <2>1 DEF Published, Worker
    <3> QED BY <3>1, SnapshotsAreBlank, BlankKnowsNext
  <2>2. CASE w.task # "repair"
    <3>1. /\ v.pc = "events" /\ v.task = "refresh" /\ v.proof = 0
          /\ v.e = w.e /\ v.d = w.d + 1 /\ v.o = w.o /\ v.c = w.c
      BY <1>1, <1>2, <1>3, <2>2 DEF Published, Worker
    <3>2. Known(v)'
      BY <1>1, <1>2, <1>4, <1>6, <3>1, DerivedMoves
    <3>3. derived'[v.d] = put /\ UNCHANGED <<coverage, events>>
      BY <1>1, <1>4, <1>6, <3>1, AfterDerived
    <3>4. Sealed(v.e)' = put
      BY <1>3, <3>1, <3>3, GenerationUnmoved DEF Sealed
    <3>5. SettledHolds'
      BY <1>1, <1>2, <1>4, <1>6, <2>2, SettledStays
    <3>6. Refreshed(v)'
      BY <1>2, <3>1, <3>3, <3>4, <3>5 DEF Refreshed, Refreshing, Completing, Held
    <3> QED BY <3>2, <3>6, RefreshInformedNext DEF KnowsAll
  <2> QED BY <2>1, <2>2
<1>7. WriteDerived(x, put, v)
  BY <1>3 DEF PublishState, Sealed
<1> QED BY <1>4, <1>5, <1>6, <1>7, WriteDerivedOne

-----------------------------------------------------------------------------
(* The process completes the operation. *)

(* What it knows before it has released the fence.                         *)
LEMMA WhatCompletingKnows ==
  ASSUME NEW w, Informed(w), w.pc \in Completing \ {"clear"}
  PROVE  /\ HasC(w)
         /\ w.proof = 0 => w.task = "refresh" /\ Refreshed(w)
         /\ w.proof # 0 => \A v \in Tips : ~ Held(v)
<1>1. w.pc \notin Publishing /\ w.pc \notin {"idle", "events", "derived", "operations", "coverage"}
  BY DEF Publishing, Completing
<1>2. w.proof = 0 => w.task = "refresh" /\ AtWork(w) /\ ~ HasReleased(w) /\ Settled(w)
  BY DEF Informed, PlacesFit, AtWork, HasReleased, Settled
<1>3. w.proof = 0 => Refreshed(w)
  BY <1>1, <1>2 DEF Informed, Refreshed, Publishing
<1> QED BY <1>1, <1>2, <1>3 DEF HasC, Knowing, Informed, HasReleased

(* The marker closes over the settled operation, ...                       *)
LEMMA CloseMarkerOne ==
  ASSUME OneEngine, OneInv, NEW x \in Process, CloseMarker(x)
  PROVE  OneStep
<1> DEFINE w == worker[x]
           place == IF CellOf(w).state = "appending" THEN "land" ELSE "check-release"
           next == [w EXCEPT !.pc = place]
<1>1. /\ Branches /\ GuardsOK /\ w \in Worker /\ FitsNow(w) /\ Known(w) /\ Informed(w)
      /\ w.pc = "close" /\ coverage[w.c] \in Coverage
  BY WhatItKnows DEF CloseMarker
<1>2. /\ HasC(w)
      /\ w.proof = 0 => w.task = "refresh" /\ Refreshed(w)
      /\ w.proof # 0 => \A v \in Tips : ~ Held(v)
  BY <1>1, WhatCompletingKnows DEF Completing
<1>3. CASE Stop(x)
  BY <1>3, StopOne
<1>4. CASE w.proof # 0 /\ Continue(x, [w EXCEPT !.pc = "clear"])
  <2>1. PICK v : v = [w EXCEPT !.pc = "clear"]
    OBVIOUS
  <2>2. /\ v.pc = "clear" /\ v.task = w.task /\ v.proof = w.proof /\ v.ref = w.ref
        /\ v.e = w.e /\ v.d = w.d /\ v.o = w.o /\ v.c = w.c
    BY <1>1, <2>1 DEF Worker
  <2>3. PlacesFit(v) /\ HasReleased(v)
    BY <1>1, <1>4, <2>2 DEF Informed, PlacesFit, HasReleased, Publishing, Completing
  <2>4. Informed(v)
    BY <1>1, <1>2, <1>4, <2>2, <2>3 DEF Informed
  <2>5. Known(v)
    BY <1>1, <1>2, <2>2, SameView
  <2> QED BY <1>4, <2>1, <2>4, <2>5, ContinueOne DEF KnowsAll
<1>5. CASE w.proof = 0 /\ Continue(x, next)
  <2>1. PICK v : v = next
    OBVIOUS
  <2>2. /\ v.pc \in {"land", "check-release"} /\ v.task = "refresh" /\ v.proof = 0
        /\ v.e = w.e /\ v.d = w.d /\ v.o = w.o /\ v.c = w.c
    BY <1>1, <1>2, <1>5, <2>1 DEF Worker
  <2>3. Refreshed(v)
    BY <1>2, <1>5, <2>2 DEF Refreshed, Refreshing, Completing
  <2>4. Known(v)
    BY <1>1, <1>2, <2>2, SameView
  <2> QED BY <1>5, <2>1, <2>3, <2>4, RefreshInformed, ContinueOne DEF KnowsAll
<1>6. CASE /\ w.proof = 0
           /\ WriteCoverage(x, [coverage[w.c] EXCEPT !.marker = None], [next EXCEPT !.c = w.c + 1])
  <2>1. PICK put, v : /\ put = [coverage[w.c] EXCEPT !.marker = None]
                      /\ v = [next EXCEPT !.c = w.c + 1]
    OBVIOUS
  <2>2. Held(coverage[w.c]) /\ coverage[w.c].src = w.e /\ SettledHolds
    BY <1>2, <1>6 DEF Refreshed
  <2>3. /\ put \in Coverage /\ put.fence = coverage[w.c].fence
        /\ put.marker = None /\ put.src = w.e /\ Held(put) /\ ~ Reserved(put)
    BY <1>1, <2>1, <2>2 DEF Coverage, Held, Reserved
  <2>4. /\ v.pc \in {"land", "check-release"} /\ v.task = "refresh" /\ v.proof = 0
        /\ v.e = w.e /\ v.d = w.d /\ v.o = w.o /\ v.c = w.c + 1
    BY <1>1, <1>2, <1>6, <2>1 DEF Worker
  <2>5. ASSUME Len(coverage) = w.c PROVE TipFits(put) /\ Held(Tip)
    <3>1. Tip = coverage[w.c] /\ CellNow \in Cells
      BY <1>1, <2>5, HeadsFit, AtTheHeads
    <3>2. /\ ~ Opened
          /\ \A cell \in Cells : cell.state = "appending" => HasEvent(cell.op)
      BY <2>2, <3>1 DEF SettledHolds, Opened
    <3> QED BY <1>1, <2>2, <2>3, <3>1, <3>2, SameFenceFits
  <2>6. ASSUME Len(coverage) = w.c, AppendCoverage(put) PROVE KnowsAll(v)'
    <3>1. CellOf(w).state = "terminal" => \A c \in Cells : c = CellOf(w)
      BY <1>1, <1>2, <2>2 DEF Known, GuardsKnown
    <3>2. Known(v)'
      BY <1>1, <1>2, <2>3, <2>4, <2>6, <3>1, CoverageMoves
    <3>3. coverage'[v.c] = put /\ UNCHANGED <<derived, events>>
      BY <1>1, <2>3, <2>4, <2>6, AfterCoverage
    <3>4. Sealed(v.e)' = Sealed(w.e) /\ derived[w.d] = Sealed(w.e)
      BY <1>2, <1>6, <2>4, <3>3, GenerationUnmoved DEF Sealed, Refreshed
    <3>5. SettledHolds'
      BY <1>1, <2>2, <2>3, <2>6, SettledStays
    <3>6. Refreshed(v)'
      BY <2>3, <2>4, <3>3, <3>4, <3>5 DEF Refreshed, Refreshing, Completing, Held
    <3> QED BY <3>2, <3>6, RefreshInformedNext DEF KnowsAll
  <2> HIDE DEF next
  <2> QED BY <1>6, <2>1, <2>3, <2>5, <2>6, WriteCoverageOne
<1>7. \/ Stop(x)
      \/ w.proof # 0 /\ Continue(x, [w EXCEPT !.pc = "clear"])
      \/ w.proof = 0 /\ Continue(x, next)
      \/ /\ w.proof = 0
         /\ WriteCoverage(x, [coverage[w.c] EXCEPT !.marker = None],
                          [next EXCEPT !.c = w.c + 1])
  BY DEF CloseMarker
<1> HIDE DEF next
<1> QED BY <1>3, <1>4, <1>5, <1>6, <1>7

(* ... the landed cell becomes terminal, ...                               *)
LEMMA TerminateLandedOne ==
  ASSUME OneEngine, OneInv, NEW x \in Process, TerminateLanded(x)
  PROVE  OneStep
<1> DEFINE w == worker[x]
           op == CellOf(w).op
<1>1. /\ Branches /\ GuardsOK /\ w \in Worker /\ FitsNow(w) /\ Known(w) /\ Informed(w)
      /\ w.pc = "land" /\ CellOf(w) \in OwnedCell
  BY WhatItKnows DEF TerminateLanded
<1>2. /\ HasC(w)
      /\ w.proof = 0 => w.task = "refresh" /\ Refreshed(w)
      /\ w.proof # 0 => \A v \in Tips : ~ Held(v)
  BY <1>1, WhatCompletingKnows DEF Completing
<1>3. CASE Stop(x)
  BY <1>3, StopOne
<1>4. CASE /\ HasLanded(op, w.e)
           /\ CanTerminate(CellOf(w), FenceOf(w), MarkerOf(w), FencedReference(w), "landed", TRUE)
           /\ WriteOperations(x, TerminalCell(CellOf(w), "landed", w.e, FirstTaken(op, w.e)),
                              [w EXCEPT !.pc = "check-release", !.o = w.o + 1], {Idle})
  <2>1. PICK put, v : /\ put = TerminalCell(CellOf(w), "landed", w.e, FirstTaken(op, w.e))
                      /\ v = [w EXCEPT !.pc = "check-release", !.o = w.o + 1]
    OBVIOUS
  <2>2. PICK i \in 1..w.e : i = FirstTaken(op, w.e) /\ events[i] = op
    BY <1>1, <1>4, FirstTakenExists DEF HasLanded, Worker
  <2>3. CellOf(w).state = "appending"
    BY <1>4 DEF CanTerminate
  <2>4. /\ put.state = "terminal" /\ put.op = op /\ put.result = "landed" /\ put.commit = i
        /\ put \in OwnedCell
    <3>1. w.e \in Nat /\ i \in Nat
      BY <1>1, <2>2 DEF Worker
    <3>2. put = TerminalCell(CellOf(w), "landed", w.e, i)
      BY <2>1, <2>2
    <3> QED BY <1>1, <2>3, <3>1, <3>2 DEF TerminalCell, IdleCell, OwnedCell, Cell, Results
  <2>5. /\ i \in 1..Len(events) /\ DOMAIN events = 1..Len(events)
        /\ w.e \in Nat /\ i <= w.e /\ Len(events) \in Nat
    <3>1. w.e \in 0..Len(events) /\ Len(events) \in Nat /\ DOMAIN events = 1..Len(events)
      BY <1>1 DEF FitsNow, Fits, Branches
    <3>2. i \in 1..w.e
      BY <2>2
    <3> QED BY <3>1, <3>2
  <2>6. ASSUME Len(operations) = w.o
        PROVE  CellFits(put) /\ CellNow = CellOf(w) /\ w.proof = 0
    <3>1. CellOf(w) = CellNow /\ CellNow \in Cells /\ Tip \in Tips
      BY <1>1, <2>6, HeadsFit, AtTheHeads
    <3>2. \A u \in Tips : Bound(CellNow, u)
      BY <1>1, <3>1 DEF GuardsOK, GuardsBound
    <3>3. \A u \in Tips : Held(u)
      BY <2>3, <3>1, <3>2, WhatBoundSays
    <3>4. Truthful(put)
      <4>1. Truthful(CellNow)
        BY <1>1, <3>1 DEF GuardsOK, CellsOK
      <4> QED BY <2>2, <2>3, <2>4, <2>5, <3>1, <4>1 DEF Truthful
    <3>5. Becomes(CellNow, put)
      BY <2>3, <2>4, <3>1 DEF Becomes
    <3>6. ASSUME NEW u \in Tips PROVE Bound(put, u)
      <4>1. Held(u) /\ Bound(CellNow, u)
        BY <3>2, <3>3
      <4> QED BY <2>3, <2>4, <3>1, <4>1 DEF Bound, CrossBound, ReferenceAgrees, Held, Live
    <3> QED BY <1>2, <2>3, <3>1, <3>3, <3>4, <3>5, <3>6 DEF CellFits
  <2>7. ASSUME Len(operations) = w.o, AppendOperations(put) PROVE KnowsAll(v)'
    <3>1. Refreshed(w) /\ w.task = "refresh" /\ w.proof = 0 /\ CellNow = CellOf(w)
      BY <1>2, <2>6, <2>7
    <3>2. /\ v.pc = "check-release" /\ v.task = "refresh" /\ v.proof = 0
          /\ v.e = w.e /\ v.d = w.d /\ v.o = w.o + 1 /\ v.c = w.c
      BY <1>1, <2>1, <3>1 DEF Worker
    <3>3. \A j \in (w.e + 1)..Len(events) : ~ Own(j)
      <4> SUFFICES ASSUME NEW j \in (w.e + 1)..Len(events), Own(j) PROVE FALSE
        OBVIOUS
      <4>1. EventsKnown(w.e)
        BY <1>1, <1>2 DEF Known, HasE, HasC, Knowing
      <4>2. events[j] = op
        BY <3>1, <4>1 DEF EventsKnown
      <4>3. w.e \in Nat /\ i <= w.e /\ j \in 1..Len(events) /\ w.e < j
        BY <2>5
      <4>4. i = j
        BY <1>1, <2>2, <2>5, <4>2, <4>3 DEF Branches, AtMostOnce
      <4> QED BY <4>3, <4>4
    <3>4. Held(coverage[w.c])
      BY <3>1 DEF Refreshed
    <3>5. Known(v)'
      BY <1>1, <1>2, <2>4, <2>7, <3>2, <3>3, <3>4, OperationsMove
    <3>6. UNCHANGED <<coverage, derived, events>> /\ Cells' = {put}
      BY <1>1, <2>4, <2>7, AfterOperations
    <3>7. Sealed(v.e)' = Sealed(w.e)
      BY <3>2, <3>6, GenerationUnmoved DEF Sealed
    <3>8. SettledHolds'
      BY <2>4, <3>6 DEF SettledHolds
    <3>9. Refreshed(v)'
      BY <3>1, <3>2, <3>6, <3>7, <3>8 DEF Refreshed, Refreshing, Completing, Held
    <3> QED BY <3>5, <3>9, RefreshInformedNext DEF KnowsAll
  <2>8. PICK quit : quit = {Idle} /\ \A u \in quit : Blank(u)
    BY SnapshotsAreBlank
  <2>9. WriteOperations(x, put, v, quit)
    BY <1>4, <2>1, <2>8
  <2> QED BY <2>4, <2>6, <2>7, <2>8, <2>9, WriteOperationsOne
<1> QED BY <1>3, <1>4 DEF TerminateLanded

(* ... the fence is released over complete projections ...                 *)
LEMMA ReleaseFenceOne ==
  ASSUME OneEngine, OneInv, NEW x \in Process, ReleaseFence(x)
  PROVE  OneStep
<1> DEFINE w == worker[x]
<1>1. /\ Branches /\ GuardsOK /\ w \in Worker /\ FitsNow(w) /\ Known(w) /\ Informed(w)
      /\ w.pc = "release" /\ coverage[w.c] \in Coverage
  BY WhatItKnows DEF ReleaseFence
<1>2. /\ HasC(w)
      /\ w.proof = 0 => w.task = "refresh" /\ Refreshed(w)
      /\ w.proof # 0 => \A v \in Tips : ~ Held(v)
  BY <1>1, WhatCompletingKnows DEF Completing
<1>3. CASE Stop(x)
  BY <1>3, StopOne
<1>4. CASE /\ CanRelease(FenceOf(w), CellOf(w), MarkerOf(w), FencedReference(w), TRUE)
           /\ WriteCoverage(x, [coverage[w.c] EXCEPT !.fence = Released(FenceOf(w))],
                            [w EXCEPT !.pc = "clear", !.c = w.c + 1, !.proof = w.c])
  <2>1. PICK put, v : /\ put = [coverage[w.c] EXCEPT !.fence = Released(FenceOf(w))]
                      /\ v = [w EXCEPT !.pc = "clear", !.c = w.c + 1, !.proof = w.c]
    OBVIOUS
  <2>2. /\ CellOf(w).state = "terminal" /\ coverage[w.c].marker = None
        /\ Held(coverage[w.c])
    BY <1>4 DEF CanRelease, MarkerOf, FenceOf, Held
  <2>3. /\ put \in Coverage /\ put.marker = None /\ put.src = coverage[w.c].src
        /\ ~ Held(put) /\ ~ Reserved(put)
    BY <1>1, <2>1, <2>2 DEF Coverage, Released, IdleFence, Fence, Held, Reserved, FenceOf
  <2>4. /\ v.pc = "clear" /\ v.task = w.task
        /\ v.e = w.e /\ v.d = w.d /\ v.o = w.o /\ v.c = w.c + 1
    BY <1>1, <2>1 DEF Worker
  <2>5. ASSUME Len(coverage) = w.c
        PROVE  /\ Held(Tip) /\ TipFits(put)
               /\ w.task = "refresh" /\ derived[w.d] = Sealed(put.src)
    <3>1. Tip = coverage[w.c] /\ Tip \in Tips /\ CellNow \in Cells
      BY <1>1, <2>5, HeadsFit, AtTheHeads
    <3>2. w.task = "refresh" /\ Refreshed(w)
      BY <1>2, <2>2, <3>1
    <3>3. put.src = w.e /\ derived[w.d] = Sealed(w.e)
      BY <2>3, <3>2 DEF Refreshed
    <3>4. \A cell \in Cells : cell = CellOf(w)
      BY <1>1, <1>2, <2>2 DEF Known, GuardsKnown
    <3>5. \A cell \in Cells : Bound(cell, put)
      BY <2>2, <2>3, <3>4 DEF Bound, CrossBound, Held
    <3>6. ~ Opened
      BY <2>2, <3>1, <3>4 DEF Opened
    <3>7. EventsKnown(w.e) /\ PrivateKnown(w.e, derived[w.d])
      BY <1>1, <1>2 DEF Known, HasE, HasD, HasC, Knowing
    <3>8. \A i \in 1..Len(events) : Own(i) => i <= w.e
      <4>1. \A i \in (w.e + 1)..Len(events) : ~ Own(i)
        BY <2>2, <3>1, <3>4, <3>7 DEF EventsKnown
      <4>2. w.e \in Nat /\ Len(events) \in Nat
        BY <1>1 DEF Worker, Branches
      <4> QED BY <4>1, <4>2
    <3>9. Complete(put)
      BY <3>3, <3>7, <3>8 DEF Complete, PrivateKnown
    <3> QED BY <2>2, <2>3, <3>1, <3>2, <3>3, <3>5, <3>6, <3>9 DEF TipFits, Named
  <2>6. ASSUME Len(coverage) = w.c, AppendCoverage(put) PROVE KnowsAll(v)'
    <3>1. Known(v)'
      BY <1>1, <1>2, <2>2, <2>3, <2>4, <2>5, <2>6, CoverageMoves
    <3>2. Tips' = {put}
      BY <1>1, <2>3, <2>6, AfterCoverage
    <3>3. v.task = "refresh"
      BY <2>4, <2>5, <2>6
    <3>4. Informed(v)'
      BY <2>3, <2>4, <3>2, <3>3 DEF Informed, PlacesFit, HasReleased, Publishing, Completing
    <3> QED BY <3>1, <3>4 DEF KnowsAll
  <2> QED BY <1>4, <2>1, <2>3, <2>5, <2>6, WriteCoverageOne
<1> QED BY <1>3, <1>4 DEF ReleaseFence

(* ... and the cell is cleared under the released fence.                   *)
LEMMA ClearOne ==
  ASSUME OneEngine, OneInv, NEW x \in Process, Clear(x)
  PROVE  OneStep
<1> DEFINE w == worker[x]
<1>1. /\ Branches /\ GuardsOK /\ w \in Worker /\ Known(w) /\ Informed(w)
      /\ w.pc = "clear"
  BY WhatItKnows DEF Clear
<1>2. \A v \in Tips : ~ Held(v)
  BY <1>1 DEF Informed, HasReleased
<1>3. CASE Stop(x)
  BY <1>3, StopOne
<1>4. CASE CellOf(w).state = "terminal" /\ WriteOperations(x, IdleCell, Idle, {Idle})
  <2>1. IdleCell \in OwnedCell /\ IdleCell.state = "idle"
    BY DEF IdleCell, OwnedCell, Cell
  <2>2. ASSUME Len(operations) = w.o PROVE CellFits(IdleCell)
    <3>1. CellNow \in Cells /\ CellNow.state = "terminal"
      BY <1>1, <1>4, <2>2, HeadsFit, AtTheHeads
    <3>2. ASSUME NEW v \in Tips PROVE Bound(IdleCell, v)
      <4>1. ~ Held(v) /\ v.marker = None
        BY <1>1, <1>2, <3>1, WhatBoundSays DEF GuardsOK, GuardsBound
      <4> QED BY <2>1, <4>1 DEF Bound, CrossBound, Held
    <3>3. Truthful(IdleCell) /\ Becomes(CellNow, IdleCell)
      BY <2>1, <3>1 DEF Truthful, Becomes
    <3> QED BY <3>1, <3>2, <3>3 DEF CellFits
  <2>3. PICK quit : quit = {Idle} /\ \A v \in quit : Blank(v)
    BY SnapshotsAreBlank
  <2>4. KnowsAll(Idle)'
    BY SnapshotsAreBlank, BlankKnowsNext
  <2>5. WriteOperations(x, IdleCell, Idle, quit)
    BY <1>4, <2>3
  <2> QED BY <2>1, <2>2, <2>3, <2>4, <2>5, WriteOperationsOne
<1> QED BY <1>3, <1>4 DEF Clear, CanClear

-----------------------------------------------------------------------------
(* Every step keeps the invariant, which holds at first.                   *)

LEMMA OneNext ==
  ASSUME OneEngine PROVE OneInv /\ [Next]_vars => OneInv' /\ BranchesMove
<1> SUFFICES ASSUME OneInv, [Next]_vars PROVE OneInv' /\ BranchesMove
  OBVIOUS
<1>1. PInv'
  BY NextHolds DEF OneInv
<1>2. ASSUME NEW x \in Process, Reconcile(x) PROVE OneStep
  BY <1>2, StartOne, ReadEventsOne, ReadDerivedOne, ReadOperationsOne, ReadCoverageOne,
     RecoverOne, AcquireFenceOne, OpenMarkerOne, AppendReturnsOne, DiscoverLandedOne,
     FindOne, MissFactsOne, ClaimAppendOne, UpdateEventsOne, SettleOne, CheckSourceOne,
     PublishCoverageOne, PublishShardsOne, PublishStateOne, CloseMarkerOne,
     TerminateLandedOne, ReleaseFenceOne, ClearOne DEF Reconcile
<1>3. ASSUME Environment PROVE OneStep
  BY <1>3, DeliverOne, SuccessCheckOne, CompeteOne DEF Environment
<1>4. ASSUME Next PROVE OneStep
  BY <1>2, <1>3, <1>4, StartOne, PrepareOne, CrashOne DEF Next
<1>5. ASSUME UNCHANGED vars PROVE OneStep
  <2>1. /\ UNCHANGED branches /\ late' = late /\ UNCHANGED <<branches, late>>
        /\ UNCHANGED worker /\ Branches
    BY <1>5 DEF vars, branches, OneInv, PInv, IInv
  <2>2. GuardsOK'
    BY <2>1, LateEventKeepsGuards DEF OneInv
  <2>3. \A w : FitsNow(w) /\ KnowsAll(w) => KnowsAll(w)'
    BY <2>1, NothingKeepsKnowledge
  <2>4. BranchesMove
    BY <2>1 DEF BranchesMove
  <2> QED BY <2>1, <2>2, <2>3, <2>4, OnlyProcessStays DEF OneStep, OneHolds, OneInv
<1> QED BY <1>1, <1>4, <1>5 DEF OneInv, OneStep, OneHolds

(* The connected project: nothing in flight, complete over no event.       *)
LEMMA OneStarts == Init => OneInv
<1> SUFFICES ASSUME Init PROVE OneInv
  OBVIOUS
<1>1. PInv /\ Branches
  BY PublicationStarts DEF PInv, IInv
<1>2. /\ Len(events) = 0 /\ Len(operations) = 1 /\ Len(coverage) = 1 /\ Len(derived) = 1
      /\ CellNow = IdleCell
      /\ Tip = [fence |-> IdleFence(0), marker |-> None, src |-> 0]
      /\ PrivateNow = [gen |-> 0, sealed |-> TRUE]
  BY DEF Init, CellNow, Tip, PrivateNow
<1>3. Cells = {CellNow} /\ Tips = {Tip} /\ Privates = {PrivateNow}
      /\ late.derived = {} /\ late.operations = {} /\ late.coverage = {}
  BY DEF Init, NothingLate, Cells, Tips, Privates
<1>4. CellNow.state = "idle" /\ ~ Held(Tip) /\ Tip.marker = None /\ Tip.src = 0
  BY <1>2 DEF IdleCell, IdleFence, Held
<1>5. Sealed(0) = PrivateNow
  <2>1. {i \in 1..0 : events[i] \in Private} = {}
    OBVIOUS
  <2>2. {0} \subseteq 0..0 /\ {0} # {}
    OBVIOUS
  <2>3. Max({0}) \in {0}
    BY <2>2, MaxChosen
  <2>4. Generation(0) = 0
    BY <2>1, <2>3 DEF Generation
  <2> QED BY <1>2, <2>4 DEF Sealed
<1>6. NamesExist
  BY <1>2, <1>3, <1>4 DEF NamesExist, Named, Tip
<1>7. GuardsBound
  BY <1>3, <1>4 DEF GuardsBound, Bound, CrossBound, Held
<1>8. CellsOK /\ OpenedStays
  BY <1>3, <1>4 DEF CellsOK, Truthful, OpenedStays, Opened
<1>9. TipsOK
  BY <1>2, <1>3, <1>4, <1>5 DEF TipsOK, Complete
<1>10. LateIncomplete(Len(events))
  BY <1>3 DEF LateIncomplete
<1>11. OneKnows
  <2>1. \A x \in Process : worker[x] = Idle
    BY DEF Init
  <2> QED BY <2>1, SnapshotsAreBlank, BlankKnows DEF OneKnows
<1> QED BY <1>1, <1>6, <1>7, <1>8, <1>9, <1>10, <1>11 DEF OneInv, GuardsOK

-----------------------------------------------------------------------------
(* What follows of the branches as a reader finds them.                    *)

LEMMA BoundNow == ASSUME OneInv PROVE GuardsCrossBound
<1>1. Bound(CellNow, Tip)
  BY HeadsFit DEF OneInv, PInv, IInv, GuardsOK, GuardsBound
<1> QED BY <1>1 DEF Bound, GuardsCrossBound

LEMMA TerminalNow == ASSUME OneInv PROVE TerminalIsFinal
<1>1. Branches /\ Facts /\ PInv
  BY DEF OneInv, PInv, IInv
<1>2. Truthful(CellNow)
  BY <1>1, HeadsFit DEF OneInv, GuardsOK, CellsOK
<1>3. DOMAIN events = 1..Len(events)
  BY <1>1 DEF Branches
<1>4. ASSUME CellNow.state = "terminal", CellNow.op \in late.events PROVE FALSE
  <2>1. CellNow.op \notin Competitor
    BY <1>2, <1>4 DEF Truthful
  <2>2. IsOfClaim(CellNow.op)
    BY <1>1, <1>4, <2>1, LateFit DEF OneInv, EventFits
  <2> QED BY <1>4, <2>2 DEF IsOfClaim
<1>5. ASSUME NEW x \in Process, CellNow.state = "terminal",
             worker[x].pc = "publish-event", worker[x].e = Len(events)
      PROVE  FALSE
  BY <1>1, <1>5, PublisherClaims DEF IsOfClaim
<1> QED BY <1>2, <1>3, <1>4, <1>5 DEF Truthful, HasEvent, TerminalIsFinal

LEMMA CoveredNow == ASSUME OneInv PROVE LandedIsCovered
<1> SUFFICES ASSUME ~ Held(Tip), NEW i \in DOMAIN events, events[i] \notin Competitor
             PROVE  /\ i <= Tip.src
                    /\ events[i] \in Private => i <= PrivateNow.gen /\ PrivateNow.sealed
  BY DEF LandedIsCovered, Held
<1>1. Branches /\ Facts
  BY DEF OneInv, PInv, IInv
<1>2. Complete(Tip)
  BY <1>1, HeadsFit DEF OneInv, GuardsOK, TipsOK
<1>3. i \in 1..Len(events)
  BY <1>1 DEF Branches
<1>4. i <= Tip.src /\ PrivateNow = Sealed(Tip.src)
  BY <1>1, <1>2, <1>3, HeadsFit DEF Complete, Own
<1>5. Tip.src \in Nat
  BY <1>1, HeadsFit, SourcesFit
<1>6. ASSUME events[i] \in Private PROVE i <= Generation(Tip.src)
  <2> DEFINE S == {0} \union {j \in 1..Tip.src : events[j] \in Private}
  <2>1. i \in S
    BY <1>3, <1>4, <1>5, <1>6
  <2>2. S \subseteq 0..Tip.src /\ S # {}
    BY <1>5
  <2>3. \A j \in S : j <= Max(S)
    BY <1>5, <2>2, MaxChosen
  <2> QED BY <2>1, <2>3 DEF Generation
<1> QED BY <1>4, <1>6 DEF Sealed

(* One engine at a time, whatever crashes it and whatever is applied late: *)
(* at every moment the cell, the fence, its preparation and the marker     *)
(* name one owner, so that load_guards_async never refuses to resume.      *)
THEOREM OwnersStayOne == ASSUME OneEngine PROVE Spec => []GuardsCrossBound
<1>1. OneInv => GuardsCrossBound
  BY BoundNow
<1> QED BY <1>1, OneStarts, OneNext, PTL DEF Spec

(* ... a terminal cell tells the truth about canonical history, and no     *)
(* write in flight nor any publisher can make it lie.                      *)
THEOREM ResultsAreFinal == ASSUME OneEngine PROVE Spec => []TerminalIsFinal
<1>1. OneInv => TerminalIsFinal
  BY TerminalNow
<1> QED BY <1>1, OneStarts, OneNext, PTL DEF Spec

(* ... and the fence of authoritative checks is open only over projections *)
(* that cover every event an engine has landed.                            *)
THEOREM OpenFenceIsCovered == ASSUME OneEngine PROVE Spec => []LandedIsCovered
<1>1. OneInv => LandedIsCovered
  BY CoveredNow
<1> QED BY <1>1, OneStarts, OneNext, PTL DEF Spec

-----------------------------------------------------------------------------
(* Without other writers nothing lands but what the claim in the cell      *)
(* names, and the projection covers all of it or all but its event.        *)

Claiming ==
  \/ CellNow.state = "prepared"
  \/ CellNow.state = "appending" /\ ~ HasEvent(CellNow.op)

CoversAllButOne ==
  /\ Len(events) <= Tip.src + 1
  /\ Claiming => Tip.src = Len(events)


CoverInv == OneInv /\ CoversAllButOne

(* Over an open fence the projection covers everything.                    *)
OpenCovers ==
  /\ Len(events) \in Nat /\ Tip.src \in 0..Len(events)
  /\ ~ Held(Tip) => Tip.src = Len(events)

LEMMA OpenCoversAll == ASSUME Competitor = {} PROVE OneInv => OpenCovers
<1> SUFFICES ASSUME OneInv PROVE OpenCovers
  OBVIOUS
<1>1. Branches /\ Facts
  BY DEF OneInv, PInv, IInv
<1>2. Len(events) \in Nat /\ Tip.src \in 0..Len(events)
  BY <1>1, HeadsFit, SourcesFit
<1>3. ASSUME ~ Held(Tip), Len(events) # 0 PROVE Len(events) <= Tip.src
  <2>1. Complete(Tip)
    BY <1>1, <1>3, HeadsFit DEF OneInv, GuardsOK, TipsOK
  <2>2. Own(Len(events)) /\ Len(events) \in 1..Len(events)
    BY <1>2, <1>3 DEF Own
  <2> QED BY <2>1, <2>2 DEF Complete
<1> QED BY <1>2, <1>3 DEF OpenCovers

LEMMA CoverKept ==
  ASSUME OneEngine, Competitor = {}, CoverInv, [Next]_vars
  PROVE  /\ CoverInv'
         /\ [Gate!Next]_<<events, Tip.src, Tip.fence.state>>
<1> DEFINE Kept == CoversAllButOne' /\ [Gate!Next]_<<events, Tip.src, Tip.fence.state>>
<1>1. /\ OneInv /\ OneInv' /\ BranchesMove /\ Advances /\ CoversAllButOne
      /\ Branches /\ GuardsOK
  BY OneNext, NextHolds DEF CoverInv, OneInv, StepHolds, PInv, IInv
<1> SUFFICES Kept
  BY <1>1 DEF CoverInv
<1>2. /\ Len(events) \in Nat /\ Tip.src \in 0..Len(events)
      /\ ~ Held(Tip) => Tip.src = Len(events)
  BY <1>1, OpenCoversAll DEF OpenCovers
<1>3. /\ Tip \in Coverage /\ Tip \in Tips /\ CellNow \in Cells
      /\ Tip.fence.state \in {"idle", "mutation", "success_reserved"}
  BY <1>1, HeadsFit DEF Coverage, Fence
<1>4. CASE UNCHANGED <<events, coverage>> /\ CellNow' = CellNow
  <2>1. Tip' = Tip
    BY <1>4 DEF Tip
  <2> QED BY <1>1, <1>4, <2>1 DEF CoversAllButOne, Claiming, HasEvent
<1>5. CASE EventMoves
  <2>1. PICK op \in Operation : IsOfClaim(op) /\ ~ HasEvent(op) /\ AppendEvents(op)
    BY <1>5 DEF EventMoves, EventFits
  <2>2. /\ Tip' = Tip /\ CellNow' = CellNow /\ events' = Append(events, op)
        /\ Len(events') = Len(events) + 1 /\ events'[Len(events) + 1] = op
    BY <1>1, <2>1, AfterEvents DEF AppendEvents
  <2>3. Held(Tip) /\ CellNow.state = "appending" /\ CellNow.op = op
    BY <1>1, <1>3, <2>1, ClaimIsGuarded
  <2>4. Tip.src = Len(events)
    BY <1>1, <2>1, <2>3 DEF CoversAllButOne, Claiming
  <2>5. ~ Claiming'
    BY <1>2, <2>2, <2>3 DEF Claiming, HasEvent
  <2>6. Gate!Land(op)
    BY <2>2, <2>3 DEF Gate!Land, Held
  <2> QED BY <1>2, <2>1, <2>2, <2>4, <2>5, <2>6 DEF CoversAllButOne, Gate!Next
<1>6. CASE CellMoves
  <2>1. PICK put \in OwnedCell : Becomes(CellNow, put) /\ AppendOperations(put)
    BY <1>6 DEF CellMoves, CellFits
  <2>2. Tip' = Tip /\ CellNow' = put /\ UNCHANGED events
    BY <1>1, <2>1, AfterOperations
  <2>3. CellNow.state = "idle" => ~ Held(Tip)
    <3>1. Bound(CellNow, Tip)
      BY <1>1, <1>3 DEF GuardsOK, GuardsBound
    <3> QED BY <3>1, WhatBoundSays
  <2>4. Claiming' => Claiming \/ CellNow.state = "idle"
    BY <2>1, <2>2 DEF Becomes, Claiming, HasEvent
  <2> QED BY <1>1, <1>2, <2>2, <2>3, <2>4 DEF CoversAllButOne
<1>7. CASE TipMoves
  <2>1. PICK put \in Coverage : TipFits(put) /\ GateMoves(put) /\ AppendCoverage(put)
    BY <1>7 DEF TipMoves
  <2>2. Tip' = put /\ CellNow' = CellNow /\ UNCHANGED events
    BY <1>1, <2>1, AfterCoverage
  <2>3. Tip.src <= put.src /\ put.src \in 0..Len(events)
    <3>1. OpenCovers'
      BY <1>1, OpenCoversAll, PTL
    <3> QED BY <1>1, <2>2, <3>1 DEF Advances, OpenCovers
  <2>4. CoversAllButOne'
    BY <1>1, <1>2, <2>2, <2>3 DEF CoversAllButOne, Claiming, HasEvent
  <2>5. put.fence.state \in {"idle", "mutation", "success_reserved"}
    BY <2>1 DEF Coverage, Fence
  <2>6. CASE ~ Held(Tip)
    BY <1>3, <2>1, <2>2, <2>4, <2>5, <2>6
       DEF TipFits, GateMoves, Reserved, Held, Gate!Next, Gate!Enter, Gate!Reserve, Gate!Confirm
  <2>7. CASE Held(Tip) /\ Held(put)
    <3>1. put.src = Tip.src \/ put.src = Len(events)
      BY <1>1, <1>2, <2>3 DEF CoversAllButOne
    <3> QED BY <2>2, <2>4, <2>7, <3>1 DEF Held, Gate!Next, Gate!Cover
  <2>8. CASE Held(Tip) /\ ~ Held(put)
    <3>1. put.src = Tip.src /\ put.fence.state = "idle"
      BY <2>1, <2>5, <2>8 DEF TipFits, GateMoves, Reserved, Held
    <3>2. Tip.src = Len(events)
      <4>1. OpenCovers'
        BY <1>1, OpenCoversAll, PTL
      <4> QED BY <2>2, <2>8, <3>1, <4>1 DEF OpenCovers, Held
    <3> QED BY <2>2, <2>4, <2>8, <3>1, <3>2 DEF Held, Gate!Next, Gate!Leave
  <2> QED BY <2>4, <2>6, <2>7, <2>8
<1>8. CASE UNCHANGED branches
  BY <1>4, <1>8 DEF branches, CellNow
<1>9. CASE PrivateMoves
  <2>1. PICK put \in Derived : AppendDerived(put)
    BY <1>9 DEF PrivateMoves
  <2> QED BY <1>1, <1>4, <2>1, AfterDerived
<1> QED BY <1>1, <1>5, <1>6, <1>7, <1>8, <1>9 DEF BranchesMove

LEMMA CoverStarts == Init => CoverInv /\ Gate!Init
<1> SUFFICES ASSUME Init PROVE CoverInv /\ Gate!Init
  OBVIOUS
<1>1. OneInv
  BY OneStarts
<1>2. /\ events = <<>> /\ Tip.src = 0 /\ Tip.fence.state = "idle" /\ CellNow.state = "idle"
  BY DEF Init, Tip, CellNow, IdleFence, IdleCell
<1> QED BY <1>1, <1>2 DEF CoverInv, CoversAllButOne, Claiming, Gate!Init

(* ... and, where nothing else writes canonical history, the engine keeps  *)
(* the promise DecisionGate makes to an authoritative check, step by step. *)
THEOREM EngineKeepsTheGate ==
  ASSUME OneEngine, Competitor = {} PROVE Spec => GateSpec
<1>1. CoverInv /\ [Next]_vars => CoverInv' /\ [Gate!Next]_<<events, Tip.src, Tip.fence.state>>
  BY CoverKept
<1> QED BY <1>1, CoverStarts, PTL DEF Spec, GateSpec, Gate!Spec

(* An engine publishes an operation only while the in-flight marker, which *)
(* readers of the coverage repository see, names it.                       *)
THEOREM MarkedWhenAppended == ASSUME OneEngine PROVE Spec => AppendUnderMarker
<1> DEFINE Marked == \A op \in Operation \ Competitor :
                       events' = Append(events, op) => Tip.marker = op
<1>1. ASSUME OneInv, [Next]_vars PROVE [Marked]_events
  <2>1. BranchesMove /\ Branches /\ GuardsOK
    BY <1>1, OneNext DEF OneInv, PInv, IInv
  <2>2. CASE EventMoves
    <3>1. PICK put \in Operation : EventFits(put) /\ AppendEvents(put)
      BY <2>2 DEF EventMoves
    <3>2. ASSUME NEW op \in Operation \ Competitor, events' = Append(events, op)
          PROVE  Tip.marker = op
      <4>1. op = put
        <5>1. events'[Len(events) + 1] = put
          BY <2>1, <3>1, AfterEvents
        <5>2. Append(events, op)[Len(events) + 1] = op
          BY <2>1 DEF Branches
        <5> QED BY <3>2, <5>1, <5>2
      <4> QED BY <2>1, <3>1, <4>1, <3>2, ClaimIsGuarded, HeadsFit DEF EventFits
    <3> QED BY <3>2
  <2>3. CASE UNCHANGED branches \/ CellMoves \/ TipMoves \/ PrivateMoves
    BY <2>3 DEF branches, CellMoves, TipMoves, PrivateMoves, AppendOperations,
                AppendCoverage, AppendDerived
  <2> QED BY <2>1, <2>2, <2>3 DEF BranchesMove
<1>2. OneInv /\ [Next]_vars => [Marked]_events
  BY <1>1
<1> QED BY <1>2, OneStarts, OneNext, PTL DEF Spec, AppendUnderMarker

-----------------------------------------------------------------------------
(* A claim names the head its event extends: each renewal is of a later    *)
(* head, and while an event is in flight its parent is the head.           *)

Claims == {cell \in Cells : cell.state = "appending"}

ClaimsHead ==
  /\ late.events \subseteq Operation \ Competitor
  /\ late.events # {} => \A cell \in Claims : cell.head = Len(events)
  /\ \A cell \in Claims : cell.head <= Len(events)
  /\ CellNow \in Claims =>
       \A put \in late.operations \intersect Claims : CellNow.head < put.head

(* What the process knows of them: it renews only claims of older heads.   *)
HeadKnown(w) ==
  /\ HasE(w) => /\ late.events # {} => w.e = Len(events)
                /\ \A cell \in Claims : cell.head <= w.e
  /\ HasO(w) /\ CellOf(w).state = "appending" =>
       \A cell \in Claims : cell = CellOf(w) \/ CellOf(w).head < cell.head
  /\ w.pc = "publish-event" => \A cell \in Claims : cell.head = w.e

HeadsKnown == \A x \in Process : HeadKnown(worker[x])

HeadInv == OneInv /\ ClaimsHead /\ HeadsKnown


(* Where a step takes the process, and what it does to cell and events.    *)
PlaceMoves(w, v) ==
  /\ HasE(v) => v.e = Len(events) \/ (HasE(w) /\ v.e = w.e)
  /\ HasO(v) => v.o = Len(operations') \/ (HasO(w) /\ v.o = w.o)
  /\ v.pc = "publish-event" =>
       /\ HasE(v) /\ HasO(v)
       /\ operations'[v.o].state = "appending" /\ operations'[v.o].head = v.e

Renews(w, put) ==
  /\ HasE(w) /\ put.head <= w.e /\ CellNow = CellOf(w)
  /\ CellNow.state = "appending" => put.head = w.e /\ CellNow.head # w.e

CellStep(w) ==
  \/ UNCHANGED operations /\ late'.operations = late.operations
  \/ \E put \in OwnedCell :
       /\ put.state = "appending" => Renews(w, put)
       /\ \/ AppendOperations(put)
          \/ /\ UNCHANGED branches
             /\ late' = [late EXCEPT !.operations = @ \union {put}]

EventStep(w) ==
  \/ UNCHANGED events /\ late'.events = late.events
  \/ /\ w.pc = "publish-event" /\ Len(events) = w.e
     /\ \/ AppendEvents(CellOf(w).op)
        \/ /\ UNCHANGED branches
           /\ late' = [late EXCEPT !.events = @ \union {CellOf(w).op}]

HeadStep(x) ==
  /\ \E v : Step(x, v) /\ PlaceMoves(worker[x], v)
  /\ CellStep(worker[x]) /\ EventStep(worker[x])

(* What the process knew stays true of the claims there are then.          *)
HeadStays(w) ==
  /\ \A cell \in Claims' : cell.head <= Len(events) /\ (HasE(w) => cell.head <= w.e)
  /\ late'.events # {} => UNCHANGED events /\ (HasE(w) => w.e = Len(events))
  /\ HasO(w) /\ CellOf(w).state = "appending" =>
       \A cell \in Claims' : cell = CellOf(w) \/ CellOf(w).head < cell.head
  /\ operations'[w.o] = CellOf(w)

(* An event in flight is of the claim in every cell.                       *)
LEMMA InFlightIsClaimed ==
  ASSUME OneInv, ClaimsHead, late.events # {}
  PROVE  \A cell \in Cells : cell.state = "appending"
<1>1. Branches /\ Facts /\ GuardsOK
  BY DEF OneInv, PInv, IInv
<1>2. PICK op \in late.events : op \in Operation \ Competitor
  BY DEF ClaimsHead
<1>3. IsOfClaim(op) /\ ~ HasEvent(op)
  BY <1>1, <1>2, LateFit DEF EventFits
<1> QED BY <1>1, <1>2, <1>3, ClaimIsGuarded

(* A write of the cell leaves what is known of the claims.                 *)
LEMMA CellStepKeepsHeads ==
  ASSUME OneInv, ClaimsHead, NEW w, FitsNow(w), HeadKnown(w),
         CellStep(w), UNCHANGED events, late'.events = late.events
  PROVE  ClaimsHead' /\ HeadStays(w)
<1>1. Branches /\ CellNow \in Cells /\ Cells \subseteq OwnedCell /\ Len(events) \in Nat
      /\ w.e \in 0..Len(events) /\ w.o \in 1..Len(operations)
  BY HeadsFit DEF OneInv, PInv, IInv, FitsNow, Fits
<1>2. \A cell \in OwnedCell : cell.head \in Nat
  BY DEF OwnedCell, Cell
<1>3. CASE UNCHANGED operations /\ late'.operations = late.operations
  <2>1. Cells' = Cells /\ CellNow' = CellNow
    BY <1>3 DEF Cells, CellNow
  <2>2. Claims' = Claims
    BY <2>1 DEF Claims
  <2> QED BY <1>1, <1>2, <1>3, <2>1, <2>2
          DEF ClaimsHead, HeadStays, HeadKnown, Claims, CellOf
<1>4. ASSUME NEW put \in OwnedCell, put.state = "appending" => Renews(w, put),
             \/ AppendOperations(put)
             \/ UNCHANGED branches /\ late' = [late EXCEPT !.operations = @ \union {put}]
      PROVE  ClaimsHead' /\ HeadStays(w)
  <2>1. ASSUME put.state = "appending"
        PROVE  /\ HasE(w) /\ put.head <= w.e /\ CellNow = CellOf(w)
               /\ CellNow \in Claims => CellNow.head < put.head /\ put.head = w.e
               /\ late.events # {} => put.head = Len(events)
    <3>1. HasE(w) /\ put.head <= w.e /\ CellNow = CellOf(w)
          /\ (CellNow.state = "appending" => put.head = w.e /\ CellNow.head # w.e)
      BY <1>4, <2>1 DEF Renews
    <3>2. CellNow \in Claims => CellNow.head <= w.e
      BY <3>1 DEF HeadKnown
    <3>3. late.events # {} => CellNow.state = "appending" /\ w.e = Len(events)
      BY <1>1, <3>1, InFlightIsClaimed DEF HeadKnown
    <3> QED BY <1>1, <1>2, <3>1, <3>2, <3>3 DEF Claims
  <2>2. operations'[w.o] = CellOf(w)
    BY <1>1, <1>4, AfterOperations DEF branches, CellOf
  <2>3. /\ late'.operations = {} \/ (/\ CellNow' = CellNow
                                     /\ late'.operations = late.operations \union {put})
        /\ \A cell \in Claims' : cell \in Claims \/ (cell = put /\ put.state = "appending")
        /\ CellNow' \in Claims' => CellNow'.state = "appending"
    <3>1. CASE AppendOperations(put)
      <4>1. Cells' = {put} /\ CellNow' = put /\ late'.operations = {}
        BY <1>1, <3>1, AfterOperations
      <4> QED BY <4>1 DEF Claims
    <3>2. CASE UNCHANGED branches /\ late' = [late EXCEPT !.operations = @ \union {put}]
      <4>1. CellNow' = CellNow /\ late'.operations = late.operations \union {put}
        BY <1>1, <3>2 DEF branches, CellNow, Branches, LateFits, LateWrites
      <4>2. Cells' = Cells \union {put}
        BY <4>1 DEF Cells
      <4> QED BY <4>1, <4>2 DEF Claims
    <3> QED BY <1>4, <3>1, <3>2
  <2>4. \A cell \in Claims' :
          /\ cell.head <= Len(events) /\ (HasE(w) => cell.head <= w.e)
          /\ late.events # {} => cell.head = Len(events)
    BY <1>1, <1>2, <2>1, <2>3 DEF ClaimsHead, HeadKnown, Claims
  <2>5. CellNow' \in Claims' =>
          \A p \in late'.operations \intersect Claims' : CellNow'.head < p.head
    <3> SUFFICES ASSUME CellNow' = CellNow, late'.operations = late.operations \union {put},
                        CellNow' \in Claims',
                        NEW p \in late'.operations \intersect Claims'
                 PROVE  CellNow.head < p.head
      BY <2>3
    <3>1. CellNow \in Claims
      BY <1>1, <2>3 DEF Claims
    <3>2. CASE p \in late.operations /\ p \in Claims
      BY <3>1, <3>2 DEF ClaimsHead
    <3>3. CASE p = put /\ put.state = "appending"
      BY <2>1, <3>1, <3>3
    <3>4. p \in late.operations \/ p = put
      OBVIOUS
    <3>5. p.state = "appending"
      BY DEF Claims
    <3>6. p \in late.operations => p \in Claims
      BY <3>5 DEF Claims, Cells
    <3> QED BY <3>2, <3>3, <3>4, <3>5, <3>6
  <2>6. ClaimsHead'
    BY <2>4, <2>5 DEF ClaimsHead
  <2>7. ASSUME HasO(w), CellOf(w).state = "appending", NEW cell \in Claims'
        PROVE  cell = CellOf(w) \/ CellOf(w).head < cell.head
    <3>1. CASE cell \in Claims
      BY <2>7, <3>1 DEF HeadKnown
    <3>2. CASE cell = put /\ put.state = "appending"
      BY <1>1, <2>1, <2>7, <3>2 DEF Claims
    <3> QED BY <2>3, <3>1, <3>2
  <2>8. late.events # {} => (HasE(w) => w.e = Len(events))
    BY DEF HeadKnown
  <2> QED BY <2>2, <2>4, <2>6, <2>7, <2>8 DEF HeadStays
<1> QED BY <1>3, <1>4 DEF CellStep


(* Who may publish extends the head every claim names.                     *)
LEMMA EventStepKeepsHeads ==
  ASSUME OneInv, ClaimsHead, NEW x \in Process, HeadKnown(worker[x]),
         EventStep(worker[x]), UNCHANGED operations, late'.operations = late.operations
  PROVE  ClaimsHead' /\ HeadStays(worker[x])
<1> DEFINE w == worker[x]
<1>1. /\ Branches /\ GuardsOK /\ PInv /\ CellNow \in Cells /\ Len(events) \in Nat
      /\ w.e \in 0..Len(events) /\ w.o \in 1..Len(operations) /\ Cells \subseteq OwnedCell
  BY HeadsFit DEF OneInv, PInv, IInv, FitsNow, Fits
<1>2. Cells' = Cells /\ CellNow' = CellNow
  BY DEF Cells, CellNow
<1>3. Claims' = Claims /\ operations'[w.o] = CellOf(w)
  BY <1>2 DEF Claims, CellOf
<1>4. CASE UNCHANGED events /\ late'.events = late.events
  BY <1>2, <1>3, <1>4 DEF ClaimsHead, HeadStays, HeadKnown
<1>5. ASSUME w.pc = "publish-event", Len(events) = w.e,
             \/ AppendEvents(CellOf(w).op)
             \/ /\ UNCHANGED branches
                /\ late' = [late EXCEPT !.events = @ \union {CellOf(w).op}]
      PROVE  ClaimsHead' /\ HeadStays(w)
  <2>1. PICK op : op = CellOf(w).op
    OBVIOUS
  <2>2. op \in Operation /\ IsOfClaim(op) /\ ~ HasEvent(op)
    BY <1>1, <1>5, <2>1, PublisherClaims
  <2>3. op \notin Competitor
    BY <1>1, <2>2 DEF IsOfClaim, GuardsOK, CellsOK, Truthful
  <2>4. \A cell \in Claims : cell.head = Len(events)
    BY <1>5 DEF HeadKnown
  <2>5. \A cell \in OwnedCell : cell.head \in Nat
    BY DEF OwnedCell, Cell
  <2>6. CASE AppendEvents(op)
    <3>1. late'.events = {} /\ Len(events') = Len(events) + 1
      BY <1>1, <2>2, <2>6, AfterEvents
    <3>2. \A cell \in Claims : cell.head <= Len(events')
      BY <1>1, <2>4, <3>1
    <3> QED BY <1>1, <1>2, <1>3, <2>4, <3>1, <3>2
            DEF ClaimsHead, HeadStays, HeadKnown
  <2>7. CASE UNCHANGED branches /\ late' = [late EXCEPT !.events = @ \union {op}]
    <3>1. late'.events = late.events \union {op} /\ UNCHANGED events
      BY <1>1, <2>7 DEF branches, Branches, LateFits, LateWrites
    <3> QED BY <1>1, <1>2, <1>3, <1>5, <2>2, <2>3, <2>4, <3>1
            DEF ClaimsHead, HeadStays, HeadKnown
  <2> QED BY <1>5, <2>1, <2>6, <2>7
<1> QED BY <1>4, <1>5 DEF EventStep

(* One step of the process keeps all of it.                                *)
LEMMA HeadStepKeeps ==
  ASSUME OneEngine, OneInv, OneInv', ClaimsHead, HeadsKnown, NEW x \in Process, HeadStep(x)
  PROVE  ClaimsHead' /\ HeadsKnown'
<1> DEFINE w == worker[x]
<1>1. /\ Branches /\ FitsNow(w) /\ HeadKnown(w) /\ worker \in [Process -> Worker]
      /\ CellStep(w) /\ EventStep(w)
  BY DEF OneInv, PInv, IInv, HeadsKnown, HeadStep
<1>2. ClaimsHead' /\ HeadStays(w)
  <2>1. CASE UNCHANGED operations /\ late'.operations = late.operations
    BY <1>1, <2>1, EventStepKeepsHeads
  <2>2. CASE UNCHANGED events /\ late'.events = late.events
    BY <1>1, <2>2, CellStepKeepsHeads
  <2>3. CASE \E put \in OwnedCell : \/ AppendOperations(put)
                                    \/ /\ UNCHANGED branches
                                       /\ late' = [late EXCEPT !.operations = @ \union {put}]
    <3>1. UNCHANGED events /\ late'.events = late.events
      BY <1>1, <2>3, AfterOperations DEF branches, Branches, LateFits, LateWrites
    <3> QED BY <2>2, <3>1
  <2> QED BY <1>1, <2>1, <2>3 DEF CellStep
<1>3. PICK v : Step(x, v) /\ PlaceMoves(w, v)
  BY DEF HeadStep
<1>4. worker'[x] = v /\ \A y \in Process : y = x
  BY <1>1, <1>3 DEF Step, OneEngine
<1>5. HasE(v) =>
        /\ late'.events # {} => v.e = Len(events')
        /\ \A cell \in Claims' : cell.head <= v.e
  BY <1>2, <1>3 DEF PlaceMoves, HeadStays
<1>6. ASSUME HasO(v), operations'[v.o].state = "appending", NEW cell \in Claims'
      PROVE  cell = operations'[v.o] \/ operations'[v.o].head < cell.head
  <2>1. CASE v.o = Len(operations')
    <3>1. CellNow' = operations'[v.o] /\ CellNow' \in Claims'
      BY <1>6, <2>1 DEF CellNow, Claims, Cells
    <3>2. cell = CellNow' \/ cell \in late'.operations
      BY DEF Claims, Cells
    <3> QED BY <1>2, <3>1, <3>2 DEF ClaimsHead
  <2>2. CASE HasO(w) /\ v.o = w.o
    BY <1>2, <1>6, <2>2 DEF HeadStays
  <2> QED BY <1>3, <1>6, <2>1, <2>2 DEF PlaceMoves
<1>7. ASSUME v.pc = "publish-event", NEW cell \in Claims' PROVE cell.head = v.e
  <2>1. /\ cell.head <= v.e
        /\ cell = operations'[v.o] \/ operations'[v.o].head < cell.head
        /\ operations'[v.o].head = v.e
    BY <1>3, <1>5, <1>6, <1>7 DEF PlaceMoves
  <2>2. cell.head \in Nat /\ v.e \in Nat
    <3>1. (Branches => Cells \subseteq OwnedCell)'
      BY HeadsFit, PTL
    <3>2. Branches' /\ worker' \in [Process -> Worker]
      BY DEF OneInv, PInv, IInv
    <3>3. cell \in OwnedCell /\ v \in Worker
      BY <1>4, <1>7, <3>1, <3>2 DEF Claims
    <3> QED BY <3>3 DEF OwnedCell, Cell, Worker
  <2> QED BY <2>1, <2>2
<1>8. HeadKnown(v)'
  BY <1>5, <1>6, <1>7 DEF HeadKnown, CellOf, HasE, HasO, Knowing
<1> QED BY <1>2, <1>4, <1>8 DEF HeadsKnown


-----------------------------------------------------------------------------
(* Every step of the process is such a step. *)

Continues(w, v) ==
  /\ HasE(v) => HasE(w) /\ v.e = w.e
  /\ HasO(v) => HasO(w) /\ v.o = w.o
  /\ v.pc # "publish-event"

LEMMA FreshContinues ==
  /\ \A w, v : Fresh(v) => Continues(w, v)
  /\ Fresh(Idle)
  /\ \A task, ref : task # "refresh" => Fresh(Snapshot(task, ref))
  /\ \A w : \A v \in Retried(w) : Fresh(v)
BY SnapshotsAreBlank DEF Fresh, Blank, Continues, HasE, HasO, Knowing, Snapshot, Idle

LEMMA OnwardContinues ==
  ASSUME NEW w, HasO(w), NEW v, v.e = w.e, v.o = w.o, v.pc # "publish-event"
  PROVE  Continues(w, v)
BY DEF Continues, HasE, HasO, Knowing

LEMMA HeadContinue ==
  ASSUME NEW x \in Process, NEW v, Continue(x, v), PlaceMoves(worker[x], v)
  PROVE  HeadStep(x)
BY DEF Continue, branches, HeadStep, CellStep, EventStep

LEMMA HeadLocal ==
  ASSUME NEW x \in Process, NEW v, Continue(x, v), Continues(worker[x], v)
  PROVE  HeadStep(x)
<1>1. PlaceMoves(worker[x], v)
  BY DEF PlaceMoves, Continues
<1> QED BY <1>1, HeadContinue

LEMMA HeadStop == ASSUME NEW x \in Process, Stop(x) PROVE HeadStep(x)
<1>1. Continue(x, Idle)
  BY DEF Stop, Continue
<1> QED BY <1>1, FreshContinues, HeadLocal

(* A write of one of the other two branches.                               *)
LEMMA HeadCoverage ==
  ASSUME OneInv, NEW x \in Process, NEW put, NEW v, Continues(worker[x], v),
         WriteCoverage(x, put, v)
  PROVE  HeadStep(x)
<1>1. Branches
  BY DEF OneInv, PInv, IInv
<1>2. UNCHANGED <<events, operations>>
      /\ late'.events = late.events /\ late'.operations = late.operations
  BY <1>1 DEF WriteCoverage, LoseOrRefuse, AppendCoverage, branches, Branches, LateFits,
              LateWrites
<1>3. Step(x, v) \/ Step(x, Idle)
  BY DEF WriteCoverage, LoseOrRefuse
<1>4. PlaceMoves(worker[x], v) /\ PlaceMoves(worker[x], Idle)
  BY FreshContinues DEF PlaceMoves, Continues
<1> QED BY <1>2, <1>3, <1>4 DEF HeadStep, CellStep, EventStep

LEMMA HeadDerived ==
  ASSUME OneInv, NEW x \in Process, NEW put, NEW v, Continues(worker[x], v),
         WriteDerived(x, put, v)
  PROVE  HeadStep(x)
<1>1. Branches
  BY DEF OneInv, PInv, IInv
<1>2. UNCHANGED <<events, operations>>
      /\ late'.events = late.events /\ late'.operations = late.operations
  BY <1>1 DEF WriteDerived, LoseOrRefuse, AppendDerived, branches, Branches, LateFits,
              LateWrites
<1>3. Step(x, v) \/ Step(x, Idle)
  BY DEF WriteDerived, LoseOrRefuse
<1>4. PlaceMoves(worker[x], v) /\ PlaceMoves(worker[x], Idle)
  BY FreshContinues DEF PlaceMoves, Continues
<1> QED BY <1>2, <1>3, <1>4 DEF HeadStep, CellStep, EventStep

(* A write of the cell.                                                    *)
LEMMA HeadOperations ==
  ASSUME OneInv, NEW x \in Process, NEW put \in OwnedCell, NEW v, NEW onFailure,
         \A w \in onFailure : Fresh(w),
         Len(operations) = worker[x].o /\ put.state = "appending" => Renews(worker[x], put),
         Len(operations) = worker[x].o /\ AppendOperations(put) => PlaceMoves(worker[x], v),
         WriteOperations(x, put, v, onFailure)
  PROVE  HeadStep(x)
<1> DEFINE w == worker[x]
<1>1. Branches
  BY DEF OneInv, PInv, IInv
<1>2. CASE Len(operations) = w.o /\ AppendOperations(put) /\ Step(x, v)
  <2>1. UNCHANGED events /\ late'.events = late.events
    BY <1>1, <1>2, AfterOperations
  <2> QED BY <1>2, <2>1 DEF HeadStep, CellStep, EventStep
<1>3. CASE LoseOrRefuse(x, Len(operations) = w.o,
             [late EXCEPT !.operations = @ \union {put}], onFailure)
  <2>1. PICK f \in onFailure : Step(x, f)
    BY <1>3 DEF LoseOrRefuse
  <2>2. PlaceMoves(w, f)
    BY <2>1, FreshContinues DEF PlaceMoves, Continues
  <2>3. /\ UNCHANGED branches
        /\ \/ late' = late
           \/ /\ Len(operations) = w.o
              /\ late' = [late EXCEPT !.operations = @ \union {put}]
    BY <1>3 DEF LoseOrRefuse
  <2>4. late'.events = late.events /\ UNCHANGED <<events, operations>>
    BY <1>1, <2>3 DEF branches, Branches, LateFits, LateWrites
  <2> QED BY <2>1, <2>2, <2>3, <2>4 DEF HeadStep, CellStep, EventStep
<1> QED BY <1>2, <1>3 DEF WriteOperations

(* A cell that becomes none of a claim.                                    *)
LEMMA HeadUnclaimed ==
  ASSUME OneInv, NEW x \in Process, NEW put \in OwnedCell, NEW v, NEW onFailure,
         \A w \in onFailure : Fresh(w), put.state # "appending", Continues(worker[x], v),
         WriteOperations(x, put, v, onFailure)
  PROVE  HeadStep(x)
<1>1. PlaceMoves(worker[x], v)
  BY DEF PlaceMoves, Continues
<1> QED BY <1>1, HeadOperations

(* A claim, of a head the process has read.                                *)
LEMMA HeadClaimAt ==
  ASSUME OneInv, NEW x \in Process, NEW head \in Nat, NEW held, NEW written,
         worker[x].pc = "decide", head <= worker[x].e,
         CellOf(worker[x]).state = "appending" => head = worker[x].e,
         /\ CellOf(worker[x]).state = "appending" /\ CellOf(worker[x]).head = head
         /\ UNCHANGED operations
         => PlaceMoves(worker[x], held),
         \A put \in OwnedCell :
           /\ put.state = "appending" /\ put.head = head
           /\ Len(operations) = worker[x].o /\ AppendOperations(put)
           => PlaceMoves(worker[x], written),
         ClaimAt(x, head, held, written)
  PROVE  HeadStep(x)
<1> DEFINE w == worker[x]
<1>1. HasE(w) /\ CellOf(w) \in OwnedCell
  BY WhatItKnows DEF HasE, Knowing
<1>2. PICK put : put = Claimed(CellOf(w), head)
  OBVIOUS
<1>3. /\ put.state = "appending" /\ put.head = head
      /\ Live(CellOf(w)) => put \in OwnedCell
      /\ CellOf(w).state = "appending" /\ CellOf(w).head = head => put = CellOf(w)
  BY <1>1, <1>2 DEF Claimed, Live, OwnedCell, Cell
<1>4. CASE Stop(x)
  BY <1>4, HeadStop
<1>5. CASE put = CellOf(w) /\ Continue(x, held)
  <2>1. UNCHANGED operations
    BY <1>5 DEF Continue, branches
  <2>2. PlaceMoves(w, held)
    BY <1>3, <1>5, <2>1
  <2> QED BY <1>5, <2>2, HeadContinue
<1>6. CASE /\ CanClaim(CellOf(w), FenceOf(w), MarkerOf(w), ReferenceAt(w.ref))
           /\ put # CellOf(w)
           /\ WriteOperations(x, put, written, Retried(w))
  <2>1. put \in OwnedCell
    BY <1>3, <1>6 DEF CanClaim
  <2>2. Len(operations) = w.o => Renews(w, put)
    BY <1>1, <1>3, <1>6, AtTheHeads DEF Renews
  <2>3. PICK retried : retried = Retried(w) /\ \A v \in retried : Fresh(v)
    BY FreshContinues
  <2>4. WriteOperations(x, put, written, retried)
    BY <1>6, <2>3
  <2>5. Len(operations) = w.o /\ AppendOperations(put) => PlaceMoves(w, written)
    BY <1>3, <2>1
  <2> QED BY <2>1, <2>2, <2>3, <2>4, <2>5, HeadOperations
<1> QED BY <1>2, <1>4, <1>5, <1>6 DEF ClaimAt


(* The steps of a snapshot.                                                *)
LEMMA HeadRead ==
  ASSUME OneInv, NEW x \in Process,
         \/ StartPrepare(x) \/ StartReconcile(x)
         \/ ReadEvents(x) \/ ReadDerived(x) \/ ReadOperations(x) \/ ReadCoverage(x)
  PROVE  HeadStep(x)
<1> DEFINE w == worker[x]
<1>1. w \in Worker
  BY WhatItKnows
<1>2. CASE StartPrepare(x) \/ StartReconcile(x)
  <2>1. PICK task : Continue(x, Snapshot(task, 0)) /\ task # "refresh"
    BY <1>2 DEF StartPrepare, StartReconcile
  <2> QED BY <2>1, FreshContinues, HeadLocal
<1>3. CASE Continue(x, Idle)
  BY <1>3, FreshContinues, HeadLocal
<1>4. CASE w.pc = "events" /\ Continue(x, [w EXCEPT !.pc = "derived", !.e = Len(events)])
  <2>1. PICK v : v = [w EXCEPT !.pc = "derived", !.e = Len(events)]
    OBVIOUS
  <2>2. v.pc = "derived" /\ v.task = w.task /\ v.e = Len(events) /\ v.o = w.o
    BY <1>1, <2>1 DEF Worker
  <2>3. PlaceMoves(w, v)
    BY <2>2 DEF PlaceMoves, HasE, HasO, Knowing
  <2> QED BY <1>4, <2>1, <2>3, HeadContinue
<1>5. CASE w.pc = "derived" /\ Continue(x, [w EXCEPT !.pc = "operations", !.d = Len(derived)])
  <2>1. PICK v : v = [w EXCEPT !.pc = "operations", !.d = Len(derived)]
    OBVIOUS
  <2>2. v.pc = "operations" /\ v.task = w.task /\ v.e = w.e /\ v.o = w.o
    BY <1>1, <2>1 DEF Worker
  <2>3. Continues(w, v)
    BY <1>5, <2>2 DEF Continues, HasE, HasO, Knowing
  <2> QED BY <1>5, <2>1, <2>3, HeadLocal
<1>6. CASE w.pc = "operations" /\ Continue(x, [w EXCEPT !.pc = "coverage", !.o = Len(operations)])
  <2>1. PICK v : v = [w EXCEPT !.pc = "coverage", !.o = Len(operations)]
    OBVIOUS
  <2>2. v.pc = "coverage" /\ v.task = w.task /\ v.e = w.e /\ v.o = Len(operations)
    BY <1>1, <2>1 DEF Worker
  <2>3. UNCHANGED operations
    BY <1>6 DEF Continue, branches
  <2>4. PlaceMoves(w, v)
    BY <1>6, <2>2, <2>3 DEF PlaceMoves, HasE, HasO, Knowing
  <2> QED BY <1>6, <2>1, <2>4, HeadContinue
<1>7. ASSUME NEW place \in {"check-complete", "decide"}, w.pc = "coverage",
             Continue(x, [w EXCEPT !.pc = place, !.c = Len(coverage)])
      PROVE  HeadStep(x)
  <2>1. PICK v : v = [w EXCEPT !.pc = place, !.c = Len(coverage)]
    OBVIOUS
  <2>2. v.pc = place /\ v.e = w.e /\ v.o = w.o
    BY <1>1, <2>1 DEF Worker
  <2>3. HasO(w)
    BY <1>7 DEF HasO, Knowing
  <2> QED BY <1>7, <2>1, <2>2, <2>3, OnwardContinues, HeadLocal
<1> QED BY <1>2, <1>3, <1>4, <1>5, <1>6, <1>7
        DEF ReadEvents, ReadDerived, ReadOperations, ReadCoverage

(* A process past its snapshot that moves on within what it has read.      *)
LEMMA HeadOnward ==
  ASSUME OneInv, NEW x \in Process, HasO(worker[x]), NEW v,
         \/ Fresh(v)
         \/ v.e = worker[x].e /\ v.o = worker[x].o /\ v.pc # "publish-event",
         \/ Continue(x, v)
         \/ \E put : WriteCoverage(x, put, v)
         \/ \E put : WriteDerived(x, put, v)
  PROVE  HeadStep(x)
<1>1. Continues(worker[x], v)
  BY FreshContinues, OnwardContinues
<1> QED BY <1>1, HeadLocal, HeadCoverage, HeadDerived

(* The steps that write neither the cell nor an event.                     *)
LEMMA HeadDecide ==
  ASSUME OneInv, NEW x \in Process,
         \/ Recover(x) \/ AcquireFence(x) \/ OpenMarker(x) \/ AppendReturns(x)
         \/ MissFacts(x) \/ Settle(x)
  PROVE  HeadStep(x)
<1> DEFINE w == worker[x]
<1>1. w \in Worker
  BY WhatItKnows
<1>2. w.pc \in {"decide", "open-marker"}
  BY DEF Recover, AcquireFence, OpenMarker, AppendReturns, MissFacts, Settle, Applicable,
         Absent, MayAppend, Decides
<1>3. HasO(w)
  BY <1>2 DEF HasO, Knowing
<1>4. \A place \in {"open-marker", "check-public", "check-complete"} : \A c, proof :
        LET v == [w EXCEPT !.pc = place]
            u == [w EXCEPT !.pc = place, !.c = c]
            t == [w EXCEPT !.pc = place, !.proof = proof]
        IN  /\ v.e = w.e /\ v.o = w.o /\ v.pc # "publish-event"
            /\ u.e = w.e /\ u.o = w.o /\ u.pc # "publish-event"
            /\ t.e = w.e /\ t.o = w.o /\ t.pc # "publish-event"
  BY <1>1 DEF Worker
<1>5. \A ref : /\ Fresh(Snapshot("begin", ref)) /\ Fresh(Snapshot("append", ref))
               /\ Fresh(Snapshot("settle", ref)) /\ Fresh(Snapshot("repair", ref))
               /\ Fresh(Idle)
  BY FreshContinues
<1>6. CASE Recover(x)
  <2> DEFINE proof == CHOOSE k \in ReleaseProofs(w) : TRUE
  <2>1. CASE Continue(x, Snapshot("begin", RecoveredReference(w)))
    BY <1>3, <1>5, <2>1, HeadOnward
  <2>2. CASE Continue(x, [w EXCEPT !.pc = "check-public"])
    BY <1>3, <1>4, <2>2, HeadOnward
  <2>3. CASE Continue(x, [w EXCEPT !.pc = "check-complete", !.proof = proof])
    <3> HIDE DEF proof
    <3>1. PICK v : v = [w EXCEPT !.pc = "check-complete", !.proof = proof]
      OBVIOUS
    <3>2. v.e = w.e /\ v.o = w.o /\ v.pc # "publish-event"
      BY <1>1, <3>1 DEF Worker
    <3> QED BY <1>3, <2>3, <3>1, <3>2, HeadOnward
  <2>4. CASE Continue(x, Idle)
    BY <2>4, HeadStop DEF Stop, Continue
  <2> QED BY <1>6, <2>1, <2>2, <2>3, <2>4 DEF Recover
<1>7. CASE AcquireFence(x)
  <2>1. \/ Continue(x, [w EXCEPT !.pc = "open-marker"])
        \/ \E put : WriteCoverage(x, put, [w EXCEPT !.pc = "open-marker", !.c = w.c + 1])
        \/ Stop(x)
    BY <1>7 DEF AcquireFence
  <2> QED BY <1>3, <1>4, <2>1, HeadOnward, HeadStop
<1>8. CASE OpenMarker(x)
  <2>1. \/ Continue(x, Snapshot("append", w.ref))
        \/ \E put : WriteCoverage(x, put, Snapshot("append", w.ref))
        \/ Stop(x)
    BY <1>8 DEF OpenMarker
  <2> QED BY <1>3, <1>5, <2>1, HeadOnward, HeadStop
<1>9. CASE AppendReturns(x) \/ MissFacts(x)
  <2>1. \/ Continue(x, Snapshot("settle", 0)) \/ Continue(x, Snapshot("repair", 0))
        \/ Continue(x, Idle)
    BY <1>9 DEF AppendReturns, MissFacts
  <2> QED BY <1>3, <1>5, <2>1, HeadOnward
<1>10. CASE Settle(x)
  <2>1. Continue(x, [w EXCEPT !.pc = "check-public"]) \/ Continue(x, Idle)
    BY <1>10 DEF Settle
  <2> QED BY <1>3, <1>4, <1>5, <2>1, HeadOnward
<1> QED BY <1>6, <1>7, <1>8, <1>9, <1>10


LEMMA HeadPublish ==
  ASSUME OneInv, NEW x \in Process,
         \/ CheckSource(x) \/ PublishCoverage(x) \/ PublishShards(x) \/ PublishState(x)
         \/ CloseMarker(x) \/ ReleaseFence(x)
  PROVE  HeadStep(x)
<1> DEFINE w == worker[x]
           Place == {"public", "private", "state", "close", "release", "check-private",
                     "check-state", "clear", "land", "check-release"}
<1>1. w \in Worker
  BY WhatItKnows
<1>2. w.pc \in {"check-public", "check-private", "check-state", "check-complete",
                "check-release", "public", "private", "state", "close", "release"}
  BY DEF CheckSource, PublishCoverage, PublishShards, PublishState, CloseMarker,
         ReleaseFence, SourceCheck
<1>3. HasO(w)
  BY <1>2 DEF HasO, Knowing
<1>4. Fresh(Idle)
  BY FreshContinues
<1>5. \A place \in Place : \A c, d :
        LET v == [w EXCEPT !.pc = place]
            u == [w EXCEPT !.pc = place, !.c = c]
            t == [w EXCEPT !.pc = place, !.d = d]
        IN  /\ v.e = w.e /\ v.o = w.o /\ v.pc # "publish-event"
            /\ u.e = w.e /\ u.o = w.o /\ u.pc # "publish-event"
            /\ t.e = w.e /\ t.o = w.o /\ t.pc # "publish-event"
  BY <1>1 DEF Worker
<1>6. ASSUME NEW u \in Worker, u.e = w.e, u.o = w.o
      PROVE  \/ Fresh(Published(u))
             \/ Published(u).e = w.e /\ Published(u).o = w.o /\ Published(u).pc # "publish-event"
  <2>1. CASE Published(u) = Idle
    BY <1>4, <2>1
  <2>2. CASE Published(u) = [u EXCEPT !.pc = "events", !.task = "refresh"]
    BY <1>6, <2>2 DEF Worker
  <2> QED BY <2>1, <2>2 DEF Published
<1>7. CASE CheckSource(x)
  <2>1. PICK place : place = SourceCheck[w.pc]
    OBVIOUS
  <2>2. place \in Place
    BY <1>7, <2>1 DEF CheckSource, SourceCheck
  <2>3. CASE Continue(x, Idle)
    BY <2>3, HeadStop DEF Stop, Continue
  <2>4. CASE Continue(x, [w EXCEPT !.pc = place])
    BY <1>3, <1>5, <2>2, <2>4, HeadOnward
  <2> QED BY <1>7, <2>1, <2>3, <2>4 DEF CheckSource
<1>8. CASE PublishCoverage(x)
  <2>1. \/ Continue(x, [w EXCEPT !.pc = "check-private"])
        \/ \E put : WriteCoverage(x, put, [w EXCEPT !.pc = "check-private", !.c = w.c + 1])
    BY <1>8 DEF PublishCoverage
  <2> QED BY <1>3, <1>5, <2>1, HeadOnward
<1>9. CASE PublishShards(x)
  <2>1. CASE Continue(x, Published(w))
    BY <1>1, <1>3, <1>6, <2>1, HeadOnward
  <2>2. ASSUME NEW put, WriteDerived(x, put, [w EXCEPT !.pc = "check-state", !.d = w.d + 1])
        PROVE  HeadStep(x)
    <3>1. PICK v : v = [w EXCEPT !.pc = "check-state", !.d = w.d + 1]
      OBVIOUS
    <3>2. v.e = w.e /\ v.o = w.o /\ v.pc # "publish-event"
      BY <1>1, <3>1 DEF Worker
    <3> QED BY <1>3, <2>2, <3>1, <3>2, HeadOnward
  <2> QED BY <1>9, <2>1, <2>2 DEF PublishShards
<1>10. CASE PublishState(x)
  <2>1. PICK put : WriteDerived(x, put, Published([w EXCEPT !.d = w.d + 1]))
    BY <1>10 DEF PublishState
  <2>2. PICK u : u = [w EXCEPT !.d = w.d + 1]
    OBVIOUS
  <2>3. u \in Worker /\ u.e = w.e /\ u.o = w.o
    BY <1>1, <2>2 DEF Worker
  <2> QED BY <1>3, <1>6, <2>1, <2>2, <2>3, HeadOnward
<1>11. CASE CloseMarker(x)
  <2> DEFINE place == IF CellOf(w).state = "appending" THEN "land" ELSE "check-release"
             next == [w EXCEPT !.pc = place]
  <2>1. CASE Stop(x)
    BY <2>1, HeadStop
  <2>2. CASE Continue(x, [w EXCEPT !.pc = "clear"])
    BY <1>3, <1>5, <2>2, HeadOnward
  <2>3. CASE Continue(x, next)
    <3>1. place \in Place
      OBVIOUS
    <3> QED BY <1>3, <1>5, <2>3, <3>1, HeadOnward
  <2>4. CASE WriteCoverage(x, [coverage[w.c] EXCEPT !.marker = None], [next EXCEPT !.c = w.c + 1])
    <3>1. PICK v : v = [next EXCEPT !.c = w.c + 1]
      OBVIOUS
    <3>2. v.e = w.e /\ v.o = w.o /\ v.pc # "publish-event"
      BY <1>1, <3>1 DEF Worker
    <3> QED BY <1>3, <2>4, <3>1, <3>2, HeadOnward
  <2> QED BY <1>11, <2>1, <2>2, <2>3, <2>4 DEF CloseMarker
<1>12. CASE ReleaseFence(x)
  <2>1. CASE Stop(x)
    BY <2>1, HeadStop
  <2>2. ASSUME NEW put,
               WriteCoverage(x, put, [w EXCEPT !.pc = "clear", !.c = w.c + 1, !.proof = w.c])
        PROVE  HeadStep(x)
    <3>1. PICK v : v = [w EXCEPT !.pc = "clear", !.c = w.c + 1, !.proof = w.c]
      OBVIOUS
    <3>2. v.e = w.e /\ v.o = w.o /\ v.pc # "publish-event"
      BY <1>1, <3>1 DEF Worker
    <3> QED BY <1>3, <2>2, <3>1, <3>2, HeadOnward
  <2> QED BY <1>12, <2>1, <2>2 DEF ReleaseFence
<1> QED BY <1>7, <1>8, <1>9, <1>10, <1>11, <1>12

(* The writes of the cell.                                                 *)
LEMMA HeadCell ==
  ASSUME OneInv, NEW x \in Process,
         \/ Prepare(x) \/ FindConflict(x) \/ FindInapplicable(x) \/ TerminateLanded(x) \/ Clear(x)
  PROVE  HeadStep(x)
<1> DEFINE w == worker[x]
<1>1. w \in Worker /\ CellOf(w) \in OwnedCell
  BY WhatItKnows
<1>2. Fresh(Idle) /\ Fresh(Snapshot("settle", 0)) /\ \A v \in Retried(w) : Fresh(v)
  BY FreshContinues
<1>3. ASSUME NEW put \in OwnedCell, put.state # "appending", NEW v, Fresh(v),
             NEW onFailure, \A f \in onFailure : Fresh(f),
             WriteOperations(x, put, v, onFailure)
      PROVE  HeadStep(x)
  BY <1>3, FreshContinues, HeadUnclaimed
<1>4. CASE Stop(x)
  BY <1>4, HeadStop
<1>5. CASE Prepare(x)
  <2>1. ASSUME NEW op \in Operation \ Competitor,
               WriteOperations(x, PreparedCell(op, w.e), Idle, {Idle})
        PROVE  HeadStep(x)
    <3>1. PreparedCell(op, w.e) \in OwnedCell /\ PreparedCell(op, w.e).state # "appending"
      BY <1>1 DEF PreparedCell, IdleCell, OwnedCell, Cell, Worker
    <3> QED BY <1>2, <1>3, <2>1, <3>1
  <2> QED BY <1>4, <1>5, <2>1 DEF Prepare
<1>6. ASSUME NEW result \in Results, NEW commit \in Nat, Live(CellOf(w))
      PROVE  /\ TerminalCell(CellOf(w), result, w.e, commit) \in OwnedCell
             /\ TerminalCell(CellOf(w), result, w.e, commit).state # "appending"
  BY <1>1, <1>6 DEF TerminalCell, IdleCell, OwnedCell, Cell, Worker, Live
<1>7. CASE FindConflict(x) \/ FindInapplicable(x)
  <2>1. PICK result \in Results : \E onFailure : /\ \A f \in onFailure : Fresh(f)
                                                 /\ \/ Stop(x)
                                                    \/ TerminateAbsent(x, result, onFailure)
    BY <1>2, <1>7 DEF FindConflict, FindInapplicable, Results
  <2>2. PICK onFailure : /\ \A f \in onFailure : Fresh(f)
                         /\ Stop(x) \/ TerminateAbsent(x, result, onFailure)
    BY <2>1
  <2>3. CASE Live(CellOf(w)) /\ WriteOperations(x, TerminalCell(CellOf(w), result, w.e, 0),
                                   Snapshot("settle", 0), onFailure)
    BY <1>2, <1>3, <1>6, <2>2, <2>3
  <2> QED BY <1>4, <2>2, <2>3 DEF TerminateAbsent, CanTerminate
<1>8. CASE TerminateLanded(x)
  <2>1. CASE /\ HasLanded(CellOf(w).op, w.e) /\ Live(CellOf(w))
             /\ WriteOperations(x, TerminalCell(CellOf(w), "landed", w.e,
                                                FirstTaken(CellOf(w).op, w.e)),
                                [w EXCEPT !.pc = "check-release", !.o = w.o + 1], {Idle})
    <3>1. PICK put, v : /\ put = TerminalCell(CellOf(w), "landed", w.e,
                                              FirstTaken(CellOf(w).op, w.e))
                        /\ v = [w EXCEPT !.pc = "check-release", !.o = w.o + 1]
      OBVIOUS
    <3>2. v.pc = "check-release" /\ v.e = w.e /\ v.o = w.o + 1
      BY <1>1, <3>1 DEF Worker
    <3>3. FirstTaken(CellOf(w).op, w.e) \in Nat
      BY <1>1, <2>1, FirstTakenExists DEF HasLanded, Worker
    <3>4. put \in OwnedCell /\ put.state # "appending"
      BY <1>6, <2>1, <3>1, <3>3 DEF Results
    <3>5. HasE(w)
      BY <1>8 DEF TerminateLanded, HasE, Knowing
    <3>6. ASSUME Len(operations) = w.o, AppendOperations(put) PROVE PlaceMoves(w, v)
      <4>1. Len(operations') = w.o + 1
        BY <3>4, <3>6, WhatItKnows, AfterOperations
      <4> QED BY <3>2, <3>5, <4>1 DEF PlaceMoves
    <3>7. PICK quit : quit = {Idle}
      OBVIOUS
    <3>8. \A f \in quit : Fresh(f)
      BY <1>2, <3>7
    <3> QED BY <2>1, <3>1, <3>4, <3>6, <3>7, <3>8, HeadOperations
  <2> QED BY <1>4, <1>8, <2>1 DEF TerminateLanded, CanTerminate
<1>9. CASE Clear(x)
  <2>1. IdleCell \in OwnedCell /\ IdleCell.state # "appending"
    BY DEF IdleCell, OwnedCell, Cell
  <2> QED BY <1>2, <1>3, <1>4, <1>9, <2>1 DEF Clear
<1> QED BY <1>5, <1>7, <1>8, <1>9

(* The claim and the event.                                                *)
LEMMA HeadAppend ==
  ASSUME OneInv, NEW x \in Process, DiscoverLanded(x) \/ ClaimAppend(x) \/ UpdateEvents(x)
  PROVE  HeadStep(x)
<1> DEFINE w == worker[x]
<1>1. w \in Worker /\ Branches
  BY WhatItKnows
<1>2. Fresh(Snapshot("settle", 0)) /\ \A v \in Retried(w) : Fresh(v)
  BY FreshContinues
<1>3. \A v : Fresh(v) => PlaceMoves(w, v)
  BY FreshContinues DEF PlaceMoves, Continues
<1>4. CASE DiscoverLanded(x)
  <2>1. w.pc = "decide" /\ HasLanded(CellOf(w).op, w.e)
    BY <1>4 DEF DiscoverLanded, MayAppend, Decides
  <2>2. PICK head : head = FirstTaken(CellOf(w).op, w.e) - 1
    OBVIOUS
  <2>3. head \in Nat /\ head <= w.e
    BY <1>1, <2>1, <2>2, FirstTakenExists DEF HasLanded, Worker
  <2>4. CASE Continue(x, Snapshot("settle", 0))
    BY <1>2, <1>3, <2>4, HeadContinue
  <2>5. CASE /\ CellOf(w).state # "appending"
             /\ ClaimAt(x, head, Snapshot("settle", 0), Snapshot("settle", 0))
    BY <1>2, <1>3, <2>1, <2>3, <2>5, HeadClaimAt
  <2> QED BY <1>4, <2>2, <2>4, <2>5 DEF DiscoverLanded
<1>5. CASE ClaimAppend(x)
  <2>1. w.pc = "decide"
    BY <1>5 DEF ClaimAppend, Applicable, Absent, MayAppend, Decides
  <2>2. PICK held, written : /\ held = [w EXCEPT !.pc = "publish-event"]
                             /\ written = [w EXCEPT !.pc = "publish-event", !.o = w.o + 1]
    OBVIOUS
  <2>3. /\ held.pc = "publish-event" /\ held.e = w.e /\ held.o = w.o
        /\ written.pc = "publish-event" /\ written.e = w.e /\ written.o = w.o + 1
    BY <1>1, <2>2 DEF Worker
  <2>4. HasE(w) /\ HasO(w) /\ HasE(held) /\ HasO(held) /\ HasE(written) /\ HasO(written)
    BY <2>1, <2>3 DEF HasE, HasO, Knowing
  <2>5. ASSUME CellOf(w).state = "appending", CellOf(w).head = w.e, UNCHANGED operations
        PROVE  PlaceMoves(w, held)
    BY <2>3, <2>4, <2>5 DEF PlaceMoves, CellOf
  <2>6. ASSUME NEW put \in OwnedCell, put.state = "appending", put.head = w.e,
               Len(operations) = w.o, AppendOperations(put)
        PROVE  PlaceMoves(w, written)
    <3>1. Len(operations') = w.o + 1 /\ operations'[w.o + 1] = put
      BY <1>1, <2>6, AfterOperations
    <3> QED BY <2>3, <2>4, <2>6, <3>1 DEF PlaceMoves
  <2>7. w.e \in Nat /\ ClaimAt(x, w.e, held, written)
    BY <1>1, <1>5, <2>2 DEF ClaimAppend, Worker
  <2> QED BY <2>1, <2>5, <2>6, <2>7, HeadClaimAt
<1>6. CASE UpdateEvents(x)
  <2>1. PICK op : op = CellOf(w).op
    OBVIOUS
  <2>2. w.pc = "publish-event" /\ WriteEvents(x, op, Snapshot("settle", 0), Retried(w))
    BY <1>6, <2>1 DEF UpdateEvents
  <2>3. CASE Len(events) = w.e /\ AppendEvents(op) /\ Step(x, Snapshot("settle", 0))
    <3>1. op \in Operation
      BY <1>1, <2>1, <2>2, WhatItKnows DEF FitsNow, Fits, CellOf
    <3>2. UNCHANGED operations /\ late'.operations = late.operations
      BY <1>1, <2>3, <3>1, AfterEvents
    <3> QED BY <1>2, <1>3, <2>1, <2>2, <2>3, <3>2 DEF HeadStep, CellStep, EventStep
  <2>4. CASE LoseOrRefuse(x, Len(events) = w.e, [late EXCEPT !.events = @ \union {op}], Retried(w))
    <3>1. PICK f \in Retried(w) : Step(x, f)
      BY <2>4 DEF LoseOrRefuse
    <3>2. /\ UNCHANGED branches
          /\ \/ late' = late
             \/ Len(events) = w.e /\ late' = [late EXCEPT !.events = @ \union {op}]
      BY <2>4 DEF LoseOrRefuse
    <3>3. UNCHANGED <<events, operations>> /\ late'.operations = late.operations
      BY <1>1, <3>2 DEF branches, Branches, LateFits, LateWrites
    <3>4. PlaceMoves(w, f)
      BY <1>2, <1>3, <3>1
    <3> QED BY <2>1, <2>2, <3>1, <3>2, <3>3, <3>4 DEF HeadStep, CellStep, EventStep
  <2> QED BY <2>2, <2>3, <2>4 DEF WriteEvents
<1> QED BY <1>4, <1>5, <1>6

(* What others do.                                                         *)
LEMMA QuietKeepsHeads ==
  ASSUME OneInv, ClaimsHead, UNCHANGED operations, late'.operations = late.operations,
         \/ UNCHANGED events /\ late'.events = late.events
         \/ Len(events') = Len(events) + 1 /\ late'.events = {}
  PROVE  ClaimsHead' /\ \A w : HeadKnown(w) => HeadKnown(w)'
<1>1. Cells' = Cells /\ CellNow' = CellNow
  BY DEF Cells, CellNow
<1>2. Claims' = Claims /\ \A w : CellOf(w)' = CellOf(w)
  BY <1>1 DEF Claims, CellOf
<1>3. Len(events) \in Nat /\ \A cell \in Claims : cell.head \in Nat
  BY HeadsFit DEF OneInv, PInv, IInv, Claims, OwnedCell, Cell
<1>4. ClaimsHead'
  BY <1>1, <1>2, <1>3 DEF ClaimsHead
<1>5. ASSUME NEW w, HeadKnown(w) PROVE HeadKnown(w)'
  BY <1>2, <1>5 DEF HeadKnown
<1> QED BY <1>4, <1>5

LEMMA LateCellKeepsHeads ==
  ASSUME OneInv, ClaimsHead, NEW put \in late.operations, AppendOperations(put)
  PROVE  ClaimsHead' /\ \A w : FitsNow(w) /\ HeadKnown(w) => HeadKnown(w)'
<1>1. Branches /\ put \in OwnedCell /\ put \in Cells
  BY HeadsFit DEF OneInv, PInv, IInv
<1>2. /\ Cells' = {put} /\ CellNow' = put /\ UNCHANGED events
      /\ late'.events = late.events /\ late'.operations = {}
      /\ \A i \in 1..Len(operations) : operations'[i] = operations[i]
  BY <1>1, AfterOperations
<1>3. Claims' \subseteq Claims
  BY <1>1, <1>2 DEF Claims
<1>4. ClaimsHead'
  BY <1>2, <1>3 DEF ClaimsHead
<1>5. ASSUME NEW w, FitsNow(w), HeadKnown(w) PROVE HeadKnown(w)'
  <2>1. CellOf(w)' = CellOf(w)
    BY <1>2, <1>5 DEF FitsNow, Fits, CellOf
  <2> QED BY <1>2, <1>3, <1>5, <2>1 DEF HeadKnown
<1> QED BY <1>4, <1>5

LEMMA ElsewhereKeepsHeads ==
  ASSUME OneInv, ClaimsHead, HeadsKnown, Environment
  PROVE  ClaimsHead' /\ HeadsKnown'
<1>1. Branches /\ UNCHANGED worker /\ \A x \in Process : FitsNow(worker[x]) /\ HeadKnown(worker[x])
  BY DEF OneInv, PInv, IInv, HeadsKnown, Environment, Deliver, ReserveSuccess, ReleaseSuccess,
         Compete
<1>2. late \in LateWrites
  BY <1>1 DEF Branches, LateFits
<1>3. ASSUME NEW op \in Operation, AppendEvents(op)
      PROVE  ClaimsHead' /\ HeadsKnown'
  <2>1. /\ UNCHANGED operations /\ late'.operations = late.operations
        /\ Len(events') = Len(events) + 1 /\ late'.events = {}
    BY <1>1, <1>3, AfterEvents
  <2> QED BY <1>1, <2>1, QuietKeepsHeads DEF HeadsKnown
<1>4. ASSUME NEW put, AppendCoverage(put) \/ AppendDerived(put)
      PROVE  ClaimsHead' /\ HeadsKnown'
  <2>1. /\ UNCHANGED <<events, operations>>
        /\ late'.events = late.events /\ late'.operations = late.operations
    BY <1>2, <1>4 DEF AppendCoverage, AppendDerived, LateWrites
  <2> QED BY <1>1, <2>1, QuietKeepsHeads DEF HeadsKnown
<1>5. ASSUME NEW put \in late.operations, AppendOperations(put)
      PROVE  ClaimsHead' /\ HeadsKnown'
  BY <1>1, <1>5, LateCellKeepsHeads DEF HeadsKnown
<1>6. CASE Deliver
  BY <1>2, <1>3, <1>4, <1>5, <1>6 DEF Deliver, LateWrites
<1>7. CASE ReserveSuccess \/ ReleaseSuccess
  BY <1>4, <1>7 DEF ReserveSuccess, ReleaseSuccess
<1>8. CASE \E op \in Competitor : Compete(op)
  BY <1>3, <1>8, CompetitorsAreOperations DEF Compete
<1> QED BY <1>6, <1>7, <1>8 DEF Environment

(* A step of the process, as the lemmas above divide them.                 *)
Proceeds(x) == StartPrepare(x) \/ Prepare(x) \/ Reconcile(x) \/ Crash(x)

LEMMA HeadSteps ==
  ASSUME OneInv, NEW x \in Process, Proceeds(x)
  PROVE  HeadStep(x)
<1>1. CASE StartPrepare(x) \/ Prepare(x) \/ Reconcile(x)
  BY <1>1, HeadRead, HeadDecide, HeadPublish, HeadCell, HeadAppend DEF Reconcile
<1>2. CASE Crash(x)
  <2>1. PlaceMoves(worker[x], Idle)
    BY FreshContinues DEF PlaceMoves, Continues
  <2> QED BY <1>2, <2>1 DEF Crash, HeadStep, CellStep, EventStep, branches
<1> QED BY <1>1, <1>2 DEF Proceeds

LEMMA HeadNext ==
  ASSUME OneEngine, HeadInv, [Next]_vars
  PROVE  HeadInv'
<1>1. OneInv /\ OneInv' /\ ClaimsHead /\ HeadsKnown
  BY OneNext DEF HeadInv
<1>2. ASSUME NEW x \in Process, HeadStep(x) PROVE HeadInv'
  BY <1>1, <1>2, HeadStepKeeps DEF HeadInv
<1>3. CASE Environment
  BY <1>1, <1>3, ElsewhereKeepsHeads DEF HeadInv
<1>4. CASE UNCHANGED vars
  <2>1. UNCHANGED <<events, operations, worker>> /\ late' = late
    BY <1>4 DEF vars, branches
  <2> QED BY <1>1, <2>1, QuietKeepsHeads DEF HeadInv, HeadsKnown
<1> QED BY <1>1, <1>2, <1>3, <1>4, HeadSteps DEF Next, Proceeds

LEMMA HeadStarts == Init => HeadInv
<1> SUFFICES ASSUME Init PROVE HeadInv
  OBVIOUS
<1>1. late.events = {} /\ late.operations = {} /\ CellNow = IdleCell
      /\ \A x \in Process : worker[x] = Idle
  BY DEF Init, NothingLate, CellNow
<1>2. Claims = {}
  BY <1>1 DEF Claims, Cells, IdleCell
<1>3. ~ HasE(Idle) /\ ~ HasO(Idle) /\ Idle.pc # "publish-event"
  BY DEF Idle, HasE, HasO, Knowing
<1> QED BY <1>1, <1>2, <1>3, OneStarts DEF HeadInv, ClaimsHead, HeadsKnown, HeadKnown

(* Whoever appends an event of the engine's, the claim names its parent.   *)
LEMMA AppendedAtClaim ==
  ASSUME OneEngine, HeadInv, [Next]_vars, NEW op \in Operation \ Competitor,
         events' = Append(events, op), CellNow.state = "appending"
  PROVE  CellNow.head = Len(events)
<1>1. /\ Branches /\ ClaimsHead /\ CellNow \in Claims /\ Len(events') = Len(events) + 1
      /\ Len(events) \in Nat /\ events'[Len(events) + 1] = op
  BY HeadsFit DEF HeadInv, OneInv, PInv, IInv, Branches, Claims
<1>2. events' # events
  BY <1>1
<1>3. ASSUME NEW x \in Process, HeadStep(x) PROVE CellNow.head = Len(events)
  BY <1>1, <1>2, <1>3 DEF HeadStep, EventStep, HeadInv, HeadsKnown, HeadKnown
<1>4. CASE Environment
  <2>1. CASE \E put \in late.events : AppendEvents(put)
    BY <1>1, <2>1 DEF ClaimsHead
  <2>2. ASSUME NEW put \in Competitor, AppendEvents(put) PROVE FALSE
    BY <1>1, <2>2, AfterEvents, CompetitorsAreOperations
  <2>3. \/ \E put \in late.events : AppendEvents(put)
        \/ \E put \in Competitor : AppendEvents(put)
    BY <1>2, <1>4 DEF Environment, Deliver, ReserveSuccess, ReleaseSuccess, Compete,
                      AppendOperations, AppendCoverage, AppendDerived
  <2> QED BY <2>1, <2>2, <2>3
<1>5. ASSUME NEW x \in Process, Proceeds(x) PROVE CellNow.head = Len(events)
  BY <1>3, <1>5, HeadSteps DEF HeadInv
<1> QED BY <1>2, <1>4, <1>5 DEF Next, Proceeds, vars

(* An engine's event appears only while the cell holds the claim of that   *)
(* operation on that parent, under the operation's own fence.              *)
THEOREM ClaimedWhenAppended == ASSUME OneEngine PROVE Spec => AppendUnderClaim
<1> DEFINE UnderClaim == \A op \in Operation \ Competitor :
                        events' = Append(events, op) =>
                          /\ CellNow.state = "appending"
                          /\ CellNow.op = op
                          /\ CellNow.head = Len(events)
                          /\ Tip.fence.state = "mutation"
                          /\ Tip.fence.op = op
<1>1. ASSUME HeadInv, [Next]_vars PROVE [UnderClaim]_events
  <2>1. BranchesMove /\ Branches /\ GuardsOK
    BY <1>1, OneNext DEF HeadInv, OneInv, PInv, IInv
  <2>2. CASE EventMoves
    <3>1. PICK put \in Operation : EventFits(put) /\ AppendEvents(put)
      BY <2>2 DEF EventMoves
    <3>2. ASSUME NEW op \in Operation \ Competitor, events' = Append(events, op)
          PROVE  /\ CellNow.state = "appending" /\ CellNow.op = op
                 /\ CellNow.head = Len(events)
                 /\ Tip.fence.state = "mutation" /\ Tip.fence.op = op
      <4>1. op = put
        <5>1. events'[Len(events) + 1] = put
          BY <2>1, <3>1, AfterEvents
        <5>2. Append(events, op)[Len(events) + 1] = op
          BY <2>1 DEF Branches
        <5> QED BY <3>2, <5>1, <5>2
      <4>2. CellNow.state = "appending" /\ CellNow.op = op /\ Held(Tip)
        BY <2>1, <3>1, <4>1, <3>2, ClaimIsGuarded, HeadsFit DEF EventFits
      <4>3. Tip.fence.state = "mutation" /\ Tip.fence.op = op
        BY <2>1, <4>2, WhatBoundSays, HeadsFit DEF GuardsOK, GuardsBound, Bound, Held
      <4>4. CellNow.head = Len(events)
        BY <1>1, <3>2, <4>2, AppendedAtClaim
      <4> QED BY <4>2, <4>3, <4>4
    <3> QED BY <3>2
  <2>3. CASE UNCHANGED branches \/ CellMoves \/ TipMoves \/ PrivateMoves
    BY <2>3 DEF branches, CellMoves, TipMoves, PrivateMoves, AppendOperations,
                AppendCoverage, AppendDerived
  <2> QED BY <2>1, <2>2, <2>3 DEF BranchesMove
<1>2. HeadInv /\ [Next]_vars => [UnderClaim]_events
  BY <1>1
<1>3. HeadInv /\ [Next]_vars => HeadInv'
  BY HeadNext
<1> QED BY <1>2, <1>3, HeadStarts, PTL DEF Spec, AppendUnderClaim

-----------------------------------------------------------------------------
(* From the moment the fence is let go until the cell is cleared, coverage *)
(* ancestry holds one release of the execution under way.                  *)

(* The commits of this execution: the cell has not been idle since.        *)
Under(i) ==
  i \in 1..Len(operations) /\ \A j \in i..Len(operations) : operations[j].state # "idle"

NamesThis(v) == Under(v.fence.prep) /\ Live(operations[v.fence.prep])

IsRelease(k) ==
  /\ Held(coverage[k]) /\ coverage[k + 1].fence = Released(coverage[k].fence)
  /\ coverage[k].marker = None /\ coverage[k + 1].marker = None

Releases == {k \in 1..(Len(coverage) - 1) : IsRelease(k) /\ Under(coverage[k].fence.prep)}

ReleasedOnce ==
  /\ (CellNow.state = "terminal" /\ ~ Held(Tip)) <=> Releases # {}
  /\ \A k, l \in Releases : k = l

SameExecution ==
  \A i, j \in 1..Len(operations) :
    Under(i) /\ Under(j) =>
      /\ operations[i].op = operations[j].op
      /\ Live(operations[i]) /\ Live(operations[j]) => operations[i].base = operations[j].base

TipsName == \A v \in Tips : Held(v) => NamesThis(v)

TerminalAfterLive ==
  CellNow.state = "terminal" =>
    Len(operations) > 1 /\ Live(operations[Len(operations) - 1])

(* A fence in force stays or is released, and then for a terminal cell.    *)
LetsGo(put) ==
  Held(Tip) => \/ put.fence = Tip.fence
               \/ /\ put.fence = Released(Tip.fence) /\ CellNow.state = "terminal"
                  /\ Tip.marker = None /\ put.marker = None

LateLetsGo == \A put \in late.coverage : LetsGo(put)

ReleaseFacts ==
  ReleasedOnce /\ SameExecution /\ TipsName /\ TerminalAfterLive /\ LateLetsGo

(* The process takes no fence for an execution that is over.               *)
Beginning == Refreshing \union {"decide", "open-marker"}

Begins(ref) ==
  /\ Under(ref) /\ Live(operations[ref])
  /\ \A cell \in Cells : cell.state # "idle"

ReadKnown(w) ==
  /\ HasO(w) /\ Live(CellOf(w)) => Under(w.o)
  /\ w.pc = "decide" /\ Live(CellOf(w)) =>
       \A tip \in {coverage[w.c]} : Held(tip) => NamesThis(tip)
  /\ w.task = "begin" => w.pc \in Beginning /\ Begins(w.ref)

ReadsKnown == \A x \in Process : ReadKnown(worker[x])

ReleaseInv == OneInv /\ ReleaseFacts /\ ReadsKnown

(* An execution goes on until the cell is idle.                            *)
LEMMA UnderStays ==
  ASSUME Branches, NEW put \in OwnedCell, AppendOperations(put)
  PROVE  \A i \in 1..(Len(operations) + 1) :
           Under(i)' <=> (i = Len(operations) + 1 \/ Under(i)) /\ put.state # "idle"
<1>1. /\ Len(operations) \in Nat /\ Len(operations') = Len(operations) + 1
      /\ operations'[Len(operations) + 1] = put
      /\ \A i \in 1..Len(operations) : operations'[i] = operations[i]
  <2>1. Len(operations) \in Nat
    BY DEF Branches
  <2> QED BY <2>1, AfterOperations
<1>2. ASSUME NEW i \in 1..Len(operations)
      PROVE  Under(i)' <=> Under(i) /\ put.state # "idle"
  <2>1. i..Len(operations') = (i..Len(operations)) \union {Len(operations) + 1}
    BY <1>1
  <2>2. \A j \in i..Len(operations) : operations'[j] = operations[j]
    BY <1>1
  <2> QED BY <1>1, <2>1, <2>2 DEF Under
<1>3. ASSUME NEW i, i = Len(operations) + 1
      PROVE  Under(i)' <=> put.state # "idle"
  BY <1>1, <1>3 DEF Under
<1>4. \A i \in 1..(Len(operations) + 1) : i \in 1..Len(operations) \/ i = Len(operations) + 1
  BY <1>1
<1> QED BY <1>2, <1>3, <1>4

LEMMA StillUnder ==
  ASSUME UNCHANGED operations PROVE \A i : Under(i)' <=> Under(i)
BY DEF Under

(* Where the process has read a live cell, none is idle.                   *)
LEMMA LiveSeen ==
  ASSUME OneInv, NEW x \in Process, HasO(worker[x]), Live(CellOf(worker[x]))
  PROVE  \A cell \in Cells : cell.state # "idle"
<1>1. Tip \in Tips /\ GuardsOK /\ CellKnown(CellOf(worker[x]))
  BY WhatItKnows, HeadsFit DEF Known
<1>2. ASSUME NEW cell \in Cells, \A v \in Tips : Held(v) PROVE cell.state # "idle"
  BY <1>1, <1>2, WhatBoundSays DEF GuardsOK, GuardsBound
<1>3. PICK read : read = CellOf(worker[x]) /\ read.state \in {"prepared", "appending"}
  BY DEF Live
<1>4. ASSUME NEW cell \in Cells, \A c \in Cells : c = read PROVE cell.state # "idle"
  BY <1>3, <1>4
<1> QED BY <1>1, <1>2, <1>3, <1>4 DEF CellKnown

(* What happens to the cell.                                               *)
LEMMA CellKeepsReleases ==
  ASSUME ReleaseInv, UNCHANGED coverage, late'.coverage = late.coverage,
         UNCHANGED operations \/ CellMoves
  PROVE  ReleaseFacts'
<1>1. /\ Branches /\ GuardsOK /\ ReleaseFacts /\ Tip \in Tips /\ CellNow \in Cells
      /\ Cells \subseteq OwnedCell
  BY HeadsFit DEF ReleaseInv, OneInv, PInv, IInv
<1>2. Tips' = Tips /\ Tip' = Tip
  BY DEF Tips, Tip
<1>3. \A k : IsRelease(k)' <=> IsRelease(k)
  BY DEF IsRelease, Held
<1>4. CASE UNCHANGED operations
  <2>1. CellNow' = CellNow /\ \A i : Under(i)' <=> Under(i)
    BY <1>4, StillUnder DEF CellNow
  <2>2. Releases' = Releases
    BY <1>3, <2>1 DEF Releases
  <2> QED BY <1>1, <1>2, <1>4, <2>1, <2>2
          DEF ReleaseFacts, ReleasedOnce, SameExecution, TipsName, NamesThis,
              TerminalAfterLive, LateLetsGo, LetsGo, Held
<1>5. ASSUME NEW put \in OwnedCell, CellFits(put), AppendOperations(put)
      PROVE  ReleaseFacts'
  <2> DEFINE n == Len(operations)
  <2>1. /\ CellNow' = put /\ Len(operations') = n + 1 /\ operations'[n + 1] = put
        /\ \A i \in 1..n : operations'[i] = operations[i]
        /\ n \in Nat /\ n >= 1 /\ CellNow = operations[n]
    BY <1>1, <1>5, AfterOperations DEF Branches, CellNow
  <2>2. /\ \A i \in 1..(n + 1) :
             Under(i)' <=> (i = n + 1 \/ Under(i)) /\ put.state # "idle"
        /\ \A i \in 1..(n + 1) : i \in 1..n \/ i = n + 1
        /\ \A i \in 1..n : i \in 1..(n + 1) /\ i # n + 1
    BY <1>1, <1>5, <2>1, UnderStays
  <2>3. Becomes(CellNow, put) /\ \A v \in Tips : Bound(put, v)
    BY <1>5 DEF CellFits
  <2>4. CellNow.state \in {"prepared", "appending"} => Held(Tip)
    BY <1>1, <1>5, WhatBoundSays DEF CellFits, Guarded, GuardsOK, GuardsBound
  <2>5. Held(Tip) => put.state # "idle"
    BY <1>1, <2>3, WhatBoundSays
  <2>6. ReleasedOnce'
    <3>1. ASSUME NEW k \in Releases' PROVE FALSE
      <4>1. k \in 1..(Len(coverage) - 1) /\ IsRelease(k) /\ Under(coverage[k].fence.prep)'
        BY <1>3, <3>1 DEF Releases
      <4>2. coverage[k].fence.prep \in 1..n
        BY <1>1, <4>1 DEF GuardsOK, NamesExist, Named, IsRelease, Branches
      <4>3. Under(coverage[k].fence.prep) /\ put.state # "idle"
        BY <2>2, <4>1, <4>2
      <4>4. CellNow.state = "terminal"
        BY <1>1, <4>1, <4>3 DEF ReleaseFacts, ReleasedOnce, Releases
      <4> QED BY <2>3, <4>3, <4>4 DEF Becomes
    <3>2. put.state = "terminal" => Held(Tip)
      BY <2>3, <2>4 DEF Becomes
    <3> QED BY <1>2, <2>1, <3>1, <3>2 DEF ReleasedOnce, Held
  <2>7. SameExecution'
    <3>1. ASSUME NEW j \in 1..n, Under(j), put.state # "idle"
          PROVE  /\ operations[j].op = put.op
                 /\ Live(operations[j]) /\ Live(put) => operations[j].base = put.base
      <4>1. Under(n) /\ CellNow.state # "idle"
        BY <2>1, <3>1 DEF Under
      <4>2. /\ operations[j].op = CellNow.op
            /\ Live(operations[j]) /\ Live(CellNow) => operations[j].base = CellNow.base
        BY <1>1, <2>1, <3>1, <4>1 DEF ReleaseFacts, SameExecution
      <4>3. put.op = CellNow.op /\ (Live(put) => Live(CellNow))
        BY <2>3, <3>1, <4>1 DEF Becomes, Live
      <4>4. Live(put) /\ Live(CellNow) => put.base = CellNow.base
        BY <1>1, <2>3, <2>4 DEF GuardsOK, GuardsBound, Bound, CrossBound, ReferenceAgrees,
                                Held, Live
      <4> QED BY <4>2, <4>3, <4>4
    <3>2. ASSUME NEW i \in 1..(n + 1), NEW j \in 1..(n + 1), Under(i)', Under(j)'
          PROVE  /\ operations'[i].op = operations'[j].op
                 /\ Live(operations'[i]) /\ Live(operations'[j]) =>
                      operations'[i].base = operations'[j].base
      <4>1. put.state # "idle"
        BY <2>2, <3>2
      <4>2. CASE i \in 1..n /\ j \in 1..n
        <5>1. Under(i) /\ Under(j) /\ SameExecution
          BY <1>1, <2>2, <3>2, <4>2 DEF ReleaseFacts
        <5>2. operations'[i] = operations[i] /\ operations'[j] = operations[j]
          BY <2>1, <4>2
        <5>3. /\ operations[i].op = operations[j].op
              /\ Live(operations[i]) /\ Live(operations[j]) =>
                   operations[i].base = operations[j].base
          BY <4>2, <5>1 DEF SameExecution
        <5> QED BY <5>2, <5>3
      <4>3. CASE i = n + 1 \/ j = n + 1
        BY <2>1, <2>2, <3>1, <3>2, <4>1, <4>3
      <4> QED BY <2>2, <4>2, <4>3
    <3> QED BY <2>1, <3>2 DEF SameExecution
  <2>8. TipsName'
    <3>1. ASSUME NEW v \in Tips, Held(v) PROVE NamesThis(v)'
      <4>1. NamesThis(v) /\ put.state # "idle"
        BY <1>1, <2>3, <3>1, WhatBoundSays DEF ReleaseFacts, TipsName
      <4>2. v.fence.prep \in 1..n
        BY <4>1 DEF NamesThis, Under
      <4> QED BY <2>1, <2>2, <4>1, <4>2 DEF NamesThis
    <3> QED BY <1>2, <3>1 DEF TipsName, Held
  <2>9. TerminalAfterLive'
    BY <2>1, <2>3 DEF TerminalAfterLive, Becomes, Live
  <2>10. LateLetsGo'
    <3>1. Held(Tip) /\ CellNow.state = "terminal" => put.state = "terminal"
      BY <2>3, <2>5 DEF Becomes
    <3> QED BY <1>1, <1>2, <2>1, <3>1 DEF ReleaseFacts, LateLetsGo, LetsGo, Held
  <2> QED BY <2>6, <2>7, <2>8, <2>9, <2>10 DEF ReleaseFacts
<1> QED BY <1>4, <1>5 DEF CellMoves

(* What is written over the fence.                                         *)
TipNames(put) ==
  /\ LetsGo(put)
  /\ Held(put) => NamesThis(put)
  /\ Held(put) /\ ~ Held(Tip) => CellNow.state = "prepared"

LEMMA TipKeepsReleases ==
  ASSUME ReleaseInv, UNCHANGED operations, NEW put \in Coverage, TipNames(put),
         \/ AppendCoverage(put)
         \/ UNCHANGED branches /\ late' = [late EXCEPT !.coverage = @ \union {put}]
  PROVE  ReleaseFacts'
<1> DEFINE n == Len(coverage)
<1>1. /\ Branches /\ GuardsOK /\ ReleaseFacts /\ Tip \in Tips
      /\ n \in Nat /\ n >= 1 /\ Tip = coverage[n]
  BY HeadsFit DEF ReleaseInv, OneInv, PInv, IInv, Branches, Tip
<1>2. CellNow' = CellNow /\ \A i : Under(i)' <=> Under(i)
  BY StillUnder DEF CellNow
<1>3. \A v : NamesThis(v)' <=> NamesThis(v)
  BY <1>2 DEF NamesThis
<1>4. SameExecution' /\ TerminalAfterLive'
  BY <1>1, <1>2 DEF ReleaseFacts, SameExecution, TerminalAfterLive
<1>5. CASE UNCHANGED branches /\ late' = [late EXCEPT !.coverage = @ \union {put}]
  <2>1. Tip' = Tip /\ late'.coverage = late.coverage \union {put} /\ UNCHANGED coverage
    BY <1>1, <1>5 DEF branches, Tip, Branches, LateFits, LateWrites
  <2>2. Releases' = Releases
    BY <1>2, <2>1 DEF Releases, IsRelease, Held
  <2>3. ReleasedOnce'
    BY <1>1, <1>2, <2>1, <2>2 DEF ReleaseFacts, ReleasedOnce, Held
  <2>4. TipsName'
    BY <1>1, <1>3, <2>1 DEF ReleaseFacts, TipsName, Tips, TipNames, Held
  <2>5. LateLetsGo'
    BY <1>1, <1>2, <2>1 DEF ReleaseFacts, LateLetsGo, LetsGo, TipNames, Held
  <2> QED BY <1>4, <2>3, <2>4, <2>5 DEF ReleaseFacts
<1>6. CASE AppendCoverage(put)
  <2>1. /\ Tips' = {put} /\ Tip' = put /\ late'.coverage = {}
        /\ Len(coverage') = n + 1 /\ coverage'[n + 1] = put
        /\ \A i \in 1..n : coverage'[i] = coverage[i]
    BY <1>1, <1>6, AfterCoverage
  <2>2. /\ \A k \in 1..(n - 1) : k \in Releases' <=> k \in Releases
        /\ \A k \in Releases' : k \in 1..(n - 1) \/ k = n
        /\ n \in Releases' <=> /\ Held(Tip) /\ put.fence = Released(Tip.fence)
                               /\ Tip.marker = None /\ put.marker = None
                               /\ Under(Tip.fence.prep)
        /\ \A k \in Releases : k \in 1..(n - 1)
    BY <1>1, <1>2, <2>1 DEF Releases, IsRelease, Held
  <2>3. \A fence : Released(fence).state # "mutation"
    BY DEF Released, IdleFence
  <2>4. ReleasedOnce'
    <3>1. CASE Held(Tip) /\ Held(put)
      BY <1>1, <1>2, <2>1, <2>2, <2>3, <3>1 DEF ReleaseFacts, ReleasedOnce, Held
    <3>2. CASE Held(Tip) /\ ~ Held(put)
      <4>1. /\ put.fence = Released(Tip.fence) /\ CellNow.state = "terminal"
            /\ Tip.marker = None /\ put.marker = None
        BY <3>2 DEF TipNames, LetsGo, Held
      <4>2. n \in Releases' /\ Releases = {}
        BY <1>1, <2>2, <3>2, <4>1 DEF ReleaseFacts, ReleasedOnce, TipsName, NamesThis
      <4>3. \A k \in Releases' : k = n
        BY <2>2, <4>2
      <4> QED BY <1>2, <2>1, <3>2, <4>1, <4>2, <4>3 DEF ReleasedOnce, Held
    <3>3. CASE ~ Held(Tip)
      <4>1. Releases' = Releases
        BY <2>2, <3>3
      <4>2. Held(put) => CellNow.state # "terminal"
        BY <3>3 DEF TipNames
      <4> QED BY <1>1, <1>2, <2>1, <3>3, <4>1, <4>2 DEF ReleaseFacts, ReleasedOnce, Held
    <3> QED BY <3>1, <3>2, <3>3
  <2>5. TipsName' /\ LateLetsGo'
    BY <1>3, <2>1 DEF TipsName, LateLetsGo, TipNames, Held
  <2> QED BY <1>4, <2>4, <2>5 DEF ReleaseFacts
<1> QED BY <1>5, <1>6

(* A step of the process, as far as it matters here.                       *)
ReadMoves(w, v) ==
  /\ v.pc = "decide" => v.c = Len(coverage')
  /\ v.task = "begin" =>
       /\ v.pc \in Beginning
       /\ UNCHANGED operations /\ late'.operations = late.operations
       /\ (w.task = "begin" /\ v.ref = w.ref) \/ Begins(v.ref)

TipStep ==
  \/ UNCHANGED coverage /\ late'.coverage = late.coverage
  \/ \E put \in Coverage :
       /\ TipNames(put)
       /\ \/ AppendCoverage(put)
          \/ UNCHANGED branches /\ late' = [late EXCEPT !.coverage = @ \union {put}]

ReadStep(x) == TipStep /\ \E v : Step(x, v) /\ ReadMoves(worker[x], v)

LEMMA StepKeepsReleases ==
  ASSUME ReleaseInv, BranchesMove, TipStep PROVE ReleaseFacts'
<1>1. CASE UNCHANGED coverage /\ late'.coverage = late.coverage
  <2>1. UNCHANGED operations \/ CellMoves
    BY DEF BranchesMove, branches, EventMoves, TipMoves, PrivateMoves, AppendEvents,
           AppendCoverage, AppendDerived
  <2> QED BY <1>1, <2>1, CellKeepsReleases
<1>2. ASSUME NEW put \in Coverage, TipNames(put),
             \/ AppendCoverage(put)
             \/ UNCHANGED branches /\ late' = [late EXCEPT !.coverage = @ \union {put}]
      PROVE  ReleaseFacts'
  <2>1. UNCHANGED operations
    BY <1>2 DEF AppendCoverage, branches
  <2> QED BY <1>2, <2>1, TipKeepsReleases
<1> QED BY <1>1, <1>2 DEF TipStep

LEMMA ReadStepKeeps ==
  ASSUME OneEngine, ReleaseInv, OneInv', BranchesMove, NEW x \in Process,
         HeadStep(x), ReadStep(x)
  PROVE  ReleaseInv'
<1> DEFINE w == worker[x]
<1>1. ReleaseFacts'
  BY StepKeepsReleases DEF ReadStep
<1>2. PICK v : Step(x, v) /\ ReadMoves(w, v)
  BY DEF ReadStep
<1>3. /\ worker \in [Process -> Worker] /\ Branches /\ w.o \in 1..Len(operations)
      /\ ReadKnown(w)
  BY DEF ReleaseInv, OneInv, PInv, IInv, FitsNow, Fits, ReadsKnown
<1>4. worker'[x] = v /\ (\A y \in Process : y = x) /\ PlaceMoves(w, v)
  BY <1>2, <1>3 DEF Step, OneEngine, HeadStep
<1>5. (Branches => Tip \in Tips /\ CellNow \in Cells)'
  BY HeadsFit, PTL
<1>6. Branches' /\ Tip' \in Tips' /\ CellNow' \in Cells' /\ Len(operations') \in 1..Len(operations')
  <2>1. Branches'
    BY DEF OneInv, PInv, IInv
  <2> QED BY <1>5, <2>1 DEF Branches
<1>7. ASSUME HasO(v), Live(operations'[v.o]) PROVE Under(v.o)'
  <2>1. CASE v.o = Len(operations')
    BY <1>6, <1>7, <2>1 DEF Under, Live
  <2>2. CASE HasO(w) /\ v.o = w.o
    <3>1. UNCHANGED operations \/ \E put \in OwnedCell : AppendOperations(put)
      BY DEF BranchesMove, branches, EventMoves, CellMoves, TipMoves, PrivateMoves, AppendEvents,
             AppendCoverage, AppendDerived
    <3>2. operations'[w.o] = CellOf(w)
      BY <1>3, <3>1, AfterOperations DEF CellOf
    <3>3. Under(w.o)
      BY <1>3, <1>7, <2>2, <3>2 DEF ReadKnown
    <3>4. CellNow'.state # "idle"
      <4>1. (OneInv /\ HasO(worker[x]) /\ Live(CellOf(worker[x])) =>
               \A cell \in Cells : cell.state # "idle")'
        BY LiveSeen, PTL
      <4>2. HasO(worker[x])' /\ Live(CellOf(worker[x]))'
        BY <1>4, <1>7 DEF HasO, Knowing, CellOf, Live
      <4> QED BY <1>6, <4>1, <4>2
    <3>5. CASE UNCHANGED operations
      BY <2>2, <3>3, <3>5, StillUnder
    <3>6. ASSUME NEW put \in OwnedCell, AppendOperations(put) PROVE Under(v.o)'
      BY <1>3, <2>2, <3>3, <3>4, <3>6, AfterOperations, UnderStays DEF Branches
    <3> QED BY <3>1, <3>5, <3>6
  <2> QED BY <1>4, <1>7, <2>1, <2>2 DEF PlaceMoves
<1>8. ASSUME v.pc = "decide", NEW tip, tip = coverage'[v.c], Held(tip)
      PROVE  NamesThis(tip)'
  <2>1. tip = Tip'
    BY <1>2, <1>8 DEF ReadMoves, Tip
  <2> QED BY <1>1, <1>6, <1>8, <2>1 DEF ReleaseFacts, TipsName, Held
<1>9. ASSUME v.task = "begin" PROVE v.pc \in Beginning /\ Begins(v.ref)'
  <2>1. /\ v.pc \in Beginning /\ UNCHANGED operations /\ late'.operations = late.operations
        /\ Begins(v.ref)
    BY <1>2, <1>3, <1>9 DEF ReadMoves, ReadKnown
  <2>2. Cells' = Cells
    BY <2>1 DEF Cells, CellNow
  <2> QED BY <2>1, <2>2, StillUnder DEF Begins
<1>10. ReadKnown(v)'
  BY <1>7, <1>8, <1>9 DEF ReadKnown, CellOf, HasO, Knowing, Held, Live
<1> QED BY <1>1, <1>4, <1>10 DEF ReleaseInv, ReadsKnown

(* What others do.                                                         *)
LEMMA ElsewhereKeepsReleases ==
  ASSUME ReleaseInv, OneInv', BranchesMove, UNCHANGED worker, TipStep,
         \/ UNCHANGED operations /\ late'.operations = late.operations
         \/ \E put \in late.operations : AppendOperations(put)
  PROVE  ReleaseInv'
<1>1. ReleaseFacts'
  BY StepKeepsReleases
<1>2. Branches /\ Cells \subseteq OwnedCell /\ late.operations \subseteq Cells
  BY HeadsFit DEF ReleaseInv, OneInv, PInv, IInv
<1>3. Cells' \subseteq Cells /\ \A i \in 1..Len(operations) : operations'[i] = operations[i]
  <2>1. CASE UNCHANGED operations /\ late'.operations = late.operations
    BY <2>1 DEF Cells, CellNow
  <2>2. ASSUME NEW put \in late.operations, AppendOperations(put)
        PROVE  Cells' = {put} /\ \A i \in 1..Len(operations) : operations'[i] = operations[i]
    BY <1>2, <2>2, AfterOperations
  <2> QED BY <1>2, <2>1, <2>2
<1>4. ASSUME NEW i, Under(i), \A cell \in Cells : cell.state # "idle" PROVE Under(i)'
  <2>1. CASE UNCHANGED operations
    BY <1>4, <2>1, StillUnder
  <2>2. ASSUME NEW put \in late.operations, AppendOperations(put) PROVE Under(i)'
    <3>1. put.state # "idle" /\ put \in OwnedCell
      BY <1>2, <1>4, <2>2
    <3>2. i \in 1..(Len(operations) + 1)
      BY <1>2, <1>4 DEF Under, Branches
    <3> QED BY <1>2, <1>4, <2>2, <3>1, <3>2, UnderStays
  <2> QED BY <2>1, <2>2
<1>5. \A v \in Coverage : NamesThis(v) /\ (\A cell \in Cells : cell.state # "idle") => NamesThis(v)'
  BY <1>3, <1>4 DEF NamesThis, Under
<1>6. ASSUME NEW x \in Process PROVE ReadKnown(worker[x])'
  <2> PICK w : w = worker[x]
    OBVIOUS
  <2>1. /\ ReadKnown(w) /\ w.o \in 1..Len(operations) /\ w.c \in 1..Len(coverage)
        /\ coverage[w.c] \in Coverage
    BY WhatItKnows DEF ReleaseInv, ReadsKnown, FitsNow, Fits
  <2>2. worker'[x] = w /\ operations'[w.o] = operations[w.o]
    BY <1>3, <2>1
  <2>3. coverage'[w.c] = coverage[w.c]
    <3>1. UNCHANGED coverage \/ \E put \in Coverage : AppendCoverage(put)
      BY DEF TipStep, branches
    <3> QED BY <1>2, <2>1, <3>1, AfterCoverage
  <2>4. HasO(w) /\ Live(CellOf(w)) => \A cell \in Cells : cell.state # "idle"
    BY LiveSeen DEF ReleaseInv
  <2>5. HasO(w) /\ Live(CellOf(w)) => Under(w.o)'
    BY <1>4, <2>1, <2>4 DEF ReadKnown
  <2>6. ASSUME w.pc = "decide", Live(CellOf(w)), NEW tip, tip = coverage[w.c], Held(tip)
        PROVE  NamesThis(tip)'
    <3>1. HasO(w)
      BY <2>6 DEF HasO, Knowing
    <3> QED BY <1>5, <2>1, <2>4, <2>6, <3>1 DEF ReadKnown
  <2>7. ASSUME w.task = "begin" PROVE w.pc \in Beginning /\ Begins(w.ref)'
    <3>1. w.pc \in Beginning /\ Begins(w.ref) /\ w.ref \in 1..Len(operations)
      BY <2>1, <2>7 DEF ReadKnown, Begins, Under
    <3> QED BY <1>3, <1>4, <3>1 DEF Begins
  <2>8. ReadKnown(w)'
    BY <2>2, <2>3, <2>5, <2>6, <2>7 DEF ReadKnown, CellOf, HasO, Knowing, Live
  <2> QED BY <2>2, <2>8
<1> QED BY <1>1, <1>6 DEF ReleaseInv, ReadsKnown



(* Every step of the process is such a step. *)

Calm(v) == v.pc # "decide" /\ v.task # "begin"

LEMMA CalmMoves == \A w, v : Calm(v) => ReadMoves(w, v)
BY DEF Calm, ReadMoves

LEMMA SnapshotsAreCalm ==
  /\ Calm(Idle)
  /\ \A task, ref : task # "begin" => Calm(Snapshot(task, ref))
  /\ \A w : \A v \in Retried(w) : Calm(v)
<1>1. Calm(Idle)
  BY DEF Calm, Idle
<1>2. ASSUME NEW task, NEW ref, task # "begin" PROVE Calm(Snapshot(task, ref))
  BY <1>2 DEF Calm, Snapshot, Idle
<1> QED BY <1>1, <1>2 DEF Retried

LEMMA ReadContinue ==
  ASSUME NEW x \in Process, NEW v, Continue(x, v),
         UNCHANGED <<coverage, operations, late>> => ReadMoves(worker[x], v)
  PROVE  ReadStep(x)
<1>1. UNCHANGED <<coverage, operations, late>> /\ Step(x, v)
  BY DEF Continue, branches
<1> QED BY <1>1 DEF ReadStep, TipStep

LEMMA CalmStep ==
  ASSUME NEW x \in Process, NEW v, Calm(v), Step(x, v),
         UNCHANGED coverage /\ late'.coverage = late.coverage
  PROVE  ReadStep(x)
BY CalmMoves DEF ReadStep, TipStep

LEMMA ReadStop == ASSUME NEW x \in Process, Stop(x) PROVE ReadStep(x)
BY SnapshotsAreCalm, CalmStep DEF Stop, branches

LEMMA ReadCalm ==
  ASSUME NEW x \in Process, NEW v, Calm(v), Continue(x, v) PROVE ReadStep(x)
BY CalmStep DEF Continue, branches

(* Writes of the other branches.                                           *)
LEMMA ReadElsewhere ==
  ASSUME OneInv, NEW x \in Process, NEW put, NEW v, Calm(v),
         NEW onFailure, \A f \in onFailure : Calm(f),
         \/ WriteEvents(x, put, v, onFailure)
         \/ WriteOperations(x, put, v, onFailure)
         \/ WriteDerived(x, put, v)
  PROVE  ReadStep(x)
<1>1. late \in LateWrites
  BY DEF OneInv, PInv, IInv, Branches, LateFits
<1>2. UNCHANGED coverage /\ late'.coverage = late.coverage
  BY <1>1 DEF WriteEvents, WriteOperations, WriteDerived, LoseOrRefuse, AppendEvents,
              AppendOperations, AppendDerived, branches, LateWrites
<1>3. PICK u : Step(x, u) /\ (u = v \/ u \in onFailure \/ u = Idle)
  BY DEF WriteEvents, WriteOperations, WriteDerived, LoseOrRefuse
<1>4. Calm(u)
  BY <1>3, SnapshotsAreCalm
<1> QED BY <1>2, <1>3, <1>4, CalmStep

(* A write over the fence.                                                 *)
LEMMA ReadOverFence ==
  ASSUME OneInv, NEW x \in Process, NEW put \in Coverage, NEW v,
         Len(coverage) = worker[x].c => TipNames(put),
         AppendCoverage(put) => ReadMoves(worker[x], v),
         WriteCoverage(x, put, v)
  PROVE  ReadStep(x)
<1>1. CASE Len(coverage) = worker[x].c /\ AppendCoverage(put) /\ Step(x, v)
  BY <1>1 DEF ReadStep, TipStep
<1>2. CASE LoseOrRefuse(x, Len(coverage) = worker[x].c,
             [late EXCEPT !.coverage = @ \union {put}], {Idle})
  <2>1. Step(x, Idle) /\ UNCHANGED branches
        /\ \/ UNCHANGED late
           \/ /\ Len(coverage) = worker[x].c
              /\ late' = [late EXCEPT !.coverage = @ \union {put}]
    BY <1>2 DEF LoseOrRefuse
  <2>2. TipStep
    BY <2>1 DEF TipStep, branches
  <2> QED BY <2>1, <2>2, SnapshotsAreCalm, CalmMoves DEF ReadStep
<1> QED BY <1>1, <1>2 DEF WriteCoverage

(* ... that leaves it as it is.                                            *)
LEMMA SameFenceNames ==
  ASSUME OneInv, TipsName, NEW put, put.fence = Tip.fence
  PROVE  TipNames(put)
<1>1. Tip \in Tips
  BY HeadsFit DEF OneInv, PInv, IInv
<1> QED BY <1>1 DEF TipNames, LetsGo, TipsName, Held, NamesThis

LEMMA ReadSameFence ==
  ASSUME OneInv, TipsName, NEW x \in Process, NEW put \in Coverage, NEW v, Calm(v),
         put.fence = coverage[worker[x].c].fence, WriteCoverage(x, put, v)
  PROVE  ReadStep(x)
<1>1. Len(coverage) = worker[x].c => TipNames(put)
  BY SameFenceNames, AtTheHeads
<1> QED BY <1>1, CalmMoves, ReadOverFence

(* A fence is taken for a reference of an attempt only.                    *)
LEMMA NotBeginning ==
  ASSUME ReadsKnown, NEW x \in Process, worker[x].pc \notin Beginning
  PROVE  worker[x].task # "begin"
BY DEF ReadsKnown, ReadKnown


(* The steps of a snapshot.                                                *)
LEMMA ReadHeads ==
  ASSUME OneInv, NEW x \in Process,
         \/ StartPrepare(x) \/ StartReconcile(x)
         \/ ReadEvents(x) \/ ReadDerived(x) \/ ReadOperations(x) \/ ReadCoverage(x)
  PROVE  ReadStep(x)
<1> DEFINE w == worker[x]
<1>1. w \in Worker
  BY WhatItKnows
<1>2. Calm(Idle) /\ Calm(Snapshot("prepare", 0)) /\ Calm(Snapshot("recover", 0))
  BY SnapshotsAreCalm
<1>3. ASSUME NEW v, Continue(x, v), v.pc \in Refreshing \union {"check-complete"},
             v.task = w.task, v.ref = w.ref, w.task = "begin" => v.pc # "check-complete"
      PROVE  ReadStep(x)
  BY <1>3, ReadContinue DEF ReadMoves, Beginning, Refreshing
<1>4. CASE ReadEvents(x)
  <2>1. CASE Continue(x, [w EXCEPT !.pc = "derived", !.e = Len(events)])
    <3>1. PICK v : v = [w EXCEPT !.pc = "derived", !.e = Len(events)]
      OBVIOUS
    <3>2. v.pc = "derived" /\ v.task = w.task /\ v.ref = w.ref
      BY <1>1, <3>1 DEF Worker
    <3> QED BY <1>3, <2>1, <3>1, <3>2 DEF Refreshing
  <2> QED BY <1>2, <1>4, <2>1, ReadCalm DEF ReadEvents
<1>5. CASE ReadDerived(x)
  <2>1. CASE Continue(x, [w EXCEPT !.pc = "operations", !.d = Len(derived)])
    <3>1. PICK v : v = [w EXCEPT !.pc = "operations", !.d = Len(derived)]
      OBVIOUS
    <3>2. v.pc = "operations" /\ v.task = w.task /\ v.ref = w.ref
      BY <1>1, <3>1 DEF Worker
    <3> QED BY <1>3, <2>1, <3>1, <3>2 DEF Refreshing
  <2> QED BY <1>2, <1>5, <2>1, ReadCalm DEF ReadDerived
<1>6. CASE ReadOperations(x)
  <2>1. CASE Continue(x, [w EXCEPT !.pc = "coverage", !.o = Len(operations)])
    <3>1. PICK v : v = [w EXCEPT !.pc = "coverage", !.o = Len(operations)]
      OBVIOUS
    <3>2. v.pc = "coverage" /\ v.task = w.task /\ v.ref = w.ref
      BY <1>1, <3>1 DEF Worker
    <3> QED BY <1>3, <2>1, <3>1, <3>2 DEF Refreshing
  <2> QED BY <1>2, <1>6, <2>1, ReadCalm DEF ReadOperations
<1>7. CASE ReadCoverage(x)
  <2>1. PICK v : v = [w EXCEPT !.pc = IF w.task = "refresh" THEN "check-complete"
                                                            ELSE "decide",
                               !.c = Len(coverage)]
    OBVIOUS
  <2>2. /\ v.pc = (IF w.task = "refresh" THEN "check-complete" ELSE "decide")
        /\ v.task = w.task /\ v.ref = w.ref /\ v.c = Len(coverage)
    BY <1>1, <2>1 DEF Worker
  <2>3. Continue(x, v) \/ Continue(x, Idle)
    BY <1>7, <2>1 DEF ReadCoverage
  <2>4. ASSUME UNCHANGED <<coverage, operations, late>> PROVE ReadMoves(w, v)
    BY <2>2, <2>4 DEF ReadMoves, Beginning
  <2> QED BY <1>2, <2>3, <2>4, ReadContinue, ReadCalm
<1> QED BY <1>2, <1>4, <1>5, <1>6, <1>7, ReadCalm DEF StartPrepare, StartReconcile

(* An attempt takes up the execution it finds under way.                   *)
LEMMA ReadRecovered ==
  ASSUME ReleaseInv, NEW x \in Process, Decides(x, "recover"),
         RecoversUnderGuards(worker[x]), Live(CellOf(worker[x]))
  PROVE  Begins(RecoveredReference(worker[x]))
<1> DEFINE w == worker[x]
<1>1. HasO(w) /\ ReadKnown(w)
  BY DEF ReleaseInv, ReadsKnown, Decides, HasO, Knowing
<1>2. \A cell \in Cells : cell.state # "idle"
  BY <1>1, LiveSeen DEF ReleaseInv
<1>3. CASE FenceOf(w).state = "mutation"
  <2>1. NamesThis(coverage[w.c])
    BY <1>1, <1>3 DEF ReadKnown, Held, FenceOf, Decides
  <2> QED BY <1>2, <1>3, <2>1 DEF Begins, NamesThis, RecoveredReference, FenceOf
<1>4. CASE FenceOf(w).state # "mutation"
  BY <1>1, <1>2, <1>4 DEF ReadKnown, Begins, RecoveredReference, CellOf
<1> QED BY <1>3, <1>4

LEMMA ReadRecover ==
  ASSUME ReleaseInv, NEW x \in Process, Recover(x) \/ Settle(x)
  PROVE  ReadStep(x)
<1> DEFINE w == worker[x]
<1>1. w \in Worker /\ w.task # "begin"
  BY WhatItKnows DEF ReleaseInv, Recover, Settle, Decides
<1>2. Calm(Idle)
  BY SnapshotsAreCalm
<1>3. CASE Recover(x) /\ RecoversUnderGuards(w) /\ Live(CellOf(w))
  <2>1. PICK v : v = Snapshot("begin", RecoveredReference(w)) /\ Continue(x, v)
    BY <1>3 DEF Recover
  <2>2. v.pc = "events" /\ v.task = "begin" /\ v.ref = RecoveredReference(w)
    BY <2>1 DEF Snapshot, Idle
  <2>3. Begins(v.ref)
    BY <1>3, <2>2, ReadRecovered DEF Recover
  <2>4. ASSUME UNCHANGED <<coverage, operations, late>> PROVE ReadMoves(w, v)
    BY <2>2, <2>3, <2>4 DEF ReadMoves, Beginning, Refreshing
  <2> QED BY <2>1, <2>4, ReadContinue
<1>4. CASE Continue(x, [w EXCEPT !.pc = "check-public"])
  <2>1. PICK v : v = [w EXCEPT !.pc = "check-public"]
    OBVIOUS
  <2>2. Calm(v)
    BY <1>1, <2>1 DEF Worker, Calm
  <2> QED BY <1>4, <2>1, <2>2, ReadCalm
<1> DEFINE proof == CHOOSE k \in ReleaseProofs(w) : TRUE
<1>5. CASE Continue(x, [w EXCEPT !.pc = "check-complete", !.proof = proof])
  <2> HIDE DEF proof
  <2>1. PICK v : v = [w EXCEPT !.pc = "check-complete", !.proof = proof]
    OBVIOUS
  <2>2. Calm(v)
    BY <1>1, <2>1 DEF Worker, Calm
  <2> QED BY <1>5, <2>1, <2>2, ReadCalm
<1>6. CASE Continue(x, Idle)
  BY <1>2, <1>6, ReadCalm
<1>7. CASE Recover(x)
  BY <1>3, <1>4, <1>5, <1>6, <1>7 DEF Recover
<1>8. CASE Settle(x)
  BY <1>4, <1>6, <1>8 DEF Settle
<1> QED BY <1>7, <1>8


(* The fence is taken for the execution under way, and let go when it is   *)
(* over.                                                                   *)
LEMMA ReadAcquire ==
  ASSUME ReleaseInv, NEW x \in Process, AcquireFence(x)
  PROVE  ReadStep(x)
<1> DEFINE w == worker[x]
           wanted == MutationFence(FenceOf(w), ReferenceAt(w.ref))
<1>1. /\ OneInv /\ Branches /\ w \in Worker /\ Known(w) /\ FitsNow(w) /\ CellOf(w) \in OwnedCell
      /\ coverage[w.c] \in Coverage /\ w.pc = "decide" /\ w.task = "begin" /\ Begins(w.ref)
  BY WhatItKnows DEF ReleaseInv, AcquireFence, Decides, ReadsKnown, ReadKnown
<1>2. CASE Stop(x)
  BY <1>2, ReadStop
<1>3. CASE Continue(x, [w EXCEPT !.pc = "open-marker"])
  <2>1. PICK v : v = [w EXCEPT !.pc = "open-marker"]
    OBVIOUS
  <2>2. v.pc = "open-marker" /\ v.task = w.task /\ v.ref = w.ref
    BY <1>1, <2>1 DEF Worker
  <2>3. ASSUME UNCHANGED <<coverage, operations, late>> PROVE ReadMoves(w, v)
    BY <1>1, <2>2, <2>3 DEF ReadMoves, Beginning
  <2> QED BY <1>3, <2>1, <2>3, ReadContinue
<1>4. CASE /\ CanAcquire(FenceOf(w), CellOf(w), ReferenceAt(w.ref)) /\ MarkerOf(w) = None
           /\ WriteCoverage(x, [coverage[w.c] EXCEPT !.fence = wanted],
                            [w EXCEPT !.pc = "open-marker", !.c = w.c + 1])
  <2>1. PICK put, v : /\ put = [coverage[w.c] EXCEPT !.fence = wanted]
                      /\ v = [w EXCEPT !.pc = "open-marker", !.c = w.c + 1]
    OBVIOUS
  <2>2. put \in Coverage /\ put.fence = wanted
    BY <1>1, <1>4, <2>1 DEF CanAcquire, ReferenceAgrees, MutationFence, ReferenceAt, Reference,
          Fence, Cell, OwnedCell, Worker, Coverage, FenceOf
  <2>3. v.pc = "open-marker" /\ v.task = w.task /\ v.ref = w.ref
    BY <1>1, <2>1 DEF Worker
  <2>4. ASSUME Len(coverage) = w.c PROVE TipNames(put)
    <3>1. Tip = coverage[w.c] /\ Tip \in Tips /\ ~ Held(Tip) /\ CellNow \in Cells
      BY <1>1, <1>4, <2>4, HeadsFit, AtTheHeads DEF Held, FenceOf, CanAcquire
    <3>2. CellKnown(CellOf(w))
      BY <1>1 DEF Known, HasO, Knowing
    <3>3. CellNow.state = "prepared"
      BY <1>4, <3>1, <3>2 DEF CellKnown, CanAcquire
    <3>4. put.fence.prep = w.ref
      BY <2>2 DEF MutationFence, ReferenceAt, Reference
    <3>5. NamesThis(put)
      BY <1>1, <3>4 DEF NamesThis, Begins
    <3> QED BY <3>1, <3>3, <3>5 DEF TipNames, LetsGo
  <2>5. ASSUME AppendCoverage(put) PROVE ReadMoves(w, v)
    <3>1. UNCHANGED operations /\ late'.operations = late.operations
      BY <1>1, <2>2, <2>5, AfterCoverage
    <3> QED BY <1>1, <2>3, <3>1 DEF ReadMoves, Beginning
  <2> QED BY <1>1, <1>4, <2>1, <2>2, <2>4, <2>5, ReadOverFence
<1> QED BY <1>2, <1>3, <1>4 DEF AcquireFence

LEMMA ReadRelease ==
  ASSUME ReleaseInv, NEW x \in Process, ReleaseFence(x)
  PROVE  ReadStep(x)
<1> DEFINE w == worker[x]
<1>1. /\ OneInv /\ Branches /\ w \in Worker /\ Known(w) /\ coverage[w.c] \in Coverage
      /\ w.pc = "release" /\ w.task # "begin"
  BY WhatItKnows, NotBeginning DEF ReleaseInv, ReleaseFence, Beginning, Refreshing
<1>2. CASE Stop(x)
  BY <1>2, ReadStop
<1>3. CASE /\ CanRelease(FenceOf(w), CellOf(w), MarkerOf(w), FencedReference(w), TRUE)
           /\ WriteCoverage(x, [coverage[w.c] EXCEPT !.fence = Released(FenceOf(w))],
                            [w EXCEPT !.pc = "clear", !.c = w.c + 1, !.proof = w.c])
  <2>1. PICK put, v : /\ put = [coverage[w.c] EXCEPT !.fence = Released(FenceOf(w))]
                      /\ v = [w EXCEPT !.pc = "clear", !.c = w.c + 1, !.proof = w.c]
    OBVIOUS
  <2>2. /\ put \in Coverage /\ put.fence = Released(coverage[w.c].fence)
        /\ put.marker = coverage[w.c].marker /\ ~ Held(put)
    BY <1>1, <2>1 DEF Released, IdleFence, Fence, Coverage, FenceOf, Held
  <2>3. Calm(v)
    BY <1>1, <2>1 DEF Worker, Calm
  <2>4. ASSUME Len(coverage) = w.c PROVE TipNames(put)
    <3>1. Tip = coverage[w.c] /\ CellNow \in Cells
      BY <1>1, <2>4, HeadsFit, AtTheHeads
    <3>2. GuardsKnown(w.o, CellOf(w), coverage[w.c])
      BY <1>1 DEF Known, HasC, Knowing
    <3>3. CellNow.state = "terminal"
      BY <1>3, <3>1, <3>2 DEF GuardsKnown, CanRelease, FenceOf, Held
    <3>4. Tip.marker = None
      BY <1>3, <3>1 DEF CanRelease, MarkerOf
    <3> QED BY <2>2, <3>1, <3>3, <3>4 DEF TipNames, LetsGo
  <2> QED BY <1>1, <1>3, <2>1, <2>2, <2>3, <2>4, CalmMoves, ReadOverFence
<1> QED BY <1>2, <1>3 DEF ReleaseFence

(* The other writes over the fence leave it as it is.                      *)
LEMMA ReadUnderFence ==
  ASSUME ReleaseInv, NEW x \in Process,
         OpenMarker(x) \/ PublishCoverage(x) \/ CloseMarker(x)
  PROVE  ReadStep(x)
<1> DEFINE w == worker[x]
<1>1. OneInv /\ TipsName /\ w \in Worker /\ coverage[w.c] \in Coverage
  BY WhatItKnows DEF ReleaseInv, ReleaseFacts
<1>2. CASE Stop(x)
  BY <1>2, ReadStop
<1>3. CASE OpenMarker(x)
  <2>1. PICK append : append = Snapshot("append", w.ref) /\ Calm(append)
    BY SnapshotsAreCalm
  <2>2. CASE Continue(x, append)
    BY <2>1, <2>2, ReadCalm
  <2>3. CASE /\ CanOpen(CellOf(w), FenceOf(w), MarkerOf(w), ReferenceAt(w.ref))
             /\ WriteCoverage(x, [coverage[w.c] EXCEPT !.marker = FenceOf(w).op], append)
    <3>1. PICK put : put = [coverage[w.c] EXCEPT !.marker = FenceOf(w).op]
      OBVIOUS
    <3>2. put \in Coverage /\ put.fence = coverage[w.c].fence
      BY <1>1, <3>1 DEF Coverage, Fence, FenceOf
    <3> QED BY <1>1, <2>1, <2>3, <3>1, <3>2, ReadSameFence
  <2> QED BY <1>2, <1>3, <2>1, <2>2, <2>3 DEF OpenMarker
<1>4. CASE PublishCoverage(x)
  <2>1. w.task # "begin"
    BY <1>4, NotBeginning DEF ReleaseInv, PublishCoverage, Beginning, Refreshing
  <2>2. PICK v, u, put : /\ v = [w EXCEPT !.pc = "check-private"]
                         /\ u = [w EXCEPT !.pc = "check-private", !.c = w.c + 1]
                         /\ put = [coverage[w.c] EXCEPT !.src = w.e]
    OBVIOUS
  <2>3. Calm(v) /\ Calm(u) /\ put \in Coverage /\ put.fence = coverage[w.c].fence
    BY <1>1, <2>1, <2>2 DEF Worker, Coverage, Calm
  <2>4. Continue(x, v) \/ WriteCoverage(x, put, u)
    BY <1>4, <2>2 DEF PublishCoverage
  <2> QED BY <1>1, <2>3, <2>4, ReadCalm, ReadSameFence
<1>5. CASE CloseMarker(x)
  <2> DEFINE next == [w EXCEPT !.pc = IF CellOf(w).state = "appending" THEN "land"
                                                                      ELSE "check-release"]
  <2>1. w.task # "begin"
    BY <1>5, NotBeginning DEF ReleaseInv, CloseMarker, Beginning, Refreshing
  <2>2. PICK t, v, u, put : /\ t = [w EXCEPT !.pc = "clear"]
                            /\ v = next
                            /\ u = [next EXCEPT !.c = w.c + 1]
                            /\ put = [coverage[w.c] EXCEPT !.marker = None]
    OBVIOUS
  <2>3. Calm(t) /\ Calm(v) /\ Calm(u) /\ put \in Coverage /\ put.fence = coverage[w.c].fence
    BY <1>1, <2>1, <2>2 DEF Worker, Coverage, Calm
  <2>4. Continue(x, t) \/ Continue(x, v) \/ WriteCoverage(x, put, u) \/ Stop(x)
    BY <1>5, <2>2 DEF CloseMarker
  <2> QED BY <1>1, <1>2, <2>3, <2>4, ReadCalm, ReadSameFence
<1> QED BY <1>3, <1>4, <1>5


(* The steps that leave the fence alone.                                   *)
LEMMA ReadAppend ==
  ASSUME ReleaseInv, NEW x \in Process,
         \/ Prepare(x) \/ AppendReturns(x) \/ DiscoverLanded(x) \/ FindConflict(x)
         \/ FindInapplicable(x) \/ MissFacts(x) \/ ClaimAppend(x) \/ UpdateEvents(x)
  PROVE  ReadStep(x)
<1> DEFINE w == worker[x]
<1>1. OneInv /\ w \in Worker /\ w.task # "begin"
  BY WhatItKnows, NotBeginning
     DEF ReleaseInv, Prepare, AppendReturns, DiscoverLanded, FindConflict, FindInapplicable,
         MissFacts, ClaimAppend, UpdateEvents, Applicable, Absent, MayAppend, Decides,
         Beginning, Refreshing
<1> PICK settle, repair, retried, quit :
      /\ settle = Snapshot("settle", 0) /\ repair = Snapshot("repair", 0)
      /\ retried = Retried(w) /\ quit = {Idle}
  OBVIOUS
<1>2. /\ settle = Snapshot("settle", 0) /\ Calm(settle)
      /\ repair = Snapshot("repair", 0) /\ Calm(repair)
      /\ retried = Retried(w) /\ \A f \in retried : Calm(f)
      /\ quit = {Idle} /\ Calm(Idle) /\ \A f \in quit : Calm(f)
  BY SnapshotsAreCalm
<1>3. PICK held, written : /\ held = [w EXCEPT !.pc = "publish-event"]
                           /\ written = [w EXCEPT !.pc = "publish-event", !.o = w.o + 1]
  OBVIOUS
<1>4. Calm(held) /\ Calm(written)
  BY <1>1, <1>3 DEF Worker, Calm
<1>5. ASSUME NEW put, NEW v, Calm(v), NEW onFailure, onFailure \in {retried, quit},
             WriteOperations(x, put, v, onFailure)
      PROVE  ReadStep(x)
  BY <1>1, <1>2, <1>5, ReadElsewhere
<1>6. ASSUME NEW head, NEW v, Calm(v), NEW u, Calm(u), ClaimAt(x, head, v, u)
      PROVE  ReadStep(x)
  <2>1. \/ Continue(x, v) \/ Stop(x)
        \/ WriteOperations(x, Claimed(CellOf(w), head), u, retried)
    BY <1>2, <1>6 DEF ClaimAt
  <2> QED BY <1>5, <1>6, <2>1, ReadCalm, ReadStop
<1>7. ASSUME NEW result, NEW onFailure, onFailure \in {retried, quit},
             TerminateAbsent(x, result, onFailure)
      PROVE  ReadStep(x)
  <2>1. \/ WriteOperations(x, TerminalCell(CellOf(w), result, w.e, 0), settle, onFailure)
        \/ Stop(x)
    BY <1>2, <1>7 DEF TerminateAbsent
  <2> QED BY <1>2, <1>5, <1>7, <2>1, ReadStop
<1>8. CASE Prepare(x)
  <2>1. Stop(x) \/ \E op : WriteOperations(x, PreparedCell(op, w.e), Idle, quit)
    BY <1>2, <1>8 DEF Prepare
  <2> QED BY <1>2, <1>5, <2>1, ReadStop
<1>9. CASE AppendReturns(x) \/ MissFacts(x)
  <2>1. Continue(x, settle) \/ Continue(x, repair) \/ Continue(x, Idle)
    BY <1>2, <1>9 DEF AppendReturns, MissFacts
  <2> QED BY <1>2, <2>1, ReadCalm
<1>10. CASE DiscoverLanded(x)
  <2>1. Continue(x, settle) \/ ClaimAt(x, FirstTaken(CellOf(w).op, w.e) - 1, settle, settle)
    BY <1>2, <1>10 DEF DiscoverLanded
  <2> QED BY <1>2, <1>6, <2>1, ReadCalm
<1>11. CASE FindConflict(x) \/ FindInapplicable(x)
  <2>1. Stop(x) \/ \E result, onFailure :
                     /\ onFailure \in {retried, quit}
                     /\ TerminateAbsent(x, result, onFailure)
    BY <1>2, <1>11 DEF FindConflict, FindInapplicable
  <2> QED BY <1>7, <2>1, ReadStop
<1>12. CASE ClaimAppend(x)
  <2>1. ClaimAt(x, w.e, held, written)
    BY <1>3, <1>12 DEF ClaimAppend
  <2> QED BY <1>4, <1>6, <2>1
<1>13. CASE UpdateEvents(x)
  <2>1. WriteEvents(x, CellOf(w).op, settle, retried)
    BY <1>2, <1>13 DEF UpdateEvents
  <2> QED BY <1>1, <1>2, <2>1, ReadElsewhere
<1> QED BY <1>8, <1>9, <1>10, <1>11, <1>12, <1>13

LEMMA ReadPublish ==
  ASSUME ReleaseInv, NEW x \in Process,
         \/ CheckSource(x) \/ PublishShards(x) \/ PublishState(x)
         \/ TerminateLanded(x) \/ Clear(x)
  PROVE  ReadStep(x)
<1> DEFINE w == worker[x]
<1>1. OneInv /\ w \in Worker /\ w.task # "begin"
  BY WhatItKnows, NotBeginning
     DEF ReleaseInv, CheckSource, PublishShards, PublishState, TerminateLanded, Clear,
         SourceCheck, Beginning, Refreshing
<1>2. PICK quit : quit = {Idle} /\ Calm(Idle) /\ \A f \in quit : Calm(f)
  BY SnapshotsAreCalm
<1>3. CASE CheckSource(x)
  <2>1. PICK place : place = SourceCheck[w.pc]
    OBVIOUS
  <2>2. place # "decide"
    BY <1>3, <2>1 DEF CheckSource, SourceCheck
  <2>3. PICK v : v = [w EXCEPT !.pc = place]
    OBVIOUS
  <2>4. Calm(v)
    BY <1>1, <2>2, <2>3 DEF Worker, Calm
  <2>5. Continue(x, v) \/ Continue(x, Idle)
    BY <1>3, <2>1, <2>3 DEF CheckSource
  <2> QED BY <1>2, <2>4, <2>5, ReadCalm
<1>4. ASSUME NEW u \in Worker, u.task # "begin" PROVE Calm(Published(u))
  <2>1. CASE Published(u) = Idle
    BY <1>2, <2>1
  <2>2. CASE Published(u) = [u EXCEPT !.pc = "events", !.task = "refresh"]
    BY <1>4, <2>2 DEF Worker, Calm
  <2> QED BY <2>1, <2>2 DEF Published
<1>5. CASE PublishShards(x)
  <2>1. PICK v : v = [w EXCEPT !.pc = "check-state", !.d = w.d + 1]
    OBVIOUS
  <2>2. Calm(v)
    BY <1>1, <2>1 DEF Worker, Calm
  <2>3. Continue(x, Published(w)) \/ \E put : WriteDerived(x, put, v)
    BY <1>5, <2>1 DEF PublishShards
  <2> QED BY <1>1, <1>2, <1>4, <2>2, <2>3, ReadCalm, ReadElsewhere
<1>6. CASE PublishState(x)
  <2>1. PICK u : u = [w EXCEPT !.d = w.d + 1]
    OBVIOUS
  <2>2. u \in Worker /\ u.task = w.task
    BY <1>1, <2>1 DEF Worker
  <2>3. \E put : WriteDerived(x, put, Published(u))
    BY <1>6, <2>1 DEF PublishState
  <2> QED BY <1>1, <1>2, <1>4, <2>2, <2>3, ReadElsewhere
<1>7. CASE TerminateLanded(x)
  <2>1. PICK v : v = [w EXCEPT !.pc = "check-release", !.o = w.o + 1]
    OBVIOUS
  <2>2. Calm(v)
    BY <1>1, <2>1 DEF Worker, Calm
  <2>3. Stop(x) \/ \E put : WriteOperations(x, put, v, quit)
    BY <1>2, <1>7, <2>1 DEF TerminateLanded
  <2> QED BY <1>1, <1>2, <2>2, <2>3, ReadStop, ReadElsewhere
<1>8. CASE Clear(x)
  <2>1. Stop(x) \/ \E put : WriteOperations(x, put, Idle, quit)
    BY <1>2, <1>8 DEF Clear
  <2> QED BY <1>1, <1>2, <2>1, ReadStop, ReadElsewhere
<1> QED BY <1>3, <1>5, <1>6, <1>7, <1>8

LEMMA ReadSteps ==
  ASSUME ReleaseInv, NEW x \in Process, Proceeds(x)
  PROVE  ReadStep(x)
<1>1. OneInv
  BY DEF ReleaseInv
<1>2. CASE StartPrepare(x) \/ Prepare(x) \/ Reconcile(x)
  BY <1>1, <1>2, ReadHeads, ReadRecover, ReadAcquire, ReadRelease, ReadUnderFence, ReadAppend,
     ReadPublish DEF Reconcile
<1>3. CASE Crash(x)
  BY <1>3, SnapshotsAreCalm, CalmStep DEF Crash, branches
<1> QED BY <1>2, <1>3 DEF Proceeds

(* Deliveries and success checks.                                          *)
LEMMA ReleaseElsewhere ==
  ASSUME ReleaseInv, OneInv', BranchesMove, Environment
  PROVE  ReleaseInv'
<1>1. /\ OneInv /\ Branches /\ GuardsOK /\ ReleaseFacts /\ UNCHANGED worker
      /\ Tip \in Tips /\ Tip \in Coverage /\ late.coverage \subseteq Tips
  BY HeadsFit DEF ReleaseInv, OneInv, PInv, IInv, Environment, Deliver, ReserveSuccess,
                  ReleaseSuccess, Compete
<1>2. late \in LateWrites
  BY <1>1 DEF Branches, LateFits
<1>3. ASSUME NEW op \in Operation, AppendEvents(op) PROVE ReleaseInv'
  <2>1. UNCHANGED <<operations, coverage>> /\ late'.operations = late.operations
        /\ late'.coverage = late.coverage
    BY <1>1, <1>3, AfterEvents
  <2> QED BY <1>1, <2>1, ElsewhereKeepsReleases DEF TipStep
<1>4. ASSUME NEW put \in late.operations, AppendOperations(put) PROVE ReleaseInv'
  <2>1. UNCHANGED coverage /\ late'.coverage = late.coverage
    BY <1>2, <1>4 DEF AppendOperations, LateWrites
  <2> QED BY <1>1, <1>4, <2>1, ElsewhereKeepsReleases DEF TipStep
<1>5. ASSUME NEW put \in Coverage, AppendCoverage(put), TipNames(put) PROVE ReleaseInv'
  <2>1. UNCHANGED operations /\ late'.operations = late.operations
    BY <1>1, <1>5, AfterCoverage
  <2>2. TipStep
    BY <1>5 DEF TipStep
  <2> QED BY <1>1, <2>1, <2>2, ElsewhereKeepsReleases
<1>6. ASSUME NEW put \in late.derived, AppendDerived(put) PROVE ReleaseInv'
  <2>1. UNCHANGED <<operations, coverage>> /\ late'.operations = late.operations
        /\ late'.coverage = late.coverage
    BY <1>2, <1>6 DEF AppendDerived, LateWrites
  <2> QED BY <1>1, <2>1, ElsewhereKeepsReleases DEF TipStep
<1>7. ASSUME NEW put \in late.coverage PROVE put \in Coverage /\ TipNames(put)
  BY <1>1, <1>2, <1>7
     DEF LateWrites, TipNames, ReleaseFacts, LateLetsGo, TipsName, GuardsOK, TipsOK, Acquirable
<1>8. CASE Deliver
  BY <1>2, <1>3, <1>4, <1>5, <1>6, <1>7, <1>8 DEF Deliver, LateWrites
<1>9. CASE ReserveSuccess
  <2>1. PICK put : put = [Tip EXCEPT !.fence = ReservedFence(@)]
    OBVIOUS
  <2>2. put \in Coverage /\ ~ Held(put) /\ ~ Held(Tip)
    BY <1>1, <1>9, <2>1 DEF ReserveSuccess, CanReserve, Coverage, ReservedFence, Fence, Held
  <2>3. TipNames(put)
    BY <2>2 DEF TipNames, LetsGo
  <2> QED BY <1>5, <1>9, <2>1, <2>2, <2>3 DEF ReserveSuccess
<1>10. CASE ReleaseSuccess
  <2>1. PICK put : put = [Tip EXCEPT !.fence = Released(@)]
    OBVIOUS
  <2>2. put \in Coverage /\ ~ Held(put) /\ ~ Held(Tip)
    BY <1>1, <1>10, <2>1 DEF ReleaseSuccess, Coverage, Released, IdleFence, Fence, Held
  <2>3. TipNames(put)
    BY <2>2 DEF TipNames, LetsGo
  <2> QED BY <1>5, <1>10, <2>1, <2>2, <2>3 DEF ReleaseSuccess
<1>11. CASE \E op \in Competitor : Compete(op)
  BY <1>3, <1>11, CompetitorsAreOperations DEF Compete
<1> QED BY <1>8, <1>9, <1>10, <1>11 DEF Environment

LEMMA ReleaseNext ==
  ASSUME OneEngine, ReleaseInv, [Next]_vars
  PROVE  ReleaseInv' /\ BranchesMove
<1>1. OneInv' /\ BranchesMove
  BY OneNext DEF ReleaseInv
<1>2. ASSUME NEW x \in Process, HeadStep(x), ReadStep(x) PROVE ReleaseInv'
  BY <1>1, <1>2, ReadStepKeeps
<1>3. CASE Environment
  BY <1>1, <1>3, ReleaseElsewhere
<1>4. CASE UNCHANGED vars
  <2>1. UNCHANGED <<operations, coverage, worker>> /\ late' = late
    BY <1>4 DEF vars
  <2> QED BY <1>1, <2>1, ElsewhereKeepsReleases DEF TipStep
<1>5. ASSUME NEW x \in Process, Proceeds(x) PROVE ReleaseInv'
  BY <1>2, <1>5, HeadSteps, ReadSteps DEF ReleaseInv
<1> QED BY <1>1, <1>3, <1>4, <1>5 DEF Next, Proceeds

LEMMA ReleaseStarts == Init => ReleaseInv
<1> SUFFICES ASSUME Init PROVE ReleaseInv
  OBVIOUS
<1>1. /\ operations = <<IdleCell>> /\ Len(coverage) = 1 /\ late.coverage = {}
      /\ Tips = {Tip} /\ ~ Held(Tip) /\ CellNow.state = "idle"
      /\ \A x \in Process : worker[x] = Idle
  BY DEF Init, NothingLate, CellNow, Tip, Tips, Held, IdleFence, IdleCell
<1>2. \A i : ~ Under(i)
  BY <1>1 DEF Under, IdleCell
<1>3. Releases = {}
  BY <1>2 DEF Releases
<1>4. ReleaseFacts
  BY <1>1, <1>2, <1>3 DEF ReleaseFacts, ReleasedOnce, SameExecution, TipsName,
                          TerminalAfterLive, LateLetsGo
<1>5. ReadKnown(Idle)
  BY DEF ReadKnown, Idle, HasO, Knowing
<1> QED BY <1>1, <1>4, <1>5, OneStarts DEF ReleaseInv, ReadsKnown


-----------------------------------------------------------------------------
(* What a reader of coverage ancestry can tell. *)

(* Whatever fence was in force named a live commit of its own operation,   *)
(* and the first cell is idle.                                             *)
Traced(v) ==
  Held(v) => /\ Live(operations[v.fence.prep])
             /\ v.fence.op = operations[v.fence.prep].op

Traces ==
  /\ operations[1].state = "idle"
  /\ \A k \in 1..Len(coverage) : Traced(coverage[k])

LEMMA TipTraced == ASSUME ReleaseInv PROVE Traced(Tip)
<1> SUFFICES ASSUME Held(Tip) PROVE Traced(Tip)
  BY DEF Traced
<1>1. Branches /\ GuardsOK /\ ReleaseFacts /\ Tip \in Tips /\ CellNow \in Cells
  BY HeadsFit DEF ReleaseInv, OneInv, PInv, IInv
<1>2. NamesThis(Tip) /\ CellNow.state # "idle" /\ Tip.fence.op = CellNow.op
  BY <1>1, WhatBoundSays DEF ReleaseFacts, TipsName, GuardsOK, GuardsBound
<1>3. Under(Len(operations))
  BY <1>1, <1>2 DEF Under, CellNow, Branches
<1>4. operations[Tip.fence.prep].op = CellNow.op
  BY <1>1, <1>2, <1>3 DEF ReleaseFacts, SameExecution, NamesThis, CellNow, Under
<1> QED BY <1>2, <1>4 DEF Traced, NamesThis

LEMMA TracesStay ==
  ASSUME ReleaseInv, ReleaseInv', BranchesMove, Traces
  PROVE  Traces'
<1>1. Branches /\ \A k \in 1..Len(coverage) : Named(coverage[k])
  BY DEF ReleaseInv, OneInv, PInv, IInv, GuardsOK, NamesExist
<1>2. /\ \A i \in 1..Len(operations) : operations'[i] = operations[i]
      /\ UNCHANGED coverage \/ \E put \in Coverage : AppendCoverage(put)
  <2>1. UNCHANGED operations \/ \E put \in OwnedCell : AppendOperations(put)
    BY DEF BranchesMove, branches, EventMoves, CellMoves, TipMoves, PrivateMoves, AppendEvents,
           AppendCoverage, AppendDerived
  <2>2. UNCHANGED coverage \/ \E put \in Coverage : AppendCoverage(put)
    BY DEF BranchesMove, branches, EventMoves, CellMoves, TipMoves, PrivateMoves, AppendEvents,
           AppendOperations, AppendDerived
  <2> QED BY <1>1, <2>1, <2>2, AfterOperations
<1>3. operations'[1].state = "idle"
  <2>1. Len(operations) \in Nat /\ Len(operations) >= 1
    BY <1>1 DEF Branches
  <2> QED BY <1>2, <2>1 DEF Traces
<1>4. ASSUME NEW v, Named(v), Traced(v) PROVE Traced(v)'
  BY <1>2, <1>4 DEF Named, Traced, Held, Live
<1>5. (ReleaseInv => Traced(Tip))'
  BY TipTraced, PTL
<1>6. CASE UNCHANGED coverage
  <2>1. ASSUME NEW k \in 1..Len(coverage), NEW v, v = coverage[k] PROVE Traced(v)'
    BY <1>1, <1>4, <2>1 DEF Traces
  <2> QED BY <1>3, <1>6, <2>1 DEF Traces
<1>7. ASSUME NEW put \in Coverage, AppendCoverage(put) PROVE Traces'
  <2>1. /\ Tip' = put /\ Len(coverage') = Len(coverage) + 1
        /\ coverage'[Len(coverage) + 1] = put
        /\ \A k \in 1..Len(coverage) : coverage'[k] = coverage[k]
    BY <1>1, <1>7, AfterCoverage
  <2>2. Traced(put)'
    BY <1>5, <2>1 DEF Traced, Held, Live
  <2>3. \A k \in 1..Len(coverage) : Traced(coverage[k])'
    BY <1>1, <1>4, <2>1 DEF Traces, Traced, Held, Live
  <2>4. Len(coverage) \in Nat
    BY <1>1 DEF Branches
  <2>5. ASSUME NEW k \in 1..Len(coverage'), NEW v, v = coverage'[k] PROVE Traced(v)'
    BY <2>1, <2>2, <2>3, <2>4, <2>5 DEF Traced, Held, Live
  <2> QED BY <1>3, <2>5 DEF Traces
<1> QED BY <1>2, <1>6, <1>7


TraceInv == ReleaseInv /\ Traces

LEMMA TraceNext ==
  ASSUME OneEngine PROVE TraceInv /\ [Next]_vars => TraceInv'
BY ReleaseNext, TracesStay DEF TraceInv

LEMMA TraceStarts == Init => TraceInv
<1> SUFFICES ASSUME Init PROVE TraceInv
  OBVIOUS
<1>1. operations = <<IdleCell>> /\ Len(coverage) = 1 /\ ~ Held(coverage[1])
  BY DEF Init, Held, IdleFence
<1>2. Traces
  BY <1>1 DEF Traces, Traced, IdleCell
<1> QED BY <1>2, ReleaseStarts DEF TraceInv

(* The execution under way is what lies between the last idle cell and the *)
(* terminal one.                                                           *)
LEMMA ExecutionIsUnderWay ==
  ASSUME TraceInv, CellNow.state = "terminal",
         NEW now, now.o = Len(operations)
  PROVE  /\ Predecessor(now) = Len(operations) - 1
         /\ \A i : i \in Execution(now) <=> i \in 1..(Len(operations) - 1) /\ Under(i)
<1> DEFINE n == Len(operations)
           others == {0} \union {i \in 1..n : operations[i] # CellNow}
           idles == {j \in 1..(n - 1) : operations[j].state = "idle"}
<1>1. /\ n \in Nat /\ n > 1 /\ Live(operations[n - 1]) /\ CellNow = operations[n]
      /\ operations[n].state = "terminal"
      /\ CellOf(now) = CellNow /\ operations[1].state = "idle"
  BY DEF TraceInv, ReleaseInv, ReleaseFacts, TerminalAfterLive, OneInv, PInv, IInv, Branches,
         CellNow, CellOf, Traces
<1>2. Predecessor(now) = n - 1
  <2>1. n - 1 \in others /\ others \subseteq 0..(n - 1)
    BY <1>1 DEF Live
  <2>2. Predecessor(now) = Max(others)
    BY <1>1 DEF Predecessor
  <2> HIDE DEF others
  <2>3. n - 1 \in Nat /\ others # {}
    BY <1>1, <2>1
  <2>4. PICK m : m = Max(others)
    OBVIOUS
  <2>5. m \in others /\ \A i \in others : i <= m
    BY <2>1, <2>3, <2>4, MaxChosen
  <2>6. m \in 0..(n - 1) /\ n - 1 <= m
    BY <2>1, <2>5
  <2> QED BY <1>1, <2>2, <2>4, <2>6
<1>3. PICK b : b = Max(idles)
  OBVIOUS
<1>4. /\ b \in 1..(n - 1) /\ operations[b].state = "idle"
      /\ \A j \in 1..(n - 1) : operations[j].state = "idle" => j <= b
  <2>1. 1 \in idles /\ idles \subseteq 0..(n - 1)
    BY <1>1
  <2>2. b \in idles /\ \A j \in idles : j <= b
    <3> HIDE DEF idles
    <3>1. n - 1 \in Nat /\ idles # {}
      BY <1>1, <2>1
    <3> QED BY <1>3, <2>1, <3>1, MaxChosen
  <2> QED BY <2>2
<1>5. Execution(now) = (b + 1)..(n - 1)
  BY <1>2, <1>3 DEF Execution, Boundary
<1>6. ASSUME NEW i \in 1..(n - 1)
      PROVE  i > b <=> \A j \in i..n : operations[j].state # "idle"
  <2>1. ASSUME i > b, NEW j \in i..n PROVE operations[j].state # "idle"
    <3>1. j = n \/ (j \in 1..(n - 1) /\ j > b)
      BY <1>1, <1>4, <2>1
    <3> QED BY <1>1, <1>4, <3>1
  <2>2. ASSUME i <= b PROVE b \in i..n
    BY <1>1, <1>4, <2>2
  <2> QED BY <1>1, <1>4, <2>1, <2>2
<1>7. \A i \in 1..(n - 1) : i \in (b + 1)..(n - 1) <=> Under(i)
  BY <1>1, <1>4, <1>6 DEF Under
<1>8. \A i \in (b + 1)..(n - 1) : i \in 1..(n - 1)
  BY <1>1, <1>4
<1> QED BY <1>2, <1>5, <1>7, <1>8

(* The releases in ancestry are the evidence recovery looks for.           *)
LEMMA ReleasesAreEvidence ==
  ASSUME TraceInv, CellNow.state = "terminal",
         NEW now, now.o = Len(operations), now.c = Len(coverage)
  PROVE  ReleaseProofs(now) = Releases
<1> DEFINE n == Len(operations)
<1>1. /\ Branches /\ SameExecution /\ n \in Nat /\ n > 1 /\ Live(operations[n - 1])
      /\ CellNow = operations[n] /\ CellOf(now) = CellNow
      /\ \A k \in 1..Len(coverage) : Named(coverage[k]) /\ Traced(coverage[k])
  <2>1. Branches /\ GuardsOK /\ SameExecution /\ TerminalAfterLive /\ Traces
    BY DEF TraceInv, ReleaseInv, ReleaseFacts, OneInv, PInv, IInv
  <2>2. n \in Nat /\ n > 1 /\ Live(operations[n - 1])
    BY <2>1 DEF Branches, TerminalAfterLive
  <2>3. CellNow = operations[n] /\ CellOf(now) = CellNow
    BY DEF CellNow, CellOf
  <2> QED BY <2>1, <2>2, <2>3 DEF Traces, GuardsOK, NamesExist
<1>2. /\ Predecessor(now) = n - 1
      /\ \A i : i \in Execution(now) <=> i \in 1..(n - 1) /\ Under(i)
  BY ExecutionIsUnderWay
<1>3. Under(n - 1) /\ Under(n)
  <2>1. \A j \in (n - 1)..n : j = n - 1 \/ j = n
    BY <1>1
  <2>2. \A j \in n..n : j = n
    BY <1>1
  <2>3. n \in 1..n /\ n - 1 \in 1..n
    BY <1>1
  <2>4. operations[n].state # "idle" /\ operations[n - 1].state # "idle"
    BY <1>1 DEF Live
  <2> QED BY <2>1, <2>2, <2>3, <2>4 DEF Under
<1>4. ASSUME NEW k \in ReleaseProofs(now) PROVE k \in Releases
  BY <1>2, <1>4 DEF ReleaseProofs, Releases, IsRelease, Held
<1>5. ASSUME NEW k \in Releases PROVE k \in ReleaseProofs(now)
  <2>1. PICK owner : owner = coverage[k].fence
    OBVIOUS
  <2>2. /\ k \in 1..(now.c - 1) /\ owner.state = "mutation" /\ Under(owner.prep)
        /\ coverage[k + 1].fence = Released(owner)
        /\ coverage[k].marker = None /\ coverage[k + 1].marker = None
    BY <1>5, <2>1 DEF Releases, IsRelease, Held
  <2>3. k \in 1..Len(coverage)
    BY <1>1, <2>2 DEF Branches
  <2>4. owner.prep \in 1..n /\ Live(operations[owner.prep]) /\ owner.op = operations[owner.prep].op
    BY <1>1, <2>1, <2>2, <2>3 DEF Named, Traced, Held
  <2>5. owner.prep \in Execution(now)
    BY <1>1, <1>2, <2>2, <2>4 DEF Live
  <2>6. /\ operations[owner.prep].op = operations[n - 1].op
        /\ operations[owner.prep].base = operations[n - 1].base
        /\ operations[owner.prep].op = CellNow.op
    BY <1>1, <1>3, <2>2, <2>4 DEF SameExecution
  <2>7. /\ owner.op = CellOf(now).op
        /\ operations[owner.prep].op = operations[Predecessor(now)].op
        /\ operations[owner.prep].base = operations[Predecessor(now)].base
    BY <1>1, <1>2, <2>4, <2>6
  <2> QED BY <2>1, <2>2, <2>5, <2>7 DEF ReleaseProofs
<1> QED BY <1>4, <1>5

LEMMA ProvedNow == ASSUME TraceInv PROVE ReleaseIsProved
<1> SUFFICES ASSUME CellNow.state = "terminal", Tip.fence.state # "mutation"
             PROVE  ReleaseIsProved
  BY DEF ReleaseIsProved
<1>1. PICK now : now = [Idle EXCEPT !.e = Len(events), !.o = Len(operations),
                                    !.c = Len(coverage)]
  OBVIOUS
<1>2. now.o = Len(operations) /\ now.c = Len(coverage)
  BY <1>1 DEF Idle
<1>3. ReleaseProofs(now) = Releases
  BY <1>2, ReleasesAreEvidence
<1>4. Releases # {} /\ \A k, l \in Releases : k = l
  BY DEF TraceInv, ReleaseInv, ReleaseFacts, ReleasedOnce, Held
<1>5. PICK k : Releases = {k}
  BY <1>4
<1>6. Cardinality(ReleaseProofs(now)) = 1
  BY <1>3, <1>5, FS_Singleton
<1> QED BY <1>1, <1>6 DEF ReleaseIsProved

(* With one engine, whoever finds a terminal cell under a fence that was   *)
(* let go finds exactly one release by this execution in coverage          *)
(* ancestry: repair after a crash before the clear is never stuck for want *)
(* of evidence, nor left to choose.                                        *)
THEOREM OneReleaseIsProved == ASSUME OneEngine PROVE Spec => []ReleaseIsProved
<1>1. TraceInv /\ [Next]_vars => TraceInv'
  BY TraceNext
<1>2. TraceInv => ReleaseIsProved
  BY ProvedNow
<1> QED BY <1>1, <1>2, TraceStarts, PTL DEF Spec

=============================================================================
