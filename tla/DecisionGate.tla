---------------------------- MODULE DecisionGate ----------------------------
(***************************************************************************)
(* What the mutation engine promises an authoritative check, whatever it   *)
(* crashes on: canonical history grows only while the decision gate is     *)
(* held for a mutation, the public projection only moves forward along     *)
(* it, and the gate reopens only once the projection covers all of it.  A  *)
(* check that reserves the gate therefore decides on complete coverage     *)
(* that stays complete until it lets go.                                   *)
(***************************************************************************)
EXTENDS Naturals, Sequences

CONSTANT Operation

VARIABLES
  log,      \* the canonical events
  covered,  \* how many of them the public projection reflects
  gate

Init ==
  /\ log = <<>>
  /\ covered = 0
  /\ gate = "idle"

Enter ==
  /\ gate = "idle"
  /\ gate' = "mutation"
  /\ UNCHANGED <<log, covered>>

Land(op) ==
  /\ gate = "mutation"
  /\ log' = Append(log, op)
  /\ UNCHANGED <<covered, gate>>

Cover ==
  /\ gate = "mutation"
  /\ covered' = Len(log)
  /\ UNCHANGED <<log, gate>>

Leave ==
  /\ gate = "mutation"
  /\ covered = Len(log)
  /\ gate' = "idle"
  /\ UNCHANGED <<log, covered>>

Reserve ==
  /\ gate = "idle"
  /\ gate' = "success_reserved"
  /\ UNCHANGED <<log, covered>>

Confirm ==
  /\ gate = "success_reserved"
  /\ gate' = "idle"
  /\ UNCHANGED <<log, covered>>

Next ==
  \/ Enter \/ Cover \/ Leave \/ Reserve \/ Confirm
  \/ \E op \in Operation : Land(op)

Spec == Init /\ [][Next]_<<log, covered, gate>>
=============================================================================
