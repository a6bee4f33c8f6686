------------------------------ MODULE Agreement ------------------------------
(***************************************************************************)
(* Agreement currency and contributor decisions, as replay.py folds them   *)
(* from the canonical events of one connected project.  An event replay    *)
(* refuses is corruption and never part of a valid history, so each action *)
(* is one accepted event: its guard is every check of the handler, its     *)
(* effect the state the handler records.                                   *)
(*                                                                         *)
(* What an event repeats because replay makes it (the exact accepted       *)
(* versions, the publication's event, the recipient, the configured        *)
(* fields) is implied by the action's parameters.  Activations are known   *)
(* by their content: a restore copies it and nothing else of the event, so *)
(* two activations with one content are interchangeable.  So are the       *)
(* acceptances of one contributor to one version.                          *)
(***************************************************************************)
EXTENDS Lifecycle, Evaluation

CONSTANT Contributor

VARIABLES
  publications,  \* the published versions
  active,        \* active_version
  accepted,      \* accepted_versions
  retired,       \* retired_versions
  activations,   \* the ordinary activations of the history
  decisions      \* tuple_decisions

vars == <<project, publications, active, accepted, retired, activations, decisions>>

currency == <<active, accepted, retired, activations>>

Activation == [version : Version, supersedes : BOOLEAN, accepted : SUBSET Version]

Init ==
  /\ project = "active"
  /\ publications = {}
  /\ active = None
  /\ accepted = {}
  /\ retired = {}
  /\ activations = {}
  /\ decisions = [c \in Contributor |-> NoDecision]

Succeed ==
  /\ Succeeds
  /\ UNCHANGED <<publications, currency, decisions>>

CanPublish(v) == project = "active" /\ v \notin publications

Publish(v) ==
  /\ CanPublish(v)
  /\ publications' = publications \union {v}
  /\ UNCHANGED <<project, currency, decisions>>

-----------------------------------------------------------------------------
(* Currency. *)

AcceptedBesidesActive(v, supersedes) ==
  IF supersedes THEN {v} ELSE ({active} \ {None}) \union {v}

AcceptedAfter(v, supersedes) == IF supersedes THEN {v} ELSE accepted \union {v}

RetiredAfter(v, supersedes) ==
  IF supersedes THEN (retired \union accepted) \ {v} ELSE retired

CanActivateAny(v, supersedes) ==
  /\ project = "active"
  /\ v \in publications

(* A retired version is not revived, and an activation changes something. *)
CanActivate(v, supersedes) ==
  /\ project = "active"
  /\ v \in publications
  /\ v \notin retired
  /\ ~ /\ active = v
       /\ accepted = AcceptedAfter(v, supersedes)
       /\ retired = RetiredAfter(v, supersedes)

OnlyLatest(activation) == {activation}

Recorded(activation) == activations \union {activation}

Activate(v, supersedes) ==
  /\ CanActivate(v, supersedes)
  /\ active' = v
  /\ accepted' = AcceptedAfter(v, supersedes)
  /\ retired' = RetiredAfter(v, supersedes)
  /\ activations' = Recorded([version |-> v, supersedes |-> supersedes,
                              accepted |-> AcceptedAfter(v, supersedes)])
  /\ UNCHANGED <<project, publications, decisions>>

EverRetired(activation) == retired \union accepted

RetiredAfterRestore(activation) == (retired \union accepted) \ activation.accepted

CanRestore(activation) ==
  /\ project = "active"
  /\ activation \in activations
  /\ ~ (active = activation.version /\ accepted = activation.accepted)

Restore(activation) ==
  /\ CanRestore(activation)
  /\ active' = activation.version
  /\ accepted' = activation.accepted
  /\ retired' = RetiredAfterRestore(activation)
  /\ UNCHANGED <<project, publications, activations, decisions>>

-----------------------------------------------------------------------------
(* Contributors. *)

Covered(c) == EffectiveDecision(decisions[c], accepted) = "covered"

(* Acceptance of the active version: a correction of the acceptance in     *)
(* force, which must be of the same version, or a first signature for one  *)
(* whom no accepted version covers.                                        *)
CanAccept(c, v, corrects) ==
  /\ project = "active"
  /\ active # None
  /\ v = active
  /\ IF corrects THEN decisions[c] = Acceptance(v) ELSE ~ Covered(c)

Accept(c, v, corrects) ==
  /\ CanAccept(c, v, corrects)
  /\ decisions' = [decisions EXCEPT ![c] = Acceptance(v)]
  /\ UNCHANGED <<project, publications, currency>>

Revoked == Revocation

(* Also of an acceptance that no longer covers, and after success. *)
CanRevoke(c) == decisions[c].kind = "acceptance"

Revoke(c) ==
  /\ CanRevoke(c)
  /\ decisions' = [decisions EXCEPT ![c] = Revoked]
  /\ UNCHANGED <<project, publications, currency>>

Next ==
  \/ Succeed
  \/ \E v \in Version : Publish(v)
  \/ \E v \in Version, supersedes \in BOOLEAN : Activate(v, supersedes)
  \/ \E activation \in activations : Restore(activation)
  \/ \E c \in Contributor, v \in Version, corrects \in BOOLEAN : Accept(c, v, corrects)
  \/ \E c \in Contributor : Revoke(c)

Spec == Init /\ [][Next]_vars

-----------------------------------------------------------------------------
(* The shape of the replayed state. *)
TypeOK ==
  /\ project \in {"active", "succeeded"}
  /\ publications \subseteq Version
  /\ active \in Version \union {None}
  /\ accepted \subseteq Version
  /\ retired \subseteq Version
  /\ activations \subseteq Activation
  /\ decisions \in [Contributor -> Decision]

(* The currency a history reaches can always be projected: _active of the  *)
(* coverage projection, and ActiveAgreement, raise on anything else.  A    *)
(* history that broke this would land and then fail every publication,     *)
(* with the decision fence held.                                           *)
Materializable ==
  /\ accepted \intersect retired = {}
  /\ IF active = None THEN accepted = {} /\ retired = {} ELSE active \in accepted

(* Nobody is covered without having assented: a contributor becomes        *)
(* covered only by signing the version active at that moment, or because a *)
(* restore brings back the version of a signature that still is their last *)
(* decision.  No activation, and nothing after success, can do it.         *)
CoverageIsAssented ==
  [][\A c \in Contributor :
       ~ Covered(c) /\ Covered(c)' =>
         \/ Accept(c, active, FALSE)
         \/ /\ \E activation \in activations : Restore(activation)
            /\ decisions[c].kind = "acceptance"
            /\ decisions'[c] = decisions[c]]_vars

(* An activation does to coverage what it declares (REQ-AGR-2): without    *)
(* supersedes_coverage exactly the same contributors stay covered, with it *)
(* only those who signed the version it activates.                         *)
ActivationAsDeclared ==
  [][\A v \in Version, c \in Contributor :
       /\ Activate(v, FALSE) => (Covered(c)' <=> Covered(c))
       /\ Activate(v, TRUE) => (Covered(c)' <=> Covered(c) /\ decisions[c].version = v)]_vars

(* Retiring a version is never irreversible while the project is active:   *)
(* some activation of the history can be restored and makes it the active  *)
(* version again.                                                          *)
RetiredIsRestorable ==
  project = "active" =>
    \A v \in retired : \E activation \in activations :
      /\ activation.version = v
      /\ v \in activation.accepted
      /\ CanRestore(activation)

(* Whatever else is true of a contributor, the merge gate, the reader's    *)
(* status and the replay query give one answer, an override is reported    *)
(* only where nothing else covers, and a signature that does not cover is  *)
(* always of a retired version: a reader is never told it is of a version  *)
(* that was not accepted.                                                  *)
EvaluatorsAgree ==
  project = "active" =>
    \A c \in Contributor, exempt, inflight, granted \in BOOLEAN :
      LET gate   == EvaluateSubject(project, decisions[c], accepted,
                                    exempt, inflight, granted)
          reader == ResolveReadStatus(decisions[c], accepted, retired, exempt, inflight)
      IN
      /\ (gate.decision = "covered") <=>
           gate.overridden \/ reader.status \in {"current", "exempt"}
      /\ ~ gate.overridden => gate.reason = reader.generic
      /\ ~ inflight => (Covered(c) <=> gate.reason = "signed")
      /\ reader.reason # "version_not_accepted"
=============================================================================
