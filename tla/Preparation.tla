----------------------------- MODULE Preparation -----------------------------
(***************************************************************************)
(* How the events of agreements, contributors and enforcement scope are    *)
(* prepared: the facts events.py demands of them, read from the stored     *)
(* projections and the signed registry at the head the event will follow.  *)
(* Replay judges the same events by handlers of its own.                   *)
(*                                                                         *)
(* Publications, activations and acceptances are read where they are       *)
(* stored: the event at its path is in the history, and repeats what the   *)
(* later event says of it.  The registry is external; its entry is what    *)
(* the history accounts for.                                               *)
(***************************************************************************)
EXTENDS Agreement, Scope

(* agreements/active.enc.json, as coverage.py projects it. *)
ActiveAgreement == [active |-> active, accepted |-> accepted, retired |-> retired]

(* What a reader of that file demands of it. *)
IsActiveAgreement(file) ==
  /\ file.accepted \intersect file.retired = {}
  /\ IF file.accepted = {} THEN file.active = None /\ file.retired = {}
     ELSE file.active \in file.accepted

PreparesPublication(v) ==
  /\ LifecyclePermits("agreement_published", FALSE)
  /\ v \notin publications

AcceptedUnion(v, supersedes) == ActiveAgreement.accepted \union {v}

(* The exact transition of an activation. *)
ExpectedAccepted(v, supersedes) ==
  IF supersedes THEN {v} ELSE ActiveAgreement.accepted \union {v}

PreparesActivation(v, supersedes, versions) ==
  /\ LifecyclePermits("agreement_activated", FALSE)
  /\ IsActiveAgreement(ActiveAgreement)
  /\ v \in publications
  /\ v \notin ActiveAgreement.retired
  /\ versions = ExpectedAccepted(v, supersedes)

(* A restore names an ordinary activation and copies its versions. *)
PreparesRestore(activation, versions) ==
  /\ LifecyclePermits("agreement_activation_restored", FALSE)
  /\ IsActiveAgreement(ActiveAgreement)
  /\ activation \in activations
  /\ activation.version \in activation.accepted
  /\ versions = activation.accepted

(* _expected_active_agreement: the projection that must follow. *)
ExpectedAfterActivation(v, supersedes, versions) ==
  [active |-> v, accepted |-> versions,
   retired |-> IF supersedes
               THEN (ActiveAgreement.retired \union ActiveAgreement.accepted) \ {v}
               ELSE ActiveAgreement.retired]

ExpectedAfterRestore(activation, versions) ==
  [active |-> activation.version, accepted |-> versions,
   retired |-> (ActiveAgreement.retired \union ActiveAgreement.accepted) \ versions]

(* An acceptance of the version that is active, with its publication; a    *)
(* correction names the acceptance in force (superseded-acceptance and     *)
(* current-acceptance-basis).                                              *)
PreparesAcceptance(c, v, corrects) ==
  /\ LifecyclePermits("acceptance", FALSE)
  /\ ActiveAgreement.active # None
  /\ v = ActiveAgreement.active
  /\ v \in ActiveAgreement.accepted /\ v \notin ActiveAgreement.retired
  /\ ActiveAgreement.accepted \intersect ActiveAgreement.retired = {}
  /\ corrects => decisions[c].kind = "acceptance" /\ decisions[c].version = v

-----------------------------------------------------------------------------
(* The registry entry the project is routed by. *)
Entry ==
  [scope |-> scope, generation |-> generation,
   links |-> {c \in Change : requests[c].status = "activated"}]

Narrows(c) == requests[c].desired \subseteq requests[c].prior

(* The children of a request have paths of their own. *)
TerminalAbsent(c, kind) == requests[c].status # kind

(* scope-request with both terminal observations. *)
IsOpen(c) ==
  /\ requests[c].status # "none"
  /\ TerminalAbsent(c, "activated") /\ TerminalAbsent(c, "abandoned")

RoutedAsRequested(c) ==
  Entry.scope = requests[c].prior /\ Entry.generation = requests[c].base

PreparesRequest(selector, base) ==
  /\ LifecyclePermits("enforcement_scope_requested", Desired(selector) \subseteq scope)
  /\ base = Entry.generation

(* The staged entry differs from the prior one by the desired scope, the   *)
(* link of this request, and a later generation.                           *)
PreparesScopeActivation(c, g) ==
  /\ LifecyclePermits("enforcement_scope_activated", Narrows(c))
  /\ IsOpen(c)
  /\ RoutedAsRequested(c)
  /\ c \notin Entry.links
  /\ Entry.generation < g

PreparesAbandonment(c) ==
  /\ LifecyclePermits("enforcement_scope_abandoned", FALSE)
  /\ IsOpen(c)
  /\ RoutedAsRequested(c)

PreparesTransfer(g) ==
  /\ LifecyclePermits("project_repository_owner_changed", FALSE)
  /\ Entry.generation < g

-----------------------------------------------------------------------------
(* Preparation and replay agree on the currency of agreements: an event    *)
(* with its facts changes the active agreement exactly as the projection   *)
(* it was checked against expects, nobody who may sign, correct or revoke  *)
(* is kept from it, and only two things are left to replay: an activation  *)
(* or restore that changes nothing, and a second signature of someone      *)
(* whom the first still covers.                                            *)
AgreementPrepared ==
  /\ \A v \in Version : PreparesPublication(v) <=> CanPublish(v)
  /\ \A v \in Version, supersedes \in BOOLEAN, versions \in SUBSET Version :
       PreparesActivation(v, supersedes, versions) <=>
         /\ versions = AcceptedAfter(v, supersedes)
         /\ \/ CanActivate(v, supersedes)
            \/ project = "active" /\ ActiveAgreement =
                 ExpectedAfterActivation(v, supersedes, versions)
  /\ \A activation \in activations, versions \in SUBSET Version :
       PreparesRestore(activation, versions) <=>
         /\ versions = activation.accepted
         /\ \/ CanRestore(activation)
            \/ project = "active" /\ ActiveAgreement =
                 ExpectedAfterRestore(activation, versions)
  /\ \A v \in Version, supersedes \in BOOLEAN :
       CanActivate(v, supersedes) =>
         ExpectedAfterActivation(v, supersedes, AcceptedAfter(v, supersedes)) =
           [active |-> v, accepted |-> AcceptedAfter(v, supersedes),
            retired |-> RetiredAfter(v, supersedes)]
  /\ \A activation \in activations :
       CanRestore(activation) =>
         ExpectedAfterRestore(activation, activation.accepted) =
           [active |-> activation.version, accepted |-> activation.accepted,
            retired |-> RetiredAfterRestore(activation)]
  /\ \A c \in Contributor, v \in Version, corrects \in BOOLEAN :
       /\ CanAccept(c, v, corrects) => PreparesAcceptance(c, v, corrects)
       /\ PreparesAcceptance(c, v, corrects) =>
            CanAccept(c, v, corrects) \/ (~ corrects /\ Covered(c))
  /\ \A c \in Contributor : CanRevoke(c) => LifecyclePermits("revocation", FALSE)

(* And on scope: with the registry's entry known, a request, a terminal or *)
(* a transfer has its facts exactly when replay takes it (but for change   *)
(* IDs and registry commits used before, which only replay remembers).     *)
ScopePrepared ==
  known =>
    /\ \A c \in Change, selector \in Selector, base \in Generation :
         requests[c].status = "none" =>
           (PreparesRequest(selector, base) <=> CanRequest(c, selector, base))
    /\ \A c \in Change, g \in Generation :
         PreparesScopeActivation(c, g) <=>
           PermittedToActivate(c) /\ CanSettle(c) /\ Advances(g)
    /\ \A c \in Change : PreparesAbandonment(c) <=> CanSettle(c)
    /\ \A g \in Generation :
         PreparesTransfer(g) <=> project = "active" /\ AdvancesRegistry(g)

(* What is prepared is what replay accepts, of both families. *)
PreparedAsReplayed == AgreementPrepared /\ ScopePrepared
=============================================================================
