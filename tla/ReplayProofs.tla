------------------------------ MODULE ReplayProofs ------------------------------
(***************************************************************************)
(* What the fold of the log promises of agreements, for every set of       *)
(* versions and contributors, and of enforcement scope, for any selectors, *)
(* changes and registry.                                                   *)
(*                                                                         *)
(* Currency rests on one relation between the version sets and the         *)
(* history: accepted and retired split exactly the versions that were ever *)
(* activated, so that what a restore copies, or a contributor once signed, *)
(* is always one or the other.                                             *)
(*                                                                         *)
(* What makes every property of scope go through is that the generation is *)
(* a frontier: nothing recorded so far lies above it, and whoever changes  *)
(* the scope moves it strictly.                                            *)
(***************************************************************************)
EXTENDS Preparation, TLAPS

-----------------------------------------------------------------------------
(* Agreements. *)

EverActivated == {activation.version : activation \in activations}

(* Accepted and retired versions are the ones ever activated, each         *)
(* activation accepts its own version and only versions activated by then, *)
(* and only an active version is ever signed.                              *)
HistoryAccounted ==
  /\ accepted \union retired = EverActivated
  /\ \A activation \in activations :
       /\ activation.version \in activation.accepted
       /\ activation.accepted \subseteq EverActivated
  /\ \A c \in Contributor :
       decisions[c].kind = "acceptance" => decisions[c].version \in EverActivated

AgreementInv == TypeOK /\ Materializable /\ HistoryAccounted

(* The empty history of a connected project satisfies the invariant. *)
LEMMA AgreementStarts == Init => AgreementInv
  BY DEF Init, AgreementInv, TypeOK, Materializable, HistoryAccounted, EverActivated,
         Decision, NoDecision, Activation

(* project_succeeded and agreement_published leave currency and decisions. *)
LEMMA LifecycleKeepsAgreement ==
  ASSUME AgreementInv, Succeed \/ \E v \in Version : Publish(v)
  PROVE  AgreementInv'
<1>1. CASE Succeed
  BY <1>1 DEF Succeed, Succeeds, AgreementInv, TypeOK, Materializable, HistoryAccounted, EverActivated, currency
<1>2. ASSUME NEW v \in Version, Publish(v)
      PROVE  AgreementInv'
  BY <1>2 DEF Publish, CanPublish, AgreementInv, TypeOK, Materializable, HistoryAccounted, EverActivated, currency
<1> QED BY <1>1, <1>2

(* An activation adds its own version to those ever activated. *)
LEMMA ActivatedGrows ==
  ASSUME NEW new, activations' = activations \union {new}
  PROVE  EverActivated' = EverActivated \union {new.version}
<1>1. EverActivated' = {activation.version : activation \in activations \union {new}}
  BY DEF EverActivated
<1> QED BY <1>1 DEF EverActivated

(* agreement_activated: the versions it takes out of accepted are retired, *)
(* and the version it adds was not retired.                                *)
LEMMA ActivateKeepsAgreement ==
  ASSUME AgreementInv, NEW v \in Version, NEW supersedes \in BOOLEAN, Activate(v, supersedes)
  PROVE  AgreementInv'
<1> DEFINE new == [version |-> v, supersedes |-> supersedes,
                   accepted |-> AcceptedAfter(v, supersedes)]
<1> USE NoneIsNoVersion
<1>1. /\ active' = v /\ accepted' = AcceptedAfter(v, supersedes)
      /\ retired' = RetiredAfter(v, supersedes)
      /\ activations' = activations \union {new}
      /\ v \notin retired
      /\ UNCHANGED <<project, publications, decisions>>
  BY DEF Activate, CanActivate, Recorded
<1>2. v \in AcceptedAfter(v, supersedes) /\ AcceptedAfter(v, supersedes) \subseteq Version
  BY DEF AcceptedAfter, AgreementInv, TypeOK
<1>3. TypeOK'
  <2>1. new \in Activation
    BY <1>2 DEF Activation
  <2>2. RetiredAfter(v, supersedes) \subseteq Version
    BY DEF RetiredAfter, AgreementInv, TypeOK
  <2> QED BY <1>1, <1>2, <2>1, <2>2 DEF AgreementInv, TypeOK
<1>4. Materializable'
  <2>1. AcceptedAfter(v, supersedes) \intersect RetiredAfter(v, supersedes) = {}
    BY <1>1 DEF AcceptedAfter, RetiredAfter, AgreementInv, Materializable
  <2> QED BY <1>1, <1>2, <2>1 DEF Materializable
<1>5. EverActivated' = EverActivated \union {v}
  <2>1. EverActivated' = EverActivated \union {new.version}
    BY <1>1, ActivatedGrows
  <2> QED BY <2>1
<1>6. AcceptedAfter(v, supersedes) \union RetiredAfter(v, supersedes) = EverActivated \union {v}
  <2>1. accepted \union retired = EverActivated
    BY DEF AgreementInv, HistoryAccounted
  <2>2. CASE supersedes
    BY <2>1, <2>2 DEF AcceptedAfter, RetiredAfter
  <2>3. CASE ~ supersedes
    BY <2>1, <2>3 DEF AcceptedAfter, RetiredAfter
  <2> QED BY <2>2, <2>3
<1>7. HistoryAccounted'
  <2>1. \A activation \in activations' :
          /\ activation.version \in activation.accepted
          /\ activation.accepted \subseteq EverActivated'
    <3>1. new.version \in new.accepted /\ new.accepted \subseteq EverActivated'
      BY <1>2, <1>5, <1>6
    <3> QED BY <1>1, <1>5, <3>1 DEF AgreementInv, HistoryAccounted
  <2> QED BY <1>1, <1>5, <1>6, <2>1 DEF AgreementInv, HistoryAccounted
<1> QED BY <1>3, <1>4, <1>7 DEF AgreementInv

(* agreement_activation_restored: the set it copies was accepted at an     *)
(* earlier point, so it holds only versions ever activated.                *)
LEMMA RestoreKeepsAgreement ==
  ASSUME AgreementInv, NEW activation \in activations, Restore(activation)
  PROVE  AgreementInv'
<1> USE NoneIsNoVersion
<1>1. /\ active' = activation.version /\ accepted' = activation.accepted
      /\ retired' = RetiredAfterRestore(activation)
      /\ UNCHANGED <<project, publications, activations, decisions>>
  BY DEF Restore
<1>2. /\ activation \in Activation
      /\ activation.version \in activation.accepted
      /\ activation.accepted \subseteq EverActivated
  BY DEF AgreementInv, TypeOK, HistoryAccounted
<1>3. TypeOK'
  BY <1>1, <1>2 DEF AgreementInv, TypeOK, Activation, RetiredAfterRestore
<1>4. Materializable'
  BY <1>1, <1>2 DEF Materializable, RetiredAfterRestore, Activation
<1>5. EverActivated' = EverActivated
  BY <1>1 DEF EverActivated
<1>6. accepted' \union retired' = EverActivated
  BY <1>1, <1>2 DEF RetiredAfterRestore, AgreementInv, HistoryAccounted
<1>7. HistoryAccounted'
  BY <1>1, <1>5, <1>6 DEF AgreementInv, HistoryAccounted
<1> QED BY <1>3, <1>4, <1>7 DEF AgreementInv

(* acceptance and revocation: only the active version, which is accepted,  *)
(* is ever signed.                                                         *)
LEMMA DecisionsKeepAgreement ==
  ASSUME AgreementInv, NEW c \in Contributor,
         Revoke(c) \/ \E v \in Version, corrects \in BOOLEAN : Accept(c, v, corrects)
  PROVE  AgreementInv'
<1>1. PICK d \in Decision :
        /\ decisions' = [decisions EXCEPT ![c] = d]
        /\ d.kind = "acceptance" => d.version \in EverActivated
        /\ UNCHANGED <<project, publications, currency>>
  <2>1. CASE Revoke(c)
    BY <2>1 DEF Revoke, CanRevoke, Revoked, Revocation, Decision
  <2>2. ASSUME NEW v \in Version, NEW corrects \in BOOLEAN, Accept(c, v, corrects)
        PROVE  \E d \in Decision :
                 /\ decisions' = [decisions EXCEPT ![c] = d]
                 /\ d.kind = "acceptance" => d.version \in EverActivated
                 /\ UNCHANGED <<project, publications, currency>>
    <3>1. Acceptance(v) \in Decision /\ Acceptance(v).version = v
      BY DEF Acceptance, Decision
    <3>2. v \in EverActivated
      BY <2>2 DEF Accept, CanAccept, AgreementInv, Materializable, HistoryAccounted
    <3> QED BY <2>2, <3>1, <3>2 DEF Accept
  <2> QED BY <2>1, <2>2
<1>2. TypeOK'
  BY <1>1 DEF AgreementInv, TypeOK, currency
<1>3. Materializable'
  BY <1>1 DEF AgreementInv, Materializable, currency
<1>4. HistoryAccounted'
  <2>1. EverActivated' = EverActivated
    BY <1>1 DEF EverActivated, currency
  <2>2. \A e \in Contributor :
          decisions'[e].kind = "acceptance" => decisions'[e].version \in EverActivated
    BY <1>1 DEF AgreementInv, TypeOK, HistoryAccounted
  <2> QED BY <1>1, <2>1, <2>2 DEF AgreementInv, HistoryAccounted, currency
<1> QED BY <1>2, <1>3, <1>4 DEF AgreementInv

(* Every event of the history preserves the invariant. *)
LEMMA NextKeepsAgreement == AgreementInv /\ [Next]_vars => AgreementInv'
<1> SUFFICES ASSUME AgreementInv, [Next]_vars
             PROVE  AgreementInv'
  OBVIOUS
<1>1. CASE Succeed \/ \E v \in Version : Publish(v)
  BY <1>1, LifecycleKeepsAgreement
<1>2. CASE \E v \in Version, supersedes \in BOOLEAN : Activate(v, supersedes)
  BY <1>2, ActivateKeepsAgreement
<1>3. CASE \E activation \in activations : Restore(activation)
  BY <1>3, RestoreKeepsAgreement
<1>4. CASE \E c \in Contributor, v \in Version, corrects \in BOOLEAN : Accept(c, v, corrects)
  BY <1>4, DecisionsKeepAgreement
<1>5. CASE \E c \in Contributor : Revoke(c)
  BY <1>5, DecisionsKeepAgreement
<1>6. CASE UNCHANGED vars
  BY <1>6 DEF vars, AgreementInv, TypeOK, Materializable, HistoryAccounted, EverActivated
<1> QED BY <1>1, <1>2, <1>3, <1>4, <1>5, <1>6 DEF Next

(* The accepted and retired versions of every history account for it. *)
THEOREM CurrencyInvariant == Spec => []AgreementInv
  BY AgreementStarts, NextKeepsAgreement, PTL DEF Spec

(* The replayed state always has its shape. *)
THEOREM AgreementTypeCorrect == Spec => []TypeOK
<1>1. AgreementInv => TypeOK
  BY DEF AgreementInv
<1> QED BY <1>1, CurrencyInvariant, PTL

(* The currency of every history can be projected for the merge gate. *)
THEOREM AlwaysMaterializable == Spec => []Materializable
<1>1. AgreementInv => Materializable
  BY DEF AgreementInv
<1> QED BY <1>1, CurrencyInvariant, PTL

(* A retired version can be made active again by a restore. *)
THEOREM RetirementIsReversible == Spec => []RetiredIsRestorable
<1>1. AgreementInv => RetiredIsRestorable
  <2> SUFFICES ASSUME AgreementInv, project = "active", NEW v \in retired
               PROVE  \E activation \in activations :
                        /\ activation.version = v
                        /\ v \in activation.accepted
                        /\ CanRestore(activation)
    BY DEF RetiredIsRestorable
  <2>1. PICK activation \in activations : activation.version = v
    BY DEF AgreementInv, HistoryAccounted, EverActivated
  <2>2. v \in activation.accepted /\ v \notin accepted
    BY <2>1 DEF AgreementInv, HistoryAccounted, Materializable
  <2> QED BY <2>1, <2>2 DEF CanRestore
<1> QED BY <1>1, CurrencyInvariant, PTL

-----------------------------------------------------------------------------
(* Being covered, in the terms the proofs below use. *)
LEMMA CoveredMeans ==
  ASSUME NEW c
  PROVE  /\ Covered(c) <=> decisions[c].kind = "acceptance" /\ decisions[c].version \in accepted
         /\ Covered(c)' <=> /\ decisions'[c].kind = "acceptance"
                            /\ decisions'[c].version \in accepted'
  BY DEF Covered, EffectiveDecision, IsSigned

(* An activation covers nobody, and does what it declares. *)
LEMMA ActivationEffect ==
  ASSUME AgreementInv, NEW v \in Version, NEW supersedes \in BOOLEAN, Activate(v, supersedes),
         NEW c \in Contributor
  PROVE  Covered(c)' <=> Covered(c) /\ (supersedes => decisions[c].version = v)
<1>1. /\ accepted' = AcceptedAfter(v, supersedes)
      /\ decisions' = decisions
      /\ v \notin retired
  BY DEF Activate, CanActivate
<1>2. decisions[c].kind = "acceptance" =>
        decisions[c].version \in accepted \/ decisions[c].version \in retired
  BY DEF AgreementInv, HistoryAccounted
<1>3. CASE supersedes
  BY <1>1, <1>2, <1>3, CoveredMeans DEF AcceptedAfter
<1>4. CASE ~ supersedes
  BY <1>1, <1>2, <1>4, CoveredMeans DEF AcceptedAfter
<1> QED BY <1>3, <1>4

(* Every activation of every history does to coverage what it declares. *)
THEOREM ActivationsAsDeclared == Spec => ActivationAsDeclared
<1>1. AgreementInv /\ [Next]_vars =>
        [\A v \in Version, c \in Contributor :
           /\ Activate(v, FALSE) => (Covered(c)' <=> Covered(c))
           /\ Activate(v, TRUE) => (Covered(c)' <=> Covered(c) /\ decisions[c].version = v)]_vars
  BY ActivationEffect
<1> QED BY <1>1, CurrencyInvariant, PTL DEF Spec, ActivationAsDeclared

(* Nobody is ever covered without an assent of their own in force. *)
THEOREM AssentedCoverage == Spec => CoverageIsAssented
<1> DEFINE Assented(c) ==
      ~ Covered(c) /\ Covered(c)' =>
        \/ Accept(c, active, FALSE)
        \/ /\ \E activation \in activations : Restore(activation)
           /\ decisions[c].kind = "acceptance"
           /\ decisions'[c] = decisions[c]
<1>1. ASSUME AgreementInv, Next, NEW c \in Contributor, ~ Covered(c), Covered(c)'
      PROVE  Assented(c)
  <2>1. CASE Succeed \/ \E v \in Version : Publish(v)
    BY <1>1, <2>1, CoveredMeans DEF Succeed, Succeeds, Publish, CanPublish, currency
  <2>2. CASE \E v \in Version, supersedes \in BOOLEAN : Activate(v, supersedes)
    BY <1>1, <2>2, ActivationEffect
  <2>3. CASE \E activation \in activations : Restore(activation)
    BY <1>1, <2>3, CoveredMeans DEF Restore
  <2>4. ASSUME NEW e \in Contributor, NEW v \in Version, NEW corrects \in BOOLEAN,
               Accept(e, v, corrects)
        PROVE  Assented(c)
    <3>1. decisions' = [decisions EXCEPT ![e] = Acceptance(v)] /\ accepted' = accepted
      BY <2>4 DEF Accept, currency
    <3>2. CASE e # c
      BY <1>1, <3>1, <3>2, CoveredMeans DEF AgreementInv, TypeOK
    <3>3. CASE e = c /\ corrects
      <4>1. decisions[c] = Acceptance(v)
        BY <2>4, <3>3 DEF Accept, CanAccept
      <4> QED BY <1>1, <3>1, <3>3, <4>1, CoveredMeans DEF AgreementInv, TypeOK
    <3>4. CASE e = c /\ ~ corrects
      <4>1. v = active /\ corrects = FALSE
        BY <2>4, <3>4 DEF Accept, CanAccept
      <4> QED BY <2>4, <3>4, <4>1
    <3> QED BY <3>2, <3>3, <3>4
  <2>5. ASSUME NEW e \in Contributor, Revoke(e)
        PROVE  Assented(c)
    <3>1. decisions' = [decisions EXCEPT ![e] = Revocation] /\ accepted' = accepted
      BY <2>5 DEF Revoke, CanRevoke, Revoked, currency
    <3>2. CASE e # c
      BY <1>1, <3>1, <3>2, CoveredMeans DEF AgreementInv, TypeOK
    <3>3. CASE e = c
      BY <1>1, <3>1, <3>3, CoveredMeans DEF AgreementInv, TypeOK, Revocation
    <3> QED BY <3>2, <3>3
  <2> QED BY <1>1, <2>1, <2>2, <2>3, <2>4, <2>5 DEF Next
<1>2. AgreementInv /\ [Next]_vars => [\A c \in Contributor : Assented(c)]_vars
  BY <1>1
<1> QED BY <1>2, CurrencyInvariant, PTL DEF Spec, CoverageIsAssented

-----------------------------------------------------------------------------
(* The merge gate, the reader's status and the replay query always agree. *)
THEOREM OneAnswer == Spec => []EvaluatorsAgree
<1>1. AgreementInv => EvaluatorsAgree
  <2> SUFFICES ASSUME AgreementInv, project = "active", NEW c \in Contributor,
                      NEW exempt \in BOOLEAN, NEW inflight \in BOOLEAN,
                      NEW granted \in BOOLEAN
               PROVE  LET gate   == EvaluateSubject(project, decisions[c], accepted,
                                                    exempt, inflight, granted)
                          reader == ResolveReadStatus(decisions[c], accepted, retired,
                                                      exempt, inflight)
                      IN
                      /\ (gate.decision = "covered") <=>
                           gate.overridden \/ reader.status \in {"current", "exempt"}
                      /\ ~ gate.overridden => gate.reason = reader.generic
                      /\ ~ inflight => (Covered(c) <=> gate.reason = "signed")
                      /\ reader.reason # "version_not_accepted"
    BY DEF EvaluatorsAgree
  <2>1. decisions[c].kind \in {"none", "acceptance", "revocation"}
    BY DEF AgreementInv, TypeOK, Decision
  <2>2. decisions[c].kind = "acceptance" =>
          decisions[c].version \in accepted \/ decisions[c].version \in retired
    BY DEF AgreementInv, HistoryAccounted
  <2>3. Covered(c) <=> IsSigned(decisions[c], accepted)
    BY DEF Covered, EffectiveDecision
  <2>4. CASE inflight
    BY <2>4 DEF EvaluateSubject, ResolveReadStatus, Outcome, Status
  <2>5. CASE ~ inflight /\ IsSigned(decisions[c], accepted)
    BY <2>3, <2>5 DEF EvaluateSubject, ResolveReadStatus, Outcome, Status
  <2>6. CASE ~ inflight /\ ~ IsSigned(decisions[c], accepted) /\ exempt
    BY <2>3, <2>6 DEF EvaluateSubject, ResolveReadStatus, Outcome, Status
  <2>7. CASE ~ inflight /\ ~ IsSigned(decisions[c], accepted) /\ ~ exempt
    <3>1. CASE decisions[c].kind = "acceptance"
      <4>1. decisions[c].version \in retired
        BY <2>2, <2>7, <3>1 DEF IsSigned
      <4> QED BY <2>3, <2>7, <3>1, <4>1 DEF EvaluateSubject, ResolveReadStatus, Outcome, Status
    <3>2. CASE decisions[c].kind = "revocation"
      BY <2>3, <2>7, <3>2 DEF EvaluateSubject, ResolveReadStatus, Outcome, Status
    <3>3. CASE decisions[c].kind = "none"
      BY <2>3, <2>7, <3>3 DEF EvaluateSubject, ResolveReadStatus, Outcome, Status
    <3> QED BY <2>1, <3>1, <3>2, <3>3
  <2> QED BY <2>4, <2>5, <2>6, <2>7
<1> QED BY <1>1, CurrencyInvariant, PTL

-----------------------------------------------------------------------------
(* Scope. *)

(* Nothing recorded is newer than the current generation. *)
Frontier ==
  /\ \A c \in Change :
       requests[c].status # "none" => known /\ requests[c].base <= generation
  /\ \A c \in Activated :
       requests[c].base < requests[c].at /\ requests[c].at <= generation
  /\ \A t \in transfers : known /\ t[2] <= generation

(* The scope does not change without the generation. *)
ScopeAtGeneration ==
  \A c \in Change :
    Pending(c) /\ requests[c].base = generation => requests[c].prior = scope

ScopeInv == ScopeTypeOK /\ Frontier /\ ScopeAtGeneration /\ NoLostChange

-----------------------------------------------------------------------------
(* A project starts with nothing requested.                                *)
LEMMA InitInv == ScopeInit => ScopeInv
  <1> SUFFICES ASSUME ScopeInit PROVE ScopeInv
    OBVIOUS
  <1> USE BoundIsNatural DEF Generation
  <1>1. 0 \in Generation
    OBVIOUS
  <1>2. NoRequest \in RequestRecord
    BY <1>1 DEF NoRequest, RequestRecord
  <1>3. \A c \in Change : requests[c].status = "none"
    BY DEF ScopeInit, NoRequest
  <1>4. ScopeTypeOK
    BY <1>1, <1>2 DEF ScopeInit, ScopeTypeOK
  <1>5. Activated = {}
    BY <1>3 DEF Activated
  <1> QED
    BY <1>3, <1>4, <1>5 DEF ScopeInit, ScopeInv, Frontier, ScopeAtGeneration, NoLostChange, Pending

(* A request leaves the invariant,                                         *)
LEMMA RequestInv ==
  ASSUME ScopeInv, NEW c \in Change, NEW selector \in Selector, NEW base \in Generation,
         Request(c, selector, base)
  PROVE  ScopeInv'
  <1> USE BoundIsNatural DEF Generation
  <1> DEFINE new == [status |-> "pending", prior |-> scope,
                     desired |-> Desired(selector), base |-> base, at |-> 0]
  <1>1. new \in RequestRecord
    BY DEF ScopeInv, ScopeTypeOK, RequestRecord, Desired
  <1>2. /\ requests' = [requests EXCEPT ![c] = new]
        /\ known' = TRUE /\ generation' = base
        /\ known => base = generation
        /\ UNCHANGED <<project, scope, boundCommits, transfers>>
    BY DEF Request, CanRequest
  <1> HIDE DEF new
  <1>3. ScopeTypeOK'
    BY <1>1, <1>2 DEF ScopeInv, ScopeTypeOK
  <1>4. Activated' = Activated
    BY <1>2 DEF new, Activated, Request, CanRequest, ScopeInv, ScopeTypeOK
  <1>5. \A d \in Activated : requests'[d] = requests[d]
    BY <1>2 DEF Activated, Request, CanRequest, ScopeInv, ScopeTypeOK
  <1>6. ~ known => /\ \A d \in Change : requests[d].status = "none"
                   /\ transfers = {}
    BY DEF ScopeInv, Frontier
  <1>7. Frontier'
    <2>1. \A d \in Change : requests'[d].status # "none" =>
            known' /\ requests'[d].base <= generation'
      BY <1>1, <1>2, <1>6 DEF new, ScopeInv, ScopeTypeOK, Frontier, RequestRecord
    <2>2. \A d \in Activated' :
            requests'[d].base < requests'[d].at /\ requests'[d].at <= generation'
      BY <1>2, <1>4, <1>5, <1>6 DEF ScopeInv, Frontier, Activated
    <2>3. \A t \in transfers' : known' /\ t[2] <= generation'
      BY <1>2, <1>6 DEF ScopeInv, Frontier
    <2> QED  BY <2>1, <2>2, <2>3 DEF Frontier
  <1>8. ScopeAtGeneration'
    <2> SUFFICES ASSUME NEW d \in Change, Pending(d)', requests'[d].base = generation'
                 PROVE  requests'[d].prior = scope'
      BY DEF ScopeAtGeneration
    <2>1. CASE d = c
      BY <2>1, <1>2 DEF new, ScopeInv, ScopeTypeOK
    <2>2. CASE d # c
      <3>1. requests'[d] = requests[d]
        BY <2>2, <1>2 DEF ScopeInv, ScopeTypeOK
      <3>2. Pending(d)
        BY <3>1 DEF Pending
      <3>3. known
        BY <3>2, <1>6 DEF Pending
      <3> QED  BY <3>1, <3>2, <3>3, <1>2 DEF ScopeInv, ScopeAtGeneration
    <2> QED  BY <2>1, <2>2
  <1>9. NoLostChange'
    BY <1>2, <1>4, <1>5 DEF ScopeInv, NoLostChange, Activated
  <1> QED  BY <1>3, <1>7, <1>8, <1>9 DEF ScopeInv

(* ... so does an activation,                                              *)
LEMMA ActivateInv ==
  ASSUME ScopeInv, NEW c \in Change, NEW g \in Generation, NEW commit \in RegistryCommit,
         ActivateScope(c, g, commit)
  PROVE  ScopeInv'
  <1> USE BoundIsNatural DEF Generation
  <1>1. /\ requests' = [requests EXCEPT ![c].status = "activated", ![c].at = g]
        /\ scope' = requests[c].desired
        /\ generation' = g /\ g > generation
        /\ boundCommits' = boundCommits \union {commit}
        /\ requests[c].status = "pending" /\ requests[c].prior = scope
        /\ requests[c].base = generation
        /\ UNCHANGED <<project, known, transfers>>
    BY DEF ActivateScope, CanSettle, OnBaseline, Advances, Settled
  <1>2. /\ requests[c] \in RequestRecord /\ requests \in [Change -> RequestRecord]
        /\ generation \in Nat /\ generation' \in Nat
    BY <1>1 DEF ScopeInv, ScopeTypeOK
  <1>3. /\ requests'[c] = [requests[c] EXCEPT !.status = "activated", !.at = g]
        /\ \A d \in Change \ {c} : requests'[d] = requests[d]
    BY <1>1, <1>2
  <1>4. /\ requests'[c] \in RequestRecord
        /\ requests'[c].status = "activated" /\ requests'[c].at = g
        /\ requests'[c].base = generation
    BY <1>1, <1>2, <1>3 DEF RequestRecord
  <1>5. ScopeTypeOK'
    <2>1. requests' \in [Change -> RequestRecord]
      BY <1>1, <1>2, <1>3, <1>4
    <2>2. scope' \subseteq Selector
      BY <1>1, <1>2 DEF RequestRecord
    <2> QED  BY <2>1, <2>2, <1>1 DEF ScopeInv, ScopeTypeOK
  <1>6. /\ c \notin Activated
        /\ Activated' = Activated \union {c}
    BY <1>1, <1>3, <1>4 DEF Activated
  <1>7. \A d \in Change : requests[d].base \in Nat /\ requests[d].at \in Nat
    BY <1>2 DEF RequestRecord
  <1>8. Frontier'
    <2>1. \A d \in Change : requests'[d].status # "none" =>
            known' /\ requests'[d].base <= generation'
      <3> TAKE d \in Change
      <3>1. CASE d = c
        BY <3>1, <1>1, <1>2, <1>4 DEF ScopeInv, Frontier
      <3>2. CASE d # c
        BY <3>2, <1>1, <1>2, <1>3, <1>7 DEF ScopeInv, Frontier
      <3> QED  BY <3>1, <3>2
    <2>2. \A d \in Activated' :
            requests'[d].base < requests'[d].at /\ requests'[d].at <= generation'
      <3> TAKE d \in Activated'
      <3>1. CASE d = c
        BY <3>1, <1>1, <1>2, <1>4
      <3>2. CASE d # c
        <4>1. d \in Activated /\ d \in Change
          BY <3>2, <1>6 DEF Activated
        <4> QED  BY <3>2, <4>1, <1>1, <1>2, <1>3, <1>7 DEF ScopeInv, Frontier
      <3> QED  BY <3>1, <3>2
    <2>3. \A t \in transfers' : known' /\ t[2] <= generation'
      BY <1>1, <1>2 DEF ScopeInv, Frontier, ScopeTypeOK
    <2> QED  BY <2>1, <2>2, <2>3 DEF Frontier
  <1>9. ScopeAtGeneration'
    <2> SUFFICES ASSUME NEW d \in Change, Pending(d)', requests'[d].base = generation'
                 PROVE  FALSE
      BY DEF ScopeAtGeneration
    <2>1. d # c
      BY <1>4 DEF Pending
    <2>2. requests[d].status = "pending" /\ requests[d].base = g
      BY <2>1, <1>1, <1>3 DEF Pending
    <2> QED  BY <2>2, <1>1, <1>2, <1>7 DEF ScopeInv, Frontier
  <1>10. NoLostChange'
    <2>1. \A d \in Activated' : requests'[d].base < requests'[d].at
      BY <1>8 DEF Frontier
    <2>2. \A d, e \in Activated' :
            d # e => requests'[e].at <= requests'[d].base \/ requests'[d].at <= requests'[e].base
      <3> TAKE d, e \in Activated'
      <3>1. CASE d = c /\ e # c
        <4>1. e \in Activated /\ requests'[e] = requests[e]
          BY <3>1, <1>3, <1>6 DEF Activated
        <4> QED  BY <3>1, <4>1, <1>4 DEF ScopeInv, Frontier
      <3>2. CASE e = c /\ d # c
        <4>1. d \in Activated /\ requests'[d] = requests[d]
          BY <3>2, <1>3, <1>6 DEF Activated
        <4> QED  BY <3>2, <4>1, <1>4 DEF ScopeInv, Frontier
      <3>3. CASE d # c /\ e # c
        <4>1. /\ d \in Activated /\ requests'[d] = requests[d]
              /\ e \in Activated /\ requests'[e] = requests[e]
          BY <3>3, <1>3, <1>6 DEF Activated
        <4> QED  BY <4>1 DEF ScopeInv, NoLostChange
      <3> QED  BY <3>1, <3>2, <3>3
    <2>3. \A d \in Activated' : \A t \in transfers' :
            t[2] <= requests'[d].base \/ requests'[d].at < t[2]
      <3> TAKE d \in Activated'
      <3>1. CASE d = c
        BY <3>1, <1>1, <1>4 DEF ScopeInv, Frontier
      <3>2. CASE d # c
        <4>1. d \in Activated /\ requests'[d] = requests[d]
          BY <3>2, <1>3, <1>6 DEF Activated
        <4> QED  BY <4>1, <1>1 DEF ScopeInv, NoLostChange
      <3> QED  BY <3>1, <3>2
    <2> QED  BY <2>1, <2>2, <2>3 DEF NoLostChange
  <1> QED  BY <1>5, <1>8, <1>9, <1>10 DEF ScopeInv

(* ... an abandonment                                                      *)
LEMMA AbandonInv ==
  ASSUME ScopeInv, NEW c \in Change, Abandon(c)
  PROVE  ScopeInv'
  <1> USE BoundIsNatural DEF Generation
  <1>1. /\ requests' = [requests EXCEPT ![c].status = "abandoned", ![c].at = 0]
        /\ requests[c].status = "pending"
        /\ UNCHANGED <<project, scope, known, generation, boundCommits, transfers>>
    BY DEF Abandon, CanSettle, Settled
  <1>2. /\ requests[c] \in RequestRecord /\ requests \in [Change -> RequestRecord]
    BY DEF ScopeInv, ScopeTypeOK
  <1>3. /\ requests'[c] = [requests[c] EXCEPT !.status = "abandoned", !.at = 0]
        /\ \A d \in Change \ {c} : requests'[d] = requests[d]
    BY <1>1, <1>2
  <1>4. /\ requests'[c] \in RequestRecord
        /\ requests'[c].status = "abandoned"
        /\ requests'[c].base = requests[c].base
    <2>1. 0 \in Generation
      OBVIOUS
    <2> HIDE DEF Generation
    <2> QED  BY <2>1, <1>2, <1>3 DEF RequestRecord
  <1>5. ScopeTypeOK'
    <2>1. requests' \in [Change -> RequestRecord]
      BY <1>1, <1>2, <1>3, <1>4
    <2> QED  BY <2>1, <1>1 DEF ScopeInv, ScopeTypeOK
  <1>6. Activated' = Activated /\ c \notin Activated
    BY <1>1, <1>3, <1>4 DEF Activated
  <1>7. \A d \in Activated : d \in Change /\ requests'[d] = requests[d]
    BY <1>3, <1>6 DEF Activated
  <1>8. Frontier'
    <2>1. \A d \in Change : requests'[d].status # "none" =>
            known' /\ requests'[d].base <= generation'
      BY <1>1, <1>3, <1>4 DEF ScopeInv, Frontier
    <2>2. \A d \in Activated' :
            requests'[d].base < requests'[d].at /\ requests'[d].at <= generation'
      BY <1>1, <1>6, <1>7 DEF ScopeInv, Frontier
    <2> QED  BY <2>1, <2>2, <1>1 DEF ScopeInv, Frontier
  <1>9. ScopeAtGeneration'
    BY <1>1, <1>3, <1>4 DEF ScopeInv, ScopeAtGeneration, Pending
  <1>10. NoLostChange'
    BY <1>1, <1>6, <1>7 DEF ScopeInv, NoLostChange
  <1> QED  BY <1>5, <1>8, <1>9, <1>10 DEF ScopeInv

(* ... and a transfer of the project.                                      *)
LEMMA TransferOwnerInv ==
  ASSUME ScopeInv, NEW g \in Generation, NEW commit \in RegistryCommit,
         TransferOwner(g, commit)
  PROVE  ScopeInv'
  <1> USE BoundIsNatural DEF Generation
  <1>1. /\ known' = TRUE /\ generation' = g
        /\ known => g > generation
        /\ \A t \in transfers : g > t[2]
        /\ transfers' = transfers \union {<<commit, g>>}
        /\ UNCHANGED <<project, scope, requests, boundCommits>>
    BY DEF TransferOwner, AdvancesRegistry, AdvancesTransfers
  <1>2. ScopeTypeOK'
    BY <1>1 DEF ScopeInv, ScopeTypeOK
  <1>3. Activated' = Activated
    BY <1>1 DEF Activated
  <1>4. \A d \in Change : requests[d].base \in Nat /\ requests[d].at \in Nat
    BY DEF ScopeInv, ScopeTypeOK, RequestRecord
  <1>5. \A d \in Change : requests[d].status # "none" => known /\ requests[d].base < g
    BY <1>1, <1>4 DEF ScopeInv, Frontier, ScopeTypeOK
  <1>6. \A d \in Activated : requests[d].at < g
    BY <1>1, <1>4, <1>5 DEF ScopeInv, Frontier, ScopeTypeOK, Activated
  <1>7. Frontier'
    <2>1. \A d \in Change : requests'[d].status # "none" =>
            known' /\ requests'[d].base <= generation'
      BY <1>1, <1>4, <1>5
    <2>2. \A d \in Activated' :
            requests'[d].base < requests'[d].at /\ requests'[d].at <= generation'
      BY <1>1, <1>3, <1>4, <1>6 DEF ScopeInv, Frontier, Activated
    <2>3. \A t \in transfers' : known' /\ t[2] <= generation'
      BY <1>1, <1>2 DEF ScopeTypeOK
    <2> QED  BY <2>1, <2>2, <2>3 DEF Frontier
  <1>8. ScopeAtGeneration'
    BY <1>1, <1>4, <1>5 DEF ScopeAtGeneration, Pending
  <1>9. NoLostChange'
    <2>1. \A d \in Activated : \A t \in transfers' :
            t[2] <= requests[d].base \/ requests[d].at < t[2]
      BY <1>1, <1>6 DEF ScopeInv, NoLostChange
    <2> QED  BY <2>1, <1>1, <1>3 DEF ScopeInv, NoLostChange
  <1> QED  BY <1>2, <1>7, <1>8, <1>9 DEF ScopeInv

(* So does every step.                                                     *)
LEMMA StepInv == ScopeInv /\ [ScopeNext]_scopeVars => ScopeInv'
  <1> SUFFICES ASSUME ScopeInv, [ScopeNext]_scopeVars PROVE ScopeInv'
    OBVIOUS
  <1>1. CASE ScopeSucceed
    BY <1>1 DEF ScopeSucceed, Succeeds, ScopeInv, ScopeTypeOK, Frontier, ScopeAtGeneration, NoLostChange,
                Activated, Pending
  <1>2. ASSUME NEW c \in Change, NEW selector \in Selector, NEW base \in Generation,
               Request(c, selector, base)
        PROVE  ScopeInv'
    BY <1>2, RequestInv
  <1>3. ASSUME NEW c \in Change, NEW g \in Generation, NEW commit \in RegistryCommit,
               ActivateScope(c, g, commit)
        PROVE  ScopeInv'
    BY <1>3, ActivateInv
  <1>4. ASSUME NEW c \in Change, Abandon(c)
        PROVE  ScopeInv'
    BY <1>4, AbandonInv
  <1>5. ASSUME NEW g \in Generation, NEW commit \in RegistryCommit, TransferOwner(g, commit)
        PROVE  ScopeInv'
    BY <1>5, TransferOwnerInv
  <1>6. CASE UNCHANGED scopeVars
    BY <1>6 DEF scopeVars, ScopeInv, ScopeTypeOK, Frontier, ScopeAtGeneration, NoLostChange,
                Activated, Pending
  <1> QED  BY <1>1, <1>2, <1>3, <1>4, <1>5, <1>6 DEF ScopeNext

(* The inductive invariant of the replayed scope. *)
THEOREM ScopeInvariant == ScopeSpec => []ScopeInv
  BY InitInv, StepInv, PTL DEF ScopeSpec

(* The replayed scope, registry generation and requests are well formed.   *)
THEOREM ScopeTypeCorrect == ScopeSpec => []ScopeTypeOK
  BY ScopeInvariant, PTL DEF ScopeInv

(* However requests, activations and owner changes interleave, the          *)
(* registry generations between a request and its activation are its own.  *)
THEOREM NoChangeIsLost == ScopeSpec => []NoLostChange
  BY ScopeInvariant, PTL DEF ScopeInv

(* A pending request that was overtaken stays pending and overtaken.       *)
THEOREM OvertakenStaysOvertaken == ScopeSpec => OvertakenForGood
  <1> USE BoundIsNatural DEF Generation
  <1>1. ScopeInv /\ ScopeInv' /\ [ScopeNext]_scopeVars =>
          [\A c \in Change :
             Pending(c) /\ ~ OnBaseline(c) => Pending(c)' /\ ~ OnBaseline(c)']_scopeVars
    <2> SUFFICES ASSUME ScopeInv, ScopeInv', ScopeNext, NEW c \in Change, Pending(c), ~ OnBaseline(c)
                 PROVE  Pending(c)' /\ ~ OnBaseline(c)'
      BY DEF scopeVars
    <2>1. /\ requests[c].base < generation /\ known
          /\ requests[c].base \in Nat /\ generation \in Nat /\ generation' \in Nat
          /\ requests \in [Change -> RequestRecord]
      <3>1. requests \in [Change -> RequestRecord] /\ generation \in Nat /\ generation' \in Nat
        BY DEF ScopeInv, ScopeTypeOK
      <3>2. requests[c].base \in Nat
        BY <3>1 DEF RequestRecord
      <3>3. known /\ requests[c].base <= generation
        BY DEF ScopeInv, Frontier, Pending
      <3>4. requests[c].base # generation
        BY DEF ScopeInv, ScopeAtGeneration, OnBaseline
      <3> QED  BY <3>1, <3>2, <3>3, <3>4
    <2>2. requests'[c] = requests[c] /\ generation <= generation'
      <3>1. CASE ScopeSucceed
        BY <3>1, <2>1 DEF ScopeSucceed, Succeeds
      <3>2. ASSUME NEW d \in Change, NEW selector \in Selector, NEW base \in Generation,
                   Request(d, selector, base)
            PROVE  requests'[c] = requests[c] /\ generation <= generation'
        BY <3>2, <2>1 DEF Request, CanRequest, Pending
      <3>3. ASSUME NEW d \in Change, NEW g \in Generation, NEW commit \in RegistryCommit,
                   ActivateScope(d, g, commit)
            PROVE  requests'[c] = requests[c] /\ generation <= generation'
        <4>1. d # c
          BY <3>3 DEF ActivateScope, CanSettle
        <4> QED  BY <3>3, <4>1, <2>1 DEF ActivateScope, Settled, Advances
      <3>4. ASSUME NEW d \in Change, Abandon(d)
            PROVE  requests'[c] = requests[c] /\ generation <= generation'
        <4>1. d # c
          BY <3>4 DEF Abandon, CanSettle
        <4> QED  BY <3>4, <4>1, <2>1 DEF Abandon, Settled
      <3>5. ASSUME NEW g \in Generation, NEW commit \in RegistryCommit,
                   TransferOwner(g, commit)
            PROVE  requests'[c] = requests[c] /\ generation <= generation'
        BY <3>5, <2>1 DEF TransferOwner, AdvancesRegistry
      <3> QED  BY <3>1, <3>2, <3>3, <3>4, <3>5 DEF ScopeNext
    <2> QED  BY <2>1, <2>2 DEF Pending, OnBaseline
  <1> QED  BY <1>1, ScopeInvariant, PTL DEF ScopeSpec, OvertakenForGood

(* After success no step enforces anything more.                           *)
THEOREM EnforcementShrinksAfterSuccess == ScopeSpec => ShrinksAfterSuccess
  <1>1. [ScopeNext]_scopeVars => [project = "succeeded" => scope' \subseteq scope]_scopeVars
    <2> SUFFICES ASSUME ScopeNext, project = "succeeded"
                 PROVE  scope' \subseteq scope
      BY DEF scopeVars
    <2>1. ASSUME NEW c \in Change, NEW g \in Generation, NEW commit \in RegistryCommit,
                 ActivateScope(c, g, commit)
          PROVE  scope' \subseteq scope
      BY <2>1 DEF ActivateScope, PermittedToActivate, Permitted, CanSettle, OnBaseline
    <2> QED  BY <2>1 DEF ScopeNext, ScopeSucceed, Succeeds, Request, CanRequest, Abandon, TransferOwner
  <1> QED  BY <1>1, PTL DEF ScopeSpec, ShrinksAfterSuccess

-----------------------------------------------------------------------------
(* The scope an unchanged set of activations has put in force. *)
LEMMA SameInForce ==
  ASSUME NEW R, NEW S, NEW g, NEW h,
         ActivatedBy(S, h) = ActivatedBy(R, g),
         \A c \in ActivatedBy(R, g) : S[c] = R[c]
  PROVE  InForce(S, h) = InForce(R, g)
  BY DEF InForce

(* The activation of the greatest generation decides. *)
LEMMA LastInForce ==
  ASSUME NEW R, NEW g, NEW c \in ActivatedBy(R, g),
         \A e \in ActivatedBy(R, g) : R[e].at \in Nat,
         \A e \in ActivatedBy(R, g) \ {c} : R[e].at < R[c].at
  PROVE  InForce(R, g) = R[c].desired
  <1>1. {d \in ActivatedBy(R, g) : \A e \in ActivatedBy(R, g) : R[e].at <= R[d].at} = {c}
    <2>1. \A e \in ActivatedBy(R, g) : R[e].at <= R[c].at
      OBVIOUS
    <2>2. \A d \in ActivatedBy(R, g) \ {c} : ~ (R[c].at <= R[d].at)
      OBVIOUS
    <2> QED  BY <2>1, <2>2
  <1> QED  BY <1>1 DEF InForce

(* What no activation named is not in force.                               *)
LEMMA NothingInForce ==
  ASSUME NEW R, NEW g, ActivatedBy(R, g) = {}
  PROVE  InForce(R, g) = {}
  BY DEF InForce

(* What a step adds to what is in force it activates.                      *)
LEMMA ActivatedStep ==
  ScopeInv /\ ScopeInv' /\ ScopeIsActivated /\ [ScopeNext]_scopeVars => ScopeIsActivated'
  <1> SUFFICES ASSUME ScopeInv, ScopeInv', ScopeIsActivated, [ScopeNext]_scopeVars
               PROVE  ScopeIsActivated'
    OBVIOUS
  <1> USE BoundIsNatural DEF Generation
  <1>1. /\ requests \in [Change -> RequestRecord] /\ requests' \in [Change -> RequestRecord]
        /\ generation \in Nat /\ generation' \in Nat
    BY DEF ScopeInv, ScopeTypeOK
  <1>2. \A d \in Change : requests[d].base \in Nat /\ requests[d].at \in Nat
    BY <1>1 DEF RequestRecord
  <1>3. \A d \in Activated : /\ d \in Change
                             /\ requests[d].base < generation
                             /\ requests[d].at <= generation
    BY <1>1, <1>2 DEF ScopeInv, Frontier, Activated
  (* A step that keeps the activations and moves the generation forward.    *)
  <1>4. ASSUME scope' = scope, Activated' = Activated,
               \A d \in Activated : requests'[d] = requests[d],
               generation <= generation' \/ Activated = {}
        PROVE  ScopeIsActivated'
    <2>1. \A h : ActivatedBy(requests', h) = ActivatedBy(requests, h)
      BY <1>4 DEF ActivatedBy, Activated
    <2>2. \A h : InForce(requests', h) = InForce(requests, h)
      <3> TAKE h
      <3>1. \A d \in ActivatedBy(requests, h) : requests'[d] = requests[d]
        BY <1>4 DEF ActivatedBy, Activated
      <3> QED  BY <2>1, <3>1, SameInForce
    <2>3. ActivatedBy(requests, generation') = ActivatedBy(requests, generation)
      BY <1>1, <1>2, <1>3, <1>4 DEF ActivatedBy, Activated
    <2>4. InForce(requests, generation') = InForce(requests, generation)
      BY <2>3, SameInForce
    <2>5. scope' = InForce(requests', generation')
      BY <1>4, <2>2, <2>4 DEF ScopeIsActivated
    <2>6. \A d \in Activated' : requests'[d].prior = InForce(requests', requests'[d].base)
      BY <1>4, <2>2 DEF ScopeIsActivated
    <2> QED  BY <2>5, <2>6 DEF ScopeIsActivated
  <1>5. CASE ScopeSucceed
    BY <1>4, <1>5, <1>1 DEF ScopeSucceed, Succeeds, Activated
  <1>6. ASSUME NEW c \in Change, NEW selector \in Selector, NEW base \in Generation,
               Request(c, selector, base)
        PROVE  ScopeIsActivated'
    <2>1. Activated' = Activated /\ \A d \in Activated : requests'[d] = requests[d]
      BY <1>6, <1>1 DEF Request, CanRequest, Activated
    <2>2. generation <= generation' \/ Activated = {}
      BY <1>6, <1>1 DEF Request, CanRequest, ScopeInv, Frontier, Activated
    <2>3. scope' = scope
      BY <1>6 DEF Request, CanRequest
    <2> QED  BY <1>4, <2>1, <2>2, <2>3
  <1>7. ASSUME NEW c \in Change, NEW g \in Generation, NEW commit \in RegistryCommit,
               ActivateScope(c, g, commit)
        PROVE  ScopeIsActivated'
    <2>1. /\ requests' = [requests EXCEPT ![c].status = "activated", ![c].at = g]
          /\ scope' = requests[c].desired
          /\ generation' = g /\ g > generation
          /\ requests[c].status = "pending" /\ requests[c].prior = scope
          /\ requests[c].base = generation
      BY <1>7 DEF ActivateScope, CanSettle, OnBaseline, Advances, Settled
    <2>2. /\ requests'[c] = [requests[c] EXCEPT !.status = "activated", !.at = g]
          /\ \A d \in Change \ {c} : requests'[d] = requests[d]
      BY <2>1, <1>1
    <2>3. requests[c] \in RequestRecord
      BY <1>1
    <2>4. /\ requests'[c].status = "activated" /\ requests'[c].at = g
          /\ requests'[c].base = generation /\ requests'[c].prior = scope
          /\ requests'[c].desired = requests[c].desired
      <3> HIDE DEF Generation
      <3>1. requests'[c] = [status |-> "activated", prior |-> requests[c].prior,
                            desired |-> requests[c].desired, base |-> requests[c].base,
                            at |-> g]
        BY <2>2, <2>3 DEF RequestRecord
      <3> QED  BY <3>1, <2>1
    <2>5. c \notin Activated /\ Activated' = Activated \union {c}
      BY <2>1, <2>2, <2>4 DEF Activated
    <2>6. ActivatedBy(requests', g) = Activated \union {c}
      BY <2>1, <2>2, <2>4, <2>5, <1>1, <1>2, <1>3 DEF ActivatedBy, Activated
    <2>7. InForce(requests', g) = requests[c].desired
      <3>1. \A e \in ActivatedBy(requests', g) \ {c} : requests'[e].at < requests'[c].at
        BY <2>1, <2>2, <2>4, <2>6, <1>1, <1>2, <1>3
      <3>2. \A e \in ActivatedBy(requests', g) : requests'[e].at \in Nat
        BY <2>1, <2>2, <2>4, <2>6, <1>1, <1>2, <1>3
      <3> QED  BY <3>1, <3>2, <2>4, <2>6, LastInForce
    <2>8. \A h \in Nat : h <= generation => InForce(requests', h) = InForce(requests, h)
      <3> SUFFICES ASSUME NEW h \in Nat, h <= generation
                   PROVE  InForce(requests', h) = InForce(requests, h)
        OBVIOUS
      <3>1. ActivatedBy(requests', h) = ActivatedBy(requests, h)
        BY <2>1, <2>2, <2>4, <1>1 DEF ActivatedBy
      <3>2. \A d \in ActivatedBy(requests, h) : requests'[d] = requests[d]
        BY <2>1, <2>2 DEF ActivatedBy
      <3> QED  BY <3>1, <3>2, SameInForce
    <2>9. \A d \in Activated' : requests'[d].prior = InForce(requests', requests'[d].base)
      <3> TAKE d \in Activated'
      <3>1. CASE d = c
        BY <3>1, <2>4, <2>8, <1>1 DEF ScopeIsActivated
      <3>2. CASE d # c
        <4>1. d \in Activated /\ requests'[d] = requests[d]
          BY <3>2, <2>2, <2>5 DEF Activated
        <4>2. requests[d].base \in Nat /\ requests[d].base <= generation
          BY <4>1, <1>1, <1>2, <1>3
        <4> QED  BY <4>1, <4>2, <2>8 DEF ScopeIsActivated
      <3> QED  BY <3>1, <3>2
    <2> QED  BY <2>1, <2>7, <2>9 DEF ScopeIsActivated
  <1>8. ASSUME NEW c \in Change, Abandon(c)
        PROVE  ScopeIsActivated'
    <2>1. /\ requests' = [requests EXCEPT ![c].status = "abandoned", ![c].at = 0]
          /\ requests[c].status = "pending"
          /\ scope' = scope /\ generation' = generation
      BY <1>8 DEF Abandon, CanSettle, Settled
    <2>2. requests'[c].status = "abandoned" /\ \A d \in Change \ {c} : requests'[d] = requests[d]
      <3>1. requests[c] \in RequestRecord /\ requests \in [Change -> RequestRecord]
        BY <1>1
      <3>2. requests'[c] = [requests[c] EXCEPT !.status = "abandoned", !.at = 0]
        BY <2>1, <3>1
      <3>3. requests'[c].status = "abandoned"
        BY <3>1, <3>2 DEF RequestRecord
      <3> QED  BY <3>1, <3>3, <2>1
    <2>3. Activated' = Activated /\ \A d \in Activated : requests'[d] = requests[d]
      BY <2>1, <2>2 DEF Activated
    <2>4. scope' = scope /\ generation <= generation'
      BY <2>1, <1>1
    <2> QED  BY <1>4, <2>3, <2>4
  <1>9. ASSUME NEW g \in Generation, NEW commit \in RegistryCommit, TransferOwner(g, commit)
        PROVE  ScopeIsActivated'
    <2>1. /\ scope' = scope /\ requests' = requests /\ generation' = g
          /\ known => g > generation
      BY <1>9 DEF TransferOwner, AdvancesRegistry
    <2>2. generation <= generation' \/ Activated = {}
      BY <2>1, <1>1 DEF ScopeInv, Frontier, Activated
    <2> QED  BY <1>4, <2>1, <2>2 DEF Activated
  <1>10. CASE UNCHANGED scopeVars
    BY <1>4, <1>10, <1>1 DEF scopeVars, Activated
  <1> QED  BY <1>5, <1>6, <1>7, <1>8, <1>9, <1>10 DEF ScopeNext

(* The scope in force is always the one last activated, and every          *)
(* activation was requested on the scope in force before it.               *)
THEOREM ScopeIsAccounted == ScopeSpec => []ScopeIsActivated
  <1>1. ScopeInit => ScopeIsActivated
    <2> SUFFICES ASSUME ScopeInit PROVE ScopeIsActivated
      OBVIOUS
    <2>1. \A c \in Change : requests[c].status = "none"
      BY DEF ScopeInit, NoRequest
    <2>2. ActivatedBy(requests, generation) = {} /\ Activated = {}
      BY <2>1 DEF ActivatedBy, Activated
    <2> QED  BY <2>2, NothingInForce DEF ScopeInit, ScopeIsActivated
  <1> QED  BY <1>1, ActivatedStep, ScopeInvariant, PTL DEF ScopeSpec

-----------------------------------------------------------------------------
(* Preparation. *)

(* An activation names a publication of the same history, so what a        *)
(* restore or an acceptance names was published too.                       *)
PublishedFirst == EverActivated \subseteq publications

PreparationInv == AgreementInv /\ PublishedFirst

LEMMA ActivatedWasPublished == Spec => []PreparationInv
<1>1. Init => PublishedFirst
  BY DEF Init, PublishedFirst, EverActivated
<1>2. PublishedFirst /\ [Next]_vars => PublishedFirst'
  <2> SUFFICES ASSUME PublishedFirst, [Next]_vars PROVE PublishedFirst'
    OBVIOUS
  <2>1. ASSUME NEW v \in Version, NEW supersedes \in BOOLEAN, Activate(v, supersedes)
        PROVE  PublishedFirst'
    <3>1. PICK new : new = [version |-> v, supersedes |-> supersedes,
                            accepted |-> AcceptedAfter(v, supersedes)]
      OBVIOUS
    <3>2. /\ activations' = activations \union {new} /\ v \in publications
          /\ publications' = publications
      BY <2>1, <3>1 DEF Activate, CanActivate, Recorded
    <3>3. new.version = v
      BY <3>1
    <3> QED BY <3>2, <3>3, ActivatedGrows DEF PublishedFirst
  <2>2. CASE activations' = activations /\ publications \subseteq publications'
    BY <2>2 DEF PublishedFirst, EverActivated
  <2> QED BY <2>1, <2>2 DEF Next, Succeed, Publish, Restore, Accept, Revoke, vars, currency
<1> QED BY <1>1, <1>2, CurrencyInvariant, PTL DEF Spec, PreparationInv

(* After success a writer prepares what its own list allows.               *)
LEMMA WhatLifecyclePermits ==
  /\ \A narrows : LifecyclePermits("enforcement_scope_requested", narrows)
                    <=> project = "active" \/ narrows
  /\ \A narrows : LifecyclePermits("enforcement_scope_activated", narrows)
                    <=> project = "active" \/ narrows
  /\ \A type \in {"agreement_published", "agreement_activated",
                  "agreement_activation_restored", "acceptance",
                  "project_repository_owner_changed"} :
       LifecyclePermits(type, FALSE) <=> project = "active"
  /\ LifecyclePermits("revocation", FALSE)
  /\ LifecyclePermits("enforcement_scope_abandoned", FALSE)
BY DEF LifecyclePermits, AllowedAfterSuccess

(* The stored currency is one its reader accepts.                          *)
LEMMA StoredCurrencyReads ==
  ASSUME PreparationInv
  PROVE  /\ IsActiveAgreement(ActiveAgreement)
         /\ ActiveAgreement.active = active /\ ActiveAgreement.accepted = accepted
         /\ ActiveAgreement.retired = retired
         /\ active # None => active \in accepted /\ active \notin retired
                             /\ active \in publications
<1>1. Materializable /\ accepted \union retired = EverActivated
      /\ EverActivated \subseteq publications
  BY DEF PreparationInv, PublishedFirst, AgreementInv, HistoryAccounted
<1>2. accepted = {} => active = None /\ retired = {}
  BY <1>1 DEF Materializable
<1>3. active # None => active \in accepted /\ active \notin retired
  BY <1>1 DEF Materializable
<1>4. accepted # {} => active \in accepted
  BY <1>1 DEF Materializable
<1> QED BY <1>1, <1>2, <1>3, <1>4 DEF IsActiveAgreement, ActiveAgreement, Materializable

LEMMA AgreementIsPrepared ==
  ASSUME PreparationInv PROVE AgreementPrepared
<1>1. /\ ActiveAgreement = [active |-> active, accepted |-> accepted, retired |-> retired]
      /\ IsActiveAgreement(ActiveAgreement)
      /\ active # None => active \in accepted /\ active \notin retired
                          /\ active \in publications
      /\ accepted \intersect retired = {}
  BY StoredCurrencyReads DEF ActiveAgreement, PreparationInv, AgreementInv, Materializable
<1>2. \A v \in Version : PreparesPublication(v) <=> CanPublish(v)
  BY WhatLifecyclePermits DEF PreparesPublication, CanPublish
<1>3. ASSUME NEW v \in Version, NEW supersedes \in BOOLEAN, NEW versions
      PROVE  PreparesActivation(v, supersedes, versions) <=>
               /\ versions = AcceptedAfter(v, supersedes)
               /\ \/ CanActivate(v, supersedes)
                  \/ project = "active" /\ ActiveAgreement =
                       ExpectedAfterActivation(v, supersedes, versions)
  <2>1. PreparesActivation(v, supersedes, versions) <=>
          /\ project = "active" /\ v \in publications /\ v \notin retired
          /\ versions = AcceptedAfter(v, supersedes)
    BY <1>1, WhatLifecyclePermits DEF PreparesActivation, ExpectedAccepted, AcceptedAfter
  <2>2. ASSUME versions = AcceptedAfter(v, supersedes)
        PROVE  ActiveAgreement = ExpectedAfterActivation(v, supersedes, versions) <=>
                 /\ active = v /\ accepted = AcceptedAfter(v, supersedes)
                 /\ retired = RetiredAfter(v, supersedes)
    BY <1>1, <2>2 DEF ExpectedAfterActivation, RetiredAfter
  <2>3. active = v => v \in publications /\ v \notin retired
    BY <1>1, NoneIsNoVersion
  <2> QED BY <2>1, <2>2, <2>3 DEF CanActivate
<1>4. ASSUME NEW activation \in activations, NEW versions
      PROVE  PreparesRestore(activation, versions) <=>
               /\ versions = activation.accepted
               /\ \/ CanRestore(activation)
                  \/ project = "active" /\ ActiveAgreement =
                       ExpectedAfterRestore(activation, versions)
  <2>1. activation.version \in activation.accepted
    BY DEF PreparationInv, AgreementInv, HistoryAccounted
  <2>2. PreparesRestore(activation, versions) <=>
          project = "active" /\ versions = activation.accepted
    BY <1>1, <2>1, WhatLifecyclePermits DEF PreparesRestore
  <2>3. ASSUME versions = activation.accepted, active = activation.version,
               accepted = activation.accepted
        PROVE  ActiveAgreement = ExpectedAfterRestore(activation, versions)
    <3>1. (retired \union accepted) \ versions = retired
      BY <1>1, <2>3
    <3> QED BY <1>1, <2>3, <3>1 DEF ExpectedAfterRestore
  <2> QED BY <2>2, <2>3 DEF CanRestore
<1>5. \A v \in Version, supersedes \in BOOLEAN :
        ExpectedAfterActivation(v, supersedes, AcceptedAfter(v, supersedes)) =
          [active |-> v, accepted |-> AcceptedAfter(v, supersedes),
           retired |-> RetiredAfter(v, supersedes)]
  BY <1>1 DEF ExpectedAfterActivation, RetiredAfter
<1>6. \A activation \in activations :
        ExpectedAfterRestore(activation, activation.accepted) =
          [active |-> activation.version, accepted |-> activation.accepted,
           retired |-> RetiredAfterRestore(activation)]
  BY <1>1 DEF ExpectedAfterRestore, RetiredAfterRestore
<1>7. ASSUME NEW c \in Contributor, NEW v \in Version, NEW corrects \in BOOLEAN
      PROVE  /\ CanAccept(c, v, corrects) => PreparesAcceptance(c, v, corrects)
             /\ PreparesAcceptance(c, v, corrects) =>
                  CanAccept(c, v, corrects) \/ (~ corrects /\ Covered(c))
  <2>1. PreparesAcceptance(c, v, corrects) <=>
          /\ project = "active" /\ active # None /\ v = active
          /\ corrects => decisions[c].kind = "acceptance" /\ decisions[c].version = v
    BY <1>1, WhatLifecyclePermits DEF PreparesAcceptance
  <2>2. decisions[c] = Acceptance(v) <=>
          decisions[c].kind = "acceptance" /\ decisions[c].version = v
    BY DEF PreparationInv, AgreementInv, TypeOK, Decision, Acceptance
  <2> QED BY <2>1, <2>2 DEF CanAccept
<1>8. LifecyclePermits("revocation", FALSE)
  BY WhatLifecyclePermits
<1> QED BY <1>2, <1>3, <1>4, <1>5, <1>6, <1>7, <1>8 DEF AgreementPrepared

LEMMA ScopeIsPrepared ==
  ASSUME ScopeInv PROVE ScopePrepared
<1> SUFFICES ASSUME known PROVE ScopePrepared
  BY DEF ScopePrepared
<1>1. /\ Entry.scope = scope /\ Entry.generation = generation
      /\ \A c \in Change : c \in Entry.links <=> requests[c].status = "activated"
  BY DEF Entry
<1>2. ASSUME NEW c \in Change
      PROVE  /\ IsOpen(c) <=> requests[c].status = "pending"
             /\ RoutedAsRequested(c) <=> OnBaseline(c)
  <2>1. requests[c].status \in {"none", "pending", "activated", "abandoned"}
    BY DEF ScopeInv, ScopeTypeOK, RequestRecord
  <2> QED BY <1>1, <2>1 DEF IsOpen, TerminalAbsent, RoutedAsRequested, OnBaseline
<1>3. /\ generation \in Nat /\ \A g \in Generation : g \in Nat
      /\ \A t \in transfers : t[2] \in Nat /\ t[2] <= generation
  BY BoundIsNatural DEF ScopeInv, ScopeTypeOK, Frontier, Generation
<1>4. ASSUME NEW c \in Change, NEW selector \in Selector, NEW base \in Generation,
             requests[c].status = "none"
      PROVE  PreparesRequest(selector, base) <=> CanRequest(c, selector, base)
  BY <1>1, <1>4, WhatLifecyclePermits DEF PreparesRequest, CanRequest, Permitted
<1>5. ASSUME NEW c \in Change, NEW g \in Generation
      PROVE  PreparesScopeActivation(c, g) <=>
               PermittedToActivate(c) /\ CanSettle(c) /\ Advances(g)
  <2>1. generation < g <=> Advances(g)
    BY <1>3 DEF Advances
  <2>2. LifecyclePermits("enforcement_scope_activated", Narrows(c)) <=> PermittedToActivate(c)
    BY WhatLifecyclePermits DEF Narrows, PermittedToActivate, Permitted
  <2> QED BY <1>1, <1>2, <2>1, <2>2 DEF PreparesScopeActivation, CanSettle
<1>6. \A c \in Change : PreparesAbandonment(c) <=> CanSettle(c)
  BY <1>2, WhatLifecyclePermits DEF PreparesAbandonment, CanSettle
<1>7. ASSUME NEW g \in Generation
      PROVE  PreparesTransfer(g) <=> project = "active" /\ AdvancesRegistry(g)
  <2>1. generation < g <=> AdvancesRegistry(g)
    BY <1>3 DEF AdvancesRegistry, AdvancesTransfers
  <2> QED BY <1>1, <2>1, WhatLifecyclePermits DEF PreparesTransfer
<1> QED BY <1>4, <1>5, <1>6, <1>7 DEF ScopePrepared

(* The handlers of replay and the facts events.py demands judge alike, on  *)
(* every history of agreements and of scope: nothing is prepared that      *)
(* replay would refuse but for what changes nothing, and nobody is kept    *)
(* from what replay would take.                                            *)
THEOREM HandlersAgree == Spec /\ ScopeSpec => []PreparedAsReplayed
<1>1. PreparationInv /\ ScopeInv => PreparedAsReplayed
  BY AgreementIsPrepared, ScopeIsPrepared DEF PreparedAsReplayed
<1> QED BY <1>1, ActivatedWasPublished, ScopeInvariant, PTL
=============================================================================
