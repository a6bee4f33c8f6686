----------------------------- MODULE Evaluation -----------------------------
(***************************************************************************)
(* The three places that turn a contributor's last decision and the        *)
(* current agreement versions into an answer: the replay query, the check  *)
(* that gates a merge (coverage.py) and the status a reader is shown       *)
(* (derived.py).  Each was written on its own, over its own files.         *)
(*                                                                         *)
(*   decision   the contributor's last acceptance or revocation            *)
(*   exempt     some exemption source names the contributor                *)
(*   inflight   a mutation fence covers the contributor                    *)
(*   granted    an active override names the contributor at this head      *)
(***************************************************************************)
CONSTANTS Version, None

ASSUME NoneIsNoVersion == None \notin Version

Decision == [kind : {"none", "acceptance", "revocation"}, version : Version \union {None}]

NoDecision == [kind |-> "none", version |-> None]

Acceptance(v) == [kind |-> "acceptance", version |-> v]

Revocation == [kind |-> "revocation", version |-> None]

IsSigned(decision, accepted) ==
  /\ decision.kind = "acceptance"
  /\ decision.version \in accepted

(* effective_contributor_tuple_decision *)
EffectiveDecision(decision, accepted) ==
  IF IsSigned(decision, accepted) THEN "covered" ELSE "uncovered"

Outcome(answer, reason, overridden) ==
  [decision |-> answer, reason |-> reason, overridden |-> overridden]

ExemptBeforeSigned(project, decision, accepted, exempt, inflight, granted) ==
  IF project = "succeeded" THEN Outcome("uncovered", "none", FALSE)
  ELSE IF inflight THEN Outcome("uncovered", "indeterminate", FALSE)
  ELSE IF exempt THEN Outcome("covered", "exempt", FALSE)
  ELSE IF IsSigned(decision, accepted) THEN Outcome("covered", "signed", FALSE)
  ELSE Outcome("uncovered", "not_signed", FALSE)

(* evaluate_subject: what gates the merge. *)
EvaluateSubject(project, decision, accepted, exempt, inflight, granted) ==
  IF project = "succeeded" THEN Outcome("uncovered", "none", FALSE)
  ELSE IF inflight THEN Outcome("uncovered", "indeterminate", FALSE)
  ELSE IF IsSigned(decision, accepted) THEN Outcome("covered", "signed", FALSE)
  ELSE IF exempt THEN Outcome("covered", "exempt", FALSE)
  ELSE IF granted THEN Outcome("covered", "none", TRUE)
  ELSE Outcome("uncovered",
               CASE decision.kind = "acceptance" -> "version_not_active"
                 [] decision.kind = "revocation" -> "revoked"
                 [] decision.kind = "none"       -> "not_signed",
               FALSE)

Status(status, reason, generic) ==
  [status |-> status, reason |-> reason, generic |-> generic]

(* resolve_read_status: what a reader is shown. *)
ResolveReadStatus(decision, accepted, retired, exempt, inflight) ==
  IF inflight THEN Status("indeterminate", "operation_in_flight", "indeterminate")
  ELSE IF IsSigned(decision, accepted)
  THEN Status("current", "accepted_current_version", "signed")
  ELSE IF exempt THEN Status("exempt", "exempt_source_active", "exempt")
  ELSE CASE decision.kind = "acceptance" ->
              IF decision.version \in retired
              THEN Status("superseded", "superseded_by_activation", "version_not_active")
              ELSE Status("revoked", "version_not_accepted", "version_not_active")
         [] decision.kind = "revocation" ->
              Status("revoked", "revoked_by_contributor", "revoked")
         [] decision.kind = "none" ->
              Status("revoked", "no_acceptance_recorded", "not_signed")
=============================================================================
