------------------------------ MODULE Lifecycle ------------------------------
(***************************************************************************)
(* The lifecycle of one connected project, which every family of canonical *)
(* events shares: it is active until it is succeeded by another project.   *)
(* Replay checks it in each handler; a writer checks it once more, before  *)
(* it prepares an event, against its own list of what stays allowed.       *)
(***************************************************************************)
VARIABLE project

Succeeds == project = "active" /\ project' = "succeeded"

AllowedAfterSuccess ==
  {"revocation", "keyring_activated", "retry_requested", "enforcement_scope_abandoned",
   "records_reader_authorized", "records_reader_snapshot_authorized",
   "records_reader_withdrawn", "records_reader_rule_configured",
   "records_reader_rule_withdrawn"}

(* project-lifecycle; narrows: a scope change that narrows or removes, or  *)
(* a materialization that withdraws.                                       *)
LifecyclePermits(type, narrows) ==
  project = "active" \/ type \in AllowedAfterSuccess \/ narrows
=============================================================================
