------------------------------- MODULE MCTools -------------------------------
(***************************************************************************)
(* Small instances, for TLC, of the programs around the engine: an export, *)
(* a control job, the administration of a repository, and install plans.   *)
(* They share no state, so a behaviour runs one of them (side) from any of *)
(* its initial states while the others rest in one of theirs.              *)
(*                                                                         *)
(* Export: one run of either kind, for every view and principal; the runs  *)
(* it races with are in its environment.  What happens to the branches and *)
(* to the files does not depend on each other, so either the branches move *)
(* (side "export") or the files (side "files").  Control job: tokens that  *)
(* live for two units, a margin of one, and a wall clock that may jump far *)
(* ahead or become unreadable.                                             *)
(***************************************************************************)
EXTENDS Exports, ControlJob, Administration, Provisioning

CONSTANT x1

MCJumped == {Nothing, 6}

MCForeignKey ==
  {[key |-> "K", title |-> "U", readOnly |-> FALSE, mine |-> FALSE],
   [key |-> "K", title |-> "U", readOnly |-> TRUE, mine |-> FALSE],
   [key |-> "L", title |-> "T", readOnly |-> TRUE, mine |-> FALSE]}

MCAccount == {1, 2}

VARIABLE side

ExportRests ==
  /\ history = <<"none">> /\ ~ member
  /\ derived = <<NoPair>> /\ job[x1] = Fresh("hosted", "current", 1, "reader")

JobRests == operation = "verify"

AdminRests == call.verb = "private" /\ named.private

PlanRests == latest = [owner |-> 0, ids |-> [r \in Role |-> 0]] /\ ~ plan.ready

Init ==
  /\ side \in {"export", "files", "job", "admin", "plan"}
  /\ ExportInit /\ (side \in {"export", "files"} \/ ExportRests)
  /\ JobInit /\ (side = "job" \/ JobRests)
  /\ AdminInit /\ (side = "admin" \/ AdminRests)
  /\ PlanInit /\ (side = "plan" \/ PlanRests)

Next ==
  /\ \/ /\ \/ side \in {"export", "files"} /\ ExportRuns
           \/ side = "export" /\ Elsewhere
           \/ side = "files" /\ OnDisk
        /\ UNCHANGED <<jobVars, adminVars, planVars>>
     \/ side = "job" /\ JobNext /\ UNCHANGED <<exportVars, adminVars, planVars>>
     \/ side = "admin" /\ AdminNext /\ UNCHANGED <<exportVars, jobVars, planVars>>
     \/ side = "plan" /\ PlanNext /\ UNCHANGED <<exportVars, jobVars, adminVars>>
  /\ UNCHANGED side

Spec == Init /\ [][Next]_<<side, exportVars, jobVars, adminVars, planVars>>
=============================================================================
