------------------------------ MODULE ControlJob ------------------------------
(***************************************************************************)
(* A protected control job (control_job of records/github.py): it mints    *)
(* installation tokens, checks that the repositories are the configured    *)
(* ones, works, and revokes every token it knows on the way out.           *)
(*                                                                         *)
(*   verify  reads the branches and reports                                *)
(*   probe   first challenges the credential: on each data repository it   *)
(*           creates a branch of its own, commits to it and deletes it     *)
(*                                                                         *)
(* A request may be answered, refused (401 or 403), fail, or lose its      *)
(* answer.  A write whose answer is lost may still be applied later, at    *)
(* the head it was conditioned on.                                         *)
(***************************************************************************)
EXTENDS Credentials

CONSTANTS
  MaxReads,  \* bound: reads of a verification
  MaxTime,   \* bound: provider's time
  MaxJumps,  \* bound: failures and jumps of the job's clocks
  Jumped     \* the values the wall clock may jump to

ASSUME ClocksMayJump ==
  /\ MaxReads \in Nat /\ MaxTime \in Nat /\ MaxJumps \in Nat
  /\ Jumped \subseteq Nat \union {Nothing}

Repository == {"records", "coverage"}

VARIABLES
  operation,  \* "verify" or "probe"
  pc,         \* the request the job makes next
  back,       \* where an authorization returns to
  checked,    \* token() has returned, its request is not yet sent
  retrying,   \* the read is the one retry after a refusal
  transport,  \* whether the transport's binding is set
  reads,      \* reads answered
  stage,      \* what the authorized transport is for: "challenge" or "verify"
  probed,     \* the repository under challenge
  known,      \* the head of its probe branch, as the job knows it
  branch,     \* the probe branch of each repository
  late,       \* writes that may still be applied
  raised,     \* the challenge ended in an exception
  receipt,    \* a receipt was printed
  exit,       \* the job's result
  jumps       \* jumps of the clocks so far

session == <<provider, seen, tracked, handed>>
challenge == <<stage, probed, known, branch, raised>>
ends == <<receipt, exit>>
flow == <<operation, back, checked, retrying, transport, reads>>

jobVars == <<clocks, session, flow, pc, challenge, late, ends, jumps>>

JobInit ==
  /\ CredentialsInit
  /\ operation \in {"verify", "probe"}
  /\ pc = "inventory" /\ back = "identify"
  /\ checked = FALSE /\ retrying = FALSE /\ transport = FALSE
  /\ reads = 0
  /\ stage = IF operation = "probe" THEN "challenge" ELSE "verify"
  /\ probed = "records"
  /\ known = "parent"
  /\ branch = [r \in Repository |-> "absent"]
  /\ late = {}
  /\ raised = FALSE
  /\ receipt = FALSE
  /\ exit = Nothing
  /\ jumps = 0

(* An exception: out of the job, or first through the deletion of a probe   *)
(* branch.                                                                 *)
Guarded == {"created", "commit", "committed"}

Abort ==
  /\ pc' = "close"
  /\ exit' = 1
  /\ UNCHANGED <<operation, back, retrying, reads, receipt, raised>>

Raise ==
  /\ pc' = "delete"
  /\ raised' = TRUE
  /\ UNCHANGED <<operation, back, retrying, reads, ends>>

Unwind(from) == IF from \in Guarded THEN Raise ELSE Abort

-----------------------------------------------------------------------------
(* InstallationCredentials.authorize: the App and the whole installation   *)
(* are checked, with a token of their own, before the data token is asked  *)
(* for.                                                                    *)

Reauthorize(returnTo) ==
  /\ Cleared
  /\ pc' = "inventory"
  /\ back' = returnTo

MintInventory ==
  /\ pc = "inventory"
  /\ MintAnswered
  /\ pc' = "data"
  /\ UNCHANGED <<clocks, handed, operation, back, checked, retrying, transport,
                 reads, challenge, late, ends, jumps>>

(* The installation is the expected one, and the data token is handed out. *)
MintData ==
  /\ pc = "data"
  /\ MintAnswered
  /\ credential' = Next1
  /\ expiry' = time + Lifetime
  /\ bound' = TRUE
  /\ pc' = back
  /\ transport' = TRUE
  /\ checked' = transport
  /\ UNCHANGED <<clocks, operation, back, retrying, reads, challenge, late, ends, jumps>>

(* A 401 while a read's token is refreshed is a refusal of that read.      *)
Retried == {"read", "head"}

AuthorizeFails ==
  /\ pc \in {"inventory", "data"}
  /\ MintFails
  /\ Cleared
  /\ \/ Unwind(back) /\ UNCHANGED transport
     \/ /\ back \in Retried
        /\ ~ retrying
        /\ pc' = "inventory"
        /\ back' = "identify"
        /\ transport' = FALSE
        /\ retrying' = TRUE
        /\ UNCHANGED <<operation, reads, ends, raised>>
  /\ UNCHANGED <<clocks, checked, stage, probed, known, branch, late, jumps>>

-----------------------------------------------------------------------------
(* token(): the credential for the next request, renewed when it is due.   *)

Sends == {"identify", "read", "head", "create", "created", "commit",
          "committed", "delete", "deleted"}

Token ==
  /\ pc \in Sends
  /\ ~ checked
  /\ bound
  /\ wall # Nothing
  /\ pc = "read" => reads < MaxReads
  /\ IF RefreshDue
     THEN Reauthorize(pc) /\ UNCHANGED checked
     ELSE checked' = TRUE /\ UNCHANGED <<handed, pc, back>>
  /\ UNCHANGED <<clocks, provider, seen, tracked, operation, retrying, transport,
                 reads, challenge, late, ends, jumps>>

TokenFails ==
  /\ pc \in Sends
  /\ ~ checked
  /\ ~ bound \/ wall = Nothing
  /\ Cleared
  /\ Unwind(pc)
  /\ UNCHANGED <<clocks, provider, seen, tracked, checked, transport, stage, probed,
                 known, branch, late, jumps>>

Answered == checked' = FALSE /\ UNCHANGED <<clocks, session, operation, jumps>>

(* RepositoryTransport.authorize: both repositories are the configured     *)
(* ones.  A refusal here is final.                                         *)
Identify ==
  /\ pc = "identify"
  /\ checked
  /\ Answered
  /\ \/ /\ Usable(credential)
        /\ pc' = IF stage = "challenge" THEN "head" ELSE "read"
        /\ UNCHANGED <<back, retrying, transport, reads, ends, raised>>
     \/ Abort /\ transport' = FALSE
  /\ UNCHANGED <<stage, probed, known, branch, late>>

(* RepositoryTransport._get *)
Read ==
  /\ pc = "read"
  /\ checked
  /\ Usable(credential)
  /\ reads < MaxReads
  /\ Answered
  /\ reads' = reads + 1
  /\ retrying' = FALSE
  /\ UNCHANGED <<pc, back, transport, challenge, late, ends>>

RetriesOnce == ~ retrying

RetriesAlways == TRUE

MayRetry == RetriesOnce

ReadRefused ==
  /\ pc \in Retried
  /\ checked
  /\ MayRetry
  /\ Reauthorize("identify")
  /\ checked' = FALSE
  /\ retrying' = TRUE
  /\ transport' = FALSE
  /\ UNCHANGED <<clocks, provider, seen, tracked, operation, reads, challenge, late, ends, jumps>>

ReadFails ==
  /\ pc = "read"
  /\ checked
  /\ Answered
  /\ Abort
  /\ UNCHANGED <<transport, stage, probed, known, branch, late>>

(* verify_project has read everything: the report, valid or not.           *)
Report ==
  /\ pc = "read"
  /\ ~ checked
  /\ reads = MaxReads
  /\ \/ operation = "probe" /\ pc' = "closeFirst" /\ UNCHANGED exit
     \/ operation = "verify" /\ pc' = "close" /\ exit' = 0
     \/ pc' = "close" /\ exit' = 1
  /\ UNCHANGED <<clocks, session, flow, challenge, late, receipt, jumps>>

-----------------------------------------------------------------------------
(* challenge: conditional writes on a branch of its own, in turn on both   *)
(* repositories.  An exception once the branch is created goes through its *)
(* deletion, which is conditioned on the head the job knows of.            *)

(* The write is applied now, later or never; the job takes it for applied  *)
(* when it is told so, or when it reads the resulting head back.           *)
Write(before, after, ok) ==
  /\ \/ branch[probed] = before /\ branch' = [branch EXCEPT ![probed] = after] /\ UNCHANGED late
     \/ UNCHANGED branch /\ late' \in {late, late \union {<<probed, before, after>>}}
  /\ ok => branch'[probed] = after
  /\ Answered

Quietly == UNCHANGED <<operation, back, retrying, reads, ends, raised>>

FindNoBranch ==
  /\ pc = "head" /\ checked
  /\ Answered
  /\ \/ /\ branch[probed] = "absent"
        /\ pc' = "create"
        /\ retrying' = FALSE
        /\ UNCHANGED <<back, reads, ends, raised>>
     \/ Abort
  /\ UNCHANGED <<transport, stage, probed, known, branch, late>>

Create ==
  /\ pc = "create" /\ checked
  /\ \E ok \in BOOLEAN :
       /\ Write("absent", "parent", ok)
       /\ IF ok THEN pc' = "created" /\ Quietly ELSE Abort
  /\ known' = "parent"
  /\ UNCHANGED <<transport, stage, probed>>

CheckHead(at, next) ==
  /\ pc = at /\ checked
  /\ Answered
  /\ \/ branch[probed] = known /\ pc' = next /\ Quietly
     \/ Raise
  /\ UNCHANGED <<transport, stage, probed, known, branch, late>>

CommitProbe ==
  /\ pc = "commit" /\ checked
  /\ \E ok \in BOOLEAN :
       /\ Write("parent", "commit", ok)
       /\ IF ok THEN pc' = "committed" /\ known' = "commit" /\ Quietly
          ELSE Raise /\ UNCHANGED known
  /\ UNCHANGED <<transport, stage, probed>>

Delete ==
  /\ pc = "delete" /\ checked
  /\ \E ok \in BOOLEAN :
       /\ Write(known, "absent", ok)
       /\ IF ok THEN pc' = "deleted" /\ Quietly ELSE Abort
  /\ UNCHANGED <<transport, stage, probed, known>>

(* The next repository, or the verification, which authorizes anew.        *)
CheckDeleted ==
  /\ pc = "deleted" /\ checked
  /\ branch[probed] = "absent"
  /\ ~ raised
  /\ checked' = FALSE
  /\ IF probed = "records"
     THEN pc' = "head" /\ probed' = "coverage" /\ UNCHANGED <<handed, back, transport, stage>>
     ELSE /\ Reauthorize("identify")
          /\ transport' = FALSE
          /\ stage' = "verify"
          /\ UNCHANGED probed
  /\ UNCHANGED <<clocks, provider, seen, tracked, operation, retrying, reads, ends,
                 raised, known, branch, late, jumps>>

ProbeWriteFails ==
  /\ pc \in {"delete", "deleted"}
  /\ checked
  /\ Answered
  /\ Abort
  /\ UNCHANGED <<transport, stage, probed, known, branch, late>>

LateWrite ==
  \E w \in late :
    /\ late' = late \ {w}
    /\ branch' = IF branch[w[1]] = w[2] THEN [branch EXCEPT ![w[1]] = w[3]] ELSE branch
    /\ UNCHANGED <<clocks, session, flow, pc, stage, probed, known, raised, ends, jumps>>

-----------------------------------------------------------------------------
(* The way out. *)

(* The receipt of a probe is printed only once its tokens are revoked.     *)
CloseFirst ==
  /\ pc = "closeFirst"
  /\ \E failed \in BOOLEAN :
       /\ Revoke(failed)
       /\ receipt' = ~ failed
       /\ exit' = IF failed THEN 1 ELSE 0
  /\ pc' = "close"
  /\ UNCHANGED <<clocks, flow, challenge, late, jumps>>

ResultAfter(failed) == IF failed THEN 1 ELSE exit

ResultKept(failed) == exit

ExitAfter(failed) == ResultAfter(failed)

Close ==
  /\ pc = "close"
  /\ \E failed \in BOOLEAN :
       /\ Revoke(failed)
       /\ exit' = ExitAfter(failed)
  /\ pc' = "done"
  /\ UNCHANGED <<clocks, flow, challenge, late, receipt, jumps>>

Step ==
  \/ MintInventory \/ MintData \/ AuthorizeFails \/ Token \/ TokenFails
  \/ Identify \/ Read \/ ReadRefused \/ ReadFails \/ Report
  \/ FindNoBranch \/ Create \/ CheckHead("created", "commit") \/ CommitProbe
  \/ CheckHead("committed", "delete") \/ Delete \/ CheckDeleted \/ ProbeWriteFails
  \/ CloseFirst \/ Close

ClockMoves ==
  /\ pc # "done"
  /\ \/ Tick(MaxTime) /\ UNCHANGED jumps
     \/ /\ jumps < MaxJumps
        /\ jumps' = jumps + 1
        /\ MonoFails \/ \E to \in Jumped : WallJumps(to)
  /\ UNCHANGED <<session, flow, pc, challenge, late, ends>>

JobNext == Step \/ LateWrite \/ ClockMoves

JobSpec == JobInit /\ [][JobNext]_jobVars

-----------------------------------------------------------------------------
(* Every token the process was told of and that can still be used is one   *)
(* it will try to revoke, whatever its clocks did in between.              *)
UsableTokensAreTracked == \A t \in seen : Usable(t) => t \in DOMAIN issued

(* A job that reports success or has printed its receipt has left nothing  *)
(* behind: none of the tokens it knew of is usable, and neither probe      *)
(* branch exists or can come back through a write still under way.         *)
SuccessLeavesNothing ==
  (pc = "done" /\ exit = 0) \/ receipt =>
    /\ \A t \in seen : ~ Usable(t)
    /\ \A r \in Repository : branch[r] = "absent"

(* By an honest wall clock, a token handed out for a request lives through *)
(* the margin, so longer than the request may take.                        *)
HandedTokensLive ==
  [][~ checked /\ checked' /\ wall' = time' =>
       /\ credential' \in Tokens' /\ credential' \notin revoked'
       /\ time' + Margin < expires'[credential']]_jobVars

(* The request the job is at, or comes back to once it is authorized.      *)
Where == IF pc \in {"inventory", "data"} THEN back ELSE pc

(* The requests left up to the end of a challenge, or to the next read.     *)
Place ==
  IF transport
  THEN [deleted |-> 1, delete |-> 2, committed |-> 3, commit |-> 4, created |-> 5,
        create |-> 6, head |-> 7, read |-> 8, identify |-> 9][Where]
  ELSE 10

(* The reads left, with the one retry each of them has.                    *)
Budget ==
  IF Where \in {"identify", "head", "read"}
  THEN 2 * (MaxReads - reads) + IF retrying THEN 1 ELSE 2
  ELSE 0

(* What the repositories still to be challenged may take. *)
Turn == 2 * MaxReads + 3

Ahead == IF stage = "verify" THEN 0 ELSE IF probed = "coverage" THEN Turn ELSE 2 * Turn

(* Within one request: its token is renewed, if need be, and checked.      *)
Within ==
  CASE pc = "inventory" -> 3
    [] pc = "data" -> 2
    [] OTHER -> IF checked THEN 1 ELSE 4

(* How much the job can still do.                                          *)
Remaining ==
  CASE pc = "done" -> 0
    [] pc = "close" -> 1
    [] pc = "closeFirst" -> 2
    [] OTHER -> 100 * (Ahead + Budget) + 5 * Place + Within

(* The job ends: whatever is refused, lost or renewed, every step leaves   *)
(* less to do, so no clock and no refusal keeps it authorizing for ever.   *)
JobWindsDown == [][Remaining' < Remaining]_<<pc, checked, retrying, reads>>
=============================================================================
