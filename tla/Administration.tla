---------------------------- MODULE Administration ----------------------------
(***************************************************************************)
(* Administration of one GitHub repository (GitHubAdministration of        *)
(* github_admin.py): an operation checks the repository, looks at what it  *)
(* is about to change, writes at most once, and looks again before it says *)
(* what happened.  Every request goes to the repository that bears the     *)
(* name at that moment, while others may change it, rename it away, take   *)
(* its name for another, and rename it back.  Reads are retried inside one *)
(* step; a write never is, and one whose answer is lost may be applied     *)
(* later.                                                                  *)
(*                                                                         *)
(* A repository is a record, and keeps its id under any name; a new one     *)
(* has an id of its own.  The operation that renames a branch wants the    *)
(* commit Tip of "main" under the name "events"; the one that adds a deploy *)
(* key wants the key Wanted.  A key is "mine" if the write of the call     *)
(* made it: this is what its id tells.                                     *)
(***************************************************************************)
EXTENDS Naturals, Sequences, FiniteSets

CONSTANTS
  Verb,        \* the operations that may be called
  ForeignKey,  \* the deploy keys others may add
  MaxChanges   \* bound: changes by others

ASSUME ChangesAreBounded == MaxChanges \in Nat

ASSUME VerbsAreKnown ==
  Verb \subseteq {"create", "private", "rename", "key", "secret", "dispatch"}

VARIABLES
  named,    \* the repository that bears the name; its id is 0 if there is none
  away,     \* the repositories that bore it and now bear another
  lastId,   \* the last repository id given out
  admin,    \* the credential administers the repository
  call,     \* the operation under way
  pending,  \* its write may still be applied
  applied,  \* history: the ids of the repositories the write was applied to
  held,     \* history: since the write, the repository was as wanted
  returned, \* history: the ids that got the name back since the last check
            \* that passed, but for the one before the answer
  changes   \* changes by others so far

adminVars == <<named, away, lastId, admin, call, pending, applied, held, returned, changes>>

Tip == 1
Wanted == [key |-> "K", title |-> "T", readOnly |-> TRUE, mine |-> TRUE]

NoRepository == [id |-> 0, private |-> TRUE, default |-> "main",
                 heads |-> [b \in {"main", "events"} |-> 0], keys |-> {}]

ARepository(id, private) ==
  [NoRepository EXCEPT !.id = id, !.private = private, !.heads["main"] = Tip]

(* What each operation does, in order.  "look" reads the branches, the     *)
(* deploy keys, the public key of the secrets or the workflow.             *)
Program ==
  [create   |-> <<"inventory", "exact", "write", "check", "look", "check", "judge">>,
   private  |-> <<"check", "decide", "write", "check", "judge">>,
   rename   |-> <<"check", "look", "check", "decide", "check", "write",
                  "check", "look", "check", "judge">>,
   key      |-> <<"check", "look", "check", "decide", "write",
                  "check", "look", "check", "judge">>,
   secret   |-> <<"check", "look", "check", "write", "check", "judge">>,
   dispatch |-> <<"check", "look", "check", "write", "check", "judge">>]

Start(verb, ref) ==
  [verb |-> verb, at |-> 1, ref |-> ref, data |-> NoRepository, seen |-> NoRepository,
   sent |-> FALSE, ack |-> FALSE, full |-> FALSE, status |-> "none"]

AdminInit ==
  /\ lastId = 1 /\ away = {}
  /\ admin = TRUE
  /\ \E verb \in Verb :
       IF verb = "create"
       THEN /\ named \in {NoRepository, ARepository(1, TRUE)}
            /\ call \in {[Start(verb, 0) EXCEPT !.full = f] : f \in BOOLEAN}
       ELSE /\ named \in {ARepository(1, p) : p \in BOOLEAN}
            /\ call = Start(verb, 1)
  /\ pending = FALSE
  /\ applied = {}
  /\ held = FALSE
  /\ returned = {}
  /\ changes = 0

Doing(what) == call.status = "none" /\ Program[call.verb][call.at] = what

Returns(status) == call' = [call EXCEPT !.status = status]

Continues(with) == call' = [with EXCEPT !.at = call.at + 1]

GitHubAsIs == UNCHANGED <<named, away, lastId, admin, pending, applied, changes>>

-----------------------------------------------------------------------------
(* What the operations are for. *)

Branches(r) == {b \in DOMAIN r.heads : r.heads[b] # 0}

IsRenamed(heads, default) ==
  heads["events"] = Tip /\ default = "events" /\ heads["main"] = 0

Clashes(keys) ==
  \E k \in keys : \/ k.key = Wanted.key /\ k.readOnly # Wanted.readOnly
                  \/ k.title = Wanted.title /\ k.key # Wanted.key

HasWanted(keys) ==
  \E k \in keys : k.key = Wanted.key /\ k.readOnly = Wanted.readOnly

(* If the write was answered, the key found must be the one it made. *)
HasMine(keys) == HasWanted({k \in keys : call.ack => k.mine})

HasEither(keys) == \E k \in keys : k.key = Wanted.key \/ k.title = Wanted.title

AsWanted(verb, r) ==
  CASE verb = "create"  -> r.private /\ Branches(r) = {}
    [] verb = "private" -> r.private
    [] verb = "rename"  -> IsRenamed(r.heads, r.default)
    [] verb = "key"     -> HasWanted(r.keys)
    [] OTHER            -> TRUE

(* The write, if GitHub takes it, on the repository of that name.  A        *)
(* workflow is dispatched by its id, which is of the repository it was     *)
(* read from.                                                              *)
Takes(verb) ==
  CASE verb = "create" -> named.id = 0
    [] verb = "rename" -> named.id # 0 /\ named.heads["main"] # 0 /\ named.heads["events"] = 0
    [] verb = "key"    -> named.id # 0 /\ \A k \in named.keys : k.key # Wanted.key
    [] verb = "dispatch" -> named.id # 0 /\ named.id = call.seen.id
    [] OTHER           -> named.id # 0

Written(verb) ==
  CASE verb = "create"  -> [NoRepository EXCEPT !.id = lastId + 1]
    [] verb = "private" -> [named EXCEPT !.private = TRUE]
    [] verb = "rename"  ->
         [named EXCEPT !.heads = [main |-> 0, events |-> named.heads["main"]],
                       !.default = IF @ = "main" THEN "events" ELSE @]
    [] verb = "key"     -> [named EXCEPT !.keys = @ \union {Wanted}]
    [] OTHER            -> named

Applies ==
  /\ Takes(call.verb)
  /\ named' = Written(call.verb)
  /\ lastId' = IF call.verb = "create" THEN lastId + 1 ELSE lastId
  /\ applied' = applied \union {named'.id}

-----------------------------------------------------------------------------
(* The reads. *)

AsItFailed(status) == status

(* _unverified_write: a failed read says nothing about the write before.   *)
Unverified(status) == IF status = "conflict" THEN status ELSE "uncertain"

Fails(status) == Returns(IF call.sent THEN Unverified(status) ELSE status)

(* _repository: the name still leads to the repository of this id, which   *)
(* is private (unless it is to be made so) and under administration.       *)
IsTheRepository ==
  /\ named.id = call.ref
  /\ admin
  /\ named.private \/ call.verb = "private"

(* The second check of an inventory: the default branch has not moved.     *)
Steady ==
  call.verb = "rename" /\ Program[call.verb][call.at - 1] = "look" =>
    named.default = call.data.default

Check ==
  /\ Doing("check")
  /\ \/ IF named.id = 0 THEN Fails("uncertain")
        ELSE IF IsTheRepository /\ (call.at > 1 => Steady)
        THEN Continues([call EXCEPT !.data = named])
        ELSE Fails("conflict")
     \/ \E status \in {"denied", "uncertain"} : Fails(status)
  /\ GitHubAsIs

(* The branches carry the default branch the check before them read.       *)
Look ==
  /\ Doing("look")
  /\ \/ named.id # 0 /\ Continues([call EXCEPT !.seen = named])
     \/ Fails(IF call.verb = "dispatch" THEN "conflict" ELSE "uncertain")
  /\ GitHubAsIs

(* discover: absence is proved by a complete inventory that shows all the  *)
(* account's repositories, and by the exact name being not found.  A       *)
(* credential that may not see them all finds nothing either.              *)
Inventory ==
  /\ Doing("inventory")
  /\ \/ Continues([call EXCEPT !.seen = IF call.full THEN named ELSE NoRepository])
     \/ Fails("conflict")
  /\ GitHubAsIs

ProvedMissing ==
  /\ call.full
  /\ call.seen.id = 0
  /\ named.id = 0

Exact ==
  /\ Doing("exact")
  /\ IF ProvedMissing THEN Continues(call) \/ Fails("conflict") ELSE Fails("conflict")
  /\ GitHubAsIs

(* Already as wanted, in the way of what is wanted, or to be written.      *)
Decide ==
  /\ Doing("decide")
  /\ LET done == CASE call.verb = "private" -> call.data.private
                   [] call.verb = "rename"  -> IsRenamed(call.seen.heads, call.data.default)
                   [] OTHER                 -> HasWanted(call.seen.keys)
         clash == CASE call.verb = "private" -> FALSE
                    [] call.verb = "rename"  ->
                         \/ call.seen.heads["events"] # 0
                         \/ call.seen.heads["main"] # Tip
                         \/ call.data.default # "main"
                    [] OTHER                 -> Clashes(call.seen.keys)
     IN IF done /\ (call.verb = "rename" \/ ~ clash) THEN Returns("observed")
        ELSE IF clash THEN Returns("conflict")
        ELSE Continues(call)
  /\ GitHubAsIs

-----------------------------------------------------------------------------
(* The write: exactly one attempt. *)

Unproved == [call EXCEPT !.status = "uncertain", !.sent = TRUE]

AdoptedByName ==
  IF named'.id = 0 THEN Unproved
  ELSE [call EXCEPT !.ref = named'.id, !.sent = TRUE, !.at = call.at + 1]

(* create: a name alone never shows whose repository it is. *)
WithoutIdentity == Unproved

Unanswered ==
  CASE call.verb = "create"                -> WithoutIdentity
    [] call.verb \in {"secret", "dispatch"} -> Unproved
    [] OTHER                               -> [call EXCEPT !.sent = TRUE, !.at = call.at + 1]

Answered201 ==
  [call EXCEPT !.sent = TRUE, !.ack = TRUE, !.at = call.at + 1,
               !.ref = IF call.verb = "create" THEN named'.id ELSE @]

(* Before it is renamed, the default branch is looked at once more. *)
StillDefault == call.verb = "rename" => call.data.default = "main"

WriteOnce ==
  /\ Doing("write")
  /\ IF ~ StillDefault
     THEN Returns("conflict") /\ UNCHANGED <<named, lastId, pending, applied>>
     ELSE \/ /\ Applies
             /\ call' \in {Answered201, Unanswered} \union
                            IF call.verb \in {"create", "key"} THEN {Unproved} ELSE {}
             /\ UNCHANGED pending
          \/ /\ UNCHANGED <<named, lastId, applied>>
             /\ pending' \in BOOLEAN
             /\ call' = Unanswered
          \/ \E status \in {"conflict", "denied"} :
               Returns(status) /\ UNCHANGED <<named, lastId, pending, applied>>
  /\ UNCHANGED <<away, admin, changes>>

ApplyLate ==
  /\ pending
  /\ pending' = FALSE
  /\ Applies \/ UNCHANGED <<named, lastId, applied>>
  /\ UNCHANGED <<away, admin, call, changes>>

(* What the readback shows. *)
Verdict ==
  CASE call.verb \in {"secret", "dispatch"} -> "accepted"
    [] call.verb = "create" ->
         IF Branches(call.seen) = {} THEN "verified" ELSE "conflict"
    [] call.verb = "private" -> IF call.data.private THEN "verified" ELSE "uncertain"
    [] call.verb = "rename" ->
         IF IsRenamed(call.seen.heads, call.data.default) THEN "verified"
         ELSE IF call.seen.heads["events"] \notin {0, Tip} THEN "conflict"
         ELSE "uncertain"
    [] OTHER ->
         IF Clashes(call.seen.keys) THEN "conflict"
         ELSE IF HasMine(call.seen.keys) THEN "verified"
         ELSE IF HasEither(call.seen.keys) THEN "conflict"
         ELSE "uncertain"

Judge ==
  /\ Doing("judge")
  /\ Returns(Verdict)
  /\ GitHubAsIs

-----------------------------------------------------------------------------
(* Others: they publish the repository, push, rename or delete branches,    *)
(* add or delete keys, under whatever name it bears; rename it away, put a *)
(* new one in its place or one that bore the name before; or withdraw the  *)
(* permission.  GitHub does not delete a default branch.                   *)

ChangesOf(r) ==
  {[r EXCEPT !.private = FALSE]}
  \union {[r EXCEPT !.heads[b] = h] : b \in {"main", "events"}, h \in 1..2}
  \union {[r EXCEPT !.heads[b] = 0] : b \in {"main", "events"} \ {r.default}}
  \union {[r EXCEPT !.default = b] : b \in Branches(r)}
  \union {[r EXCEPT !.keys = @ \union {k}] :
            k \in {f \in ForeignKey : \A own \in r.keys : own.key # f.key}}
  \union {[r EXCEPT !.keys = @ \ {k}] : k \in r.keys}

Changed ==
  /\ \/ named.id # 0 /\ named' \in ChangesOf(named) /\ UNCHANGED away
     \/ \E r \in away : \E c \in ChangesOf(r) : away' = (away \ {r}) \union {c} /\ UNCHANGED named
  /\ UNCHANGED lastId

Newcomer == {[NoRepository EXCEPT !.id = lastId + 1], ARepository(lastId + 1, TRUE)}

Renamed ==
  /\ named' \in Newcomer \union {NoRepository} \union away
  /\ away' = (away \ {named'}) \union (IF named.id = 0 THEN {} ELSE {named})
  /\ lastId' = IF named' \in Newcomer THEN lastId + 1 ELSE lastId

Interfere ==
  /\ changes < MaxChanges
  /\ call.status = "none"
  /\ changes' = changes + 1
  /\ \/ (Changed \/ Renamed) /\ UNCHANGED admin
     \/ admin' = FALSE /\ UNCHANGED <<named, away, lastId>>
  /\ UNCHANGED <<call, pending, applied>>

AdminStep ==
  \/ Check \/ Look \/ Inventory \/ Exact \/ Decide \/ WriteOnce \/ Judge
  \/ ApplyLate \/ Interfere

(* What the history keeps of a step.  A check that passes opens a window   *)
(* in which something is read or written, unless it is the last.           *)
HeldSince ==
  \/ held
  \/ /\ call'.sent
     /\ \E r \in away' \union {named'} : r.id = call'.ref /\ AsWanted(call.verb, r)

Opens ==
  Doing("check") /\ call'.at # call.at /\ Program[call.verb][call'.at] # "judge"

ReturnedSince ==
  IF Opens THEN {} ELSE returned \union {r.id : r \in {a \in away : a.id = named'.id}}

AdminNext ==
  /\ AdminStep
  /\ held' = HeldSince
  /\ returned' = ReturnedSince

AdminSpec == AdminInit /\ [][AdminNext]_adminVars

-----------------------------------------------------------------------------
(* An answer that claims success is earned by the repository the caller    *)
(* named, whatever bears its name meanwhile: "verified" means that it was  *)
(* as wanted at some moment after the write, and a created one is of this  *)
(* very call; "accepted" that the write was taken by it.  The checks before *)
(* and after see that the name leads to it, not that it always did: where  *)
(* the answer rests on what was read or written between the last two of    *)
(* them (rename, key, secret, dispatch) it is earned unless the repository *)
(* lost the name and got it back in between.                               *)
Sandwiched == call.verb \in {"rename", "key", "secret", "dispatch"}

SuccessIsEarned ==
  (Sandwiched => call.ref \notin returned) =>
    /\ call.status = "verified" => held
    /\ call.status = "accepted" \/ (call.status = "verified" /\ call.verb = "create") =>
         call.ref \in applied

(* No answer hides a write: after "denied" or "observed" the operation has  *)
(* changed nothing and never will.                                         *)
NoWriteIsHidden ==
  call.status \in {"denied", "observed"} => applied = {} /\ ~ pending
=============================================================================
