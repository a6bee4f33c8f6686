----------------------------- MODULE Provisioning -----------------------------
(***************************************************************************)
(* Install plans (provisioning.py).  A plan is computed from one discovery *)
(* of the account and its repositories; resuming recomputes it from a new  *)
(* one and keeps what the plan before it fixed.  Nothing is executed: a    *)
(* plan is a value that its caller keeps between resumes, and accounts and *)
(* repositories may be renamed, replaced or hidden meanwhile.              *)
(*                                                                         *)
(* Identities are positive numbers, 0 stands for one that is not known.    *)
(***************************************************************************)
EXTENDS Naturals

CONSTANTS
  Role,      \* the repositories of an installation
  Account,   \* the numeric ids of accounts that may bear the login
  Identity   \* the numeric ids of repositories that may bear a name

ASSUME IdentitiesAreKnown == Account \subseteq Nat \ {0} /\ Identity \subseteq Nat \ {0}

VARIABLES
  plan,    \* the latest plan
  latest,  \* the identities it was computed from
  first    \* history: the first identity each name was found to have

planVars == <<plan, latest, first>>

Unseen == {[state |-> s, id |-> 0, fit |-> FALSE] : s \in {"unknown", "missing"}}

(* "fit": of this account and name, private, and under administration.     *)
Observation == Unseen \union [state : {"observed"}, id : Identity, fit : BOOLEAN]

(* "clear": the inventory is complete, its visibility is proved, and the    *)
(* run is dry; "verified": the owning verifier returned nothing, these     *)
(* identities, or others.                                                  *)
Discovery ==
  [owner : Account \union {0}, repositories : [Role -> Observation], clear : BOOLEAN,
   verified : {"nothing", "these", "others"}]

IdsOf(d) == [r \in Role |-> d.repositories[r].id]

(* A verification never holds unless every repository exists.              *)
Verified(d) ==
  /\ d.verified = "these"
  /\ d.owner # 0
  /\ \A r \in Role : d.repositories[r].state = "observed"

(* plan_install: no blocker. *)
Unblocked(d) ==
  /\ d.owner # 0
  /\ d.clear
  /\ d.verified = "nothing" \/ Verified(d)
  /\ \A r \in Role :
       \/ d.repositories[r].state = "missing"
       \/ d.repositories[r].fit /\ Verified(d)

Installed(d) == [owner |-> d.owner, ids |-> IdsOf(d), ready |-> Unblocked(d)]

(* plan_resume: "same" is whether the request names the owner, slug and    *)
(* release of the previous plan.                                           *)
Conflicts(p, d, same) ==
  \/ ~ same
  \/ p.owner # 0 /\ d.owner # p.owner
  \/ \E r \in Role : p.ids[r] # 0 /\ d.repositories[r].id # p.ids[r]

Kept(known, fresh) == IF known # 0 THEN known ELSE fresh

Anchored(p, d) ==
  [owner |-> Kept(p.owner, d.owner),
   ids |-> [r \in Role |-> Kept(p.ids[r], d.repositories[r].id)],
   ready |-> FALSE]

AsRead(p, d) == [Installed(d) EXCEPT !.ready = FALSE]

OnConflict(p, d) == Anchored(p, d)

Resumed(p, d, same) == IF Conflicts(p, d, same) THEN OnConflict(p, d) ELSE Installed(d)

Remembered(known, d) ==
  [owner |-> Kept(known.owner, d.owner),
   ids |-> [r \in Role |-> Kept(known.ids[r], d.repositories[r].id)]]

Found(d) == [owner |-> d.owner, ids |-> IdsOf(d)]

PlanInit ==
  \E d \in Discovery :
    /\ plan = Installed(d)
    /\ latest = Found(d)
    /\ first = Found(d)

Resume(d, same) ==
  /\ plan' = Resumed(plan, d, same)
  /\ latest' = Found(d)
  /\ first' = Remembered(first, d)

PlanNext == \E d \in Discovery, same \in BOOLEAN : Resume(d, same)

PlanSpec == PlanInit /\ [][PlanNext]_planVars

-----------------------------------------------------------------------------
(* However often a plan is resumed, and whatever was seen in between, it is *)
(* ready only over the account and the repositories that were found first: *)
(* one that takes over the login or a name is never planned for.           *)
ReadyOverTheFirst ==
  plan.ready =>
    /\ latest.owner = first.owner
    /\ \A r \in Role : first.ids[r] # 0 => latest.ids[r] = first.ids[r]
=============================================================================
