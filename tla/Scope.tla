-------------------------------- MODULE Scope --------------------------------
(***************************************************************************)
(* The enforcement scope of one connected project and the registry         *)
(* generation it is routed by, as replay.py folds them.  A change of scope *)
(* is requested, and later activated at a new registry generation or       *)
(* abandoned; several requests may be pending, and the repository owner    *)
(* may change between, which is a registry generation too.  Each action is *)
(* one event replay accepts.                                               *)
(*                                                                         *)
(* A request is known by its change ID and an authorization relation by    *)
(* the selector it names and its direction, which the change fixes.        *)
(***************************************************************************)
EXTENDS Lifecycle, Naturals, FiniteSets

CONSTANTS
  Selector,        \* a repository or an organization
  Change,          \* change IDs
  RegistryCommit,  \* the commits of the registry
  MaxGeneration    \* bound: registry generations

ASSUME BoundIsNatural == MaxGeneration \in Nat

VARIABLES
  scope,          \* enforcement_scope
  known,          \* enforcement_scope_registry_generation is not None
  generation,     \* ... and its value
  requests,       \* scope_requests
  boundCommits,    \* the registry commits activations are bound to
  transfers       \* the owner transfers: registry commits and generations

scopeVars == <<project, scope, known, generation, requests, boundCommits, transfers>>

Generation == 0..MaxGeneration

(* terminal_kind, and the generation an activation is bound to. *)
NoRequest == [status |-> "none", prior |-> {}, desired |-> {}, base |-> 0, at |-> 0]

RequestRecord ==
  [status : {"none", "pending", "activated", "abandoned"},
   prior : SUBSET Selector, desired : SUBSET Selector,
   base : Generation, at : Generation]

ScopeInit ==
  /\ project = "active"
  /\ scope = {}
  /\ known = FALSE
  /\ generation = 0
  /\ requests = [c \in Change |-> NoRequest]
  /\ boundCommits = {}
  /\ transfers = {}

ScopeSucceed ==
  /\ Succeeds
  /\ UNCHANGED <<scope, known, generation, requests, boundCommits, transfers>>

(* The post-success allowlist: only to narrow or remove. *)
Permitted(prior, desired) == project = "active" \/ desired \subseteq prior

(* Exactly one selector changes. *)
Desired(selector) ==
  IF selector \in scope THEN scope \ {selector} ELSE scope \union {selector}

(* The first request takes the registry's generation as the baseline. *)
CanRequest(c, selector, base) ==
  /\ Permitted(scope, Desired(selector))
  /\ requests[c].status = "none"
  /\ known => base = generation

Request(c, selector, base) ==
  /\ CanRequest(c, selector, base)
  /\ requests' = [requests EXCEPT ![c] =
                    [status |-> "pending", prior |-> scope,
                     desired |-> Desired(selector), base |-> base, at |-> 0]]
  /\ known' = TRUE
  /\ generation' = base
  /\ UNCHANGED <<project, scope, boundCommits, transfers>>

OnSameScope(c) == requests[c].prior = scope

(* The effective scope and the generation are those of the request. *)
OnBaseline(c) ==
  /\ requests[c].prior = scope
  /\ requests[c].base = generation

(* _scope_terminal_request *)
CanSettle(c) ==
  /\ requests[c].status = "pending"
  /\ OnBaseline(c)

(* _settle_scope_request *)
Settled(c, kind, g) == [requests EXCEPT ![c].status = kind, ![c].at = g]

PermittedToActivate(c) == Permitted(requests[c].prior, requests[c].desired)

AdvancesOrRepeats(g) == g >= generation

Advances(g) == g > generation

ActivateScope(c, g, commit) ==
  /\ PermittedToActivate(c)
  /\ CanSettle(c)
  /\ Advances(g)
  /\ commit \notin boundCommits
  /\ requests' = Settled(c, "activated", g)
  /\ scope' = requests[c].desired
  /\ generation' = g
  /\ boundCommits' = boundCommits \union {commit}
  /\ UNCHANGED <<project, known, transfers>>

Abandon(c) ==
  /\ CanSettle(c)
  /\ requests' = Settled(c, "abandoned", 0)
  /\ UNCHANGED <<project, scope, known, generation, boundCommits, transfers>>

AdvancesTransfers(g) == \A t \in transfers : g > t[2]

AdvancesRegistry(g) == AdvancesTransfers(g) /\ (known => g > generation)

(* project_repository_owner_changed *)
TransferOwner(g, commit) ==
  /\ project = "active"
  /\ \A t \in transfers : t[1] # commit
  /\ AdvancesRegistry(g)
  /\ known' = TRUE
  /\ generation' = g
  /\ transfers' = transfers \union {<<commit, g>>}
  /\ UNCHANGED <<project, scope, requests, boundCommits>>

ScopeNext ==
  \/ ScopeSucceed
  \/ \E c \in Change, selector \in Selector, base \in Generation :
       Request(c, selector, base)
  \/ \E c \in Change, g \in Generation, commit \in RegistryCommit :
       ActivateScope(c, g, commit)
  \/ \E c \in Change : Abandon(c)
  \/ \E g \in Generation, commit \in RegistryCommit : TransferOwner(g, commit)

ScopeSpec == ScopeInit /\ [][ScopeNext]_scopeVars

-----------------------------------------------------------------------------
Activated == {c \in Change : requests[c].status = "activated"}

(* The shape of the replayed state. *)
ScopeTypeOK ==
  /\ project \in {"active", "succeeded"}
  /\ scope \subseteq Selector
  /\ known \in BOOLEAN
  /\ generation \in Generation
  /\ requests \in [Change -> RequestRecord]
  /\ boundCommits \subseteq RegistryCommit
  /\ transfers \subseteq RegistryCommit \X Generation

(* No activation is lost under another: the registry generations between a *)
(* request and its activation belong to it alone, so no other activation   *)
(* and no owner change took effect there.                                  *)
NoLostChange ==
  \A c \in Activated :
    /\ requests[c].base < requests[c].at
    /\ \A d \in Activated \ {c} :
         requests[d].at <= requests[c].base \/ requests[c].at <= requests[d].base
    /\ \A t \in transfers : t[2] <= requests[c].base \/ requests[c].at < t[2]

ActivatedBy(rs, g) == {c \in Change : rs[c].status = "activated" /\ rs[c].at <= g}

(* What the last activation at or before a generation desired. *)
InForce(rs, g) ==
  UNION {rs[c].desired :
           c \in {d \in ActivatedBy(rs, g) :
                   \A e \in ActivatedBy(rs, g) : rs[e].at <= rs[d].at}}

(* The scope in force is what the last activation desired, and that one    *)
(* was requested on what the activation before it desired, back to the     *)
(* empty scope: the history accounts for every selector that is enforced.  *)
ScopeIsActivated ==
  /\ scope = InForce(requests, generation)
  /\ \A c \in Activated : requests[c].prior = InForce(requests, requests[c].base)

Pending(c) == requests[c].status = "pending"

(* A pending request that another activation or an owner change overtook   *)
(* never settles: it stays pending for ever, even when later activations   *)
(* bring its prior scope back, so an operator must make a new request.     *)
OvertakenForGood ==
  [][\A c \in Change :
       Pending(c) /\ ~ OnBaseline(c) => Pending(c)' /\ ~ OnBaseline(c)']_scopeVars

(* After success enforcement only shrinks, also by requests that were made *)
(* before it: a widening that is still pending can only be abandoned.      *)
ShrinksAfterSuccess == [][project = "succeeded" => scope' \subseteq scope]_scopeVars
=============================================================================
