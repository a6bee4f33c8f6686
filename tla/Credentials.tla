----------------------------- MODULE Credentials -----------------------------
(***************************************************************************)
(* The installation tokens of a control job, as InstallationCredentials of *)
(* records/credentials.py mints, hands out, forgets and revokes them.      *)
(*                                                                         *)
(* Three clocks disagree: the provider's time, which alone decides when a  *)
(* token dies; the wall clock of the job, which may jump and may be        *)
(* unreadable (Nothing); and the monotonic clock, which moves with time and   *)
(* may become unreadable too.  Tokens are numbered as the provider mints   *)
(* them: expires[t] is the time token t dies at.                           *)
(***************************************************************************)
EXTENDS Naturals, Sequences, FiniteSets

CONSTANTS
  Lifetime,   \* of a token (one hour)
  Margin,     \* _margin
  MaxIssued,  \* tokens tracked at once (1000)
  Nothing

ASSUME TokensOutliveTheMargin ==
  /\ Lifetime \in Nat /\ Margin \in Nat \ {0} /\ MaxIssued \in Nat
  /\ Margin < Lifetime
  /\ Nothing \notin Nat

VARIABLES
  time, wall, mono,  \* the clocks
  expires, revoked,  \* the provider's tokens
  seen,              \* the tokens this process was ever told of
  issued,            \* _issued: the known expiry of a token, or Nothing
  deadlines,         \* _issued_deadlines: on the monotonic clock
  credential,        \* _credential
  expiry,            \* _expiry
  bound              \* whether _binding is set

clocks == <<time, wall, mono>>
provider == <<expires, revoked>>
tracked == <<issued, deadlines>>
handed == <<credential, expiry, bound>>

Tokens == DOMAIN expires

Usable(t) == t \in Tokens \ revoked /\ time < expires[t]

CredentialsInit ==
  /\ time = 0 /\ wall = 0 /\ mono = 0
  /\ expires = <<>> /\ revoked = {} /\ seen = {}
  /\ issued = <<>> /\ deadlines = <<>>
  /\ credential = Nothing /\ expiry = 0 /\ bound = FALSE

Only(f, S) == [t \in DOMAIN f \intersect S |-> f[t]]

With(f, t, v) == [u \in DOMAIN f \union {t} |-> IF u = t THEN v ELSE f[u]]

-----------------------------------------------------------------------------
(* _prune_issued: a token is forgotten only when both clocks are past its  *)
(* end.  Without a clock it needs, pruning fails and forgets nothing.      *)

PruneFails ==
  \/ wall = Nothing
  \/ mono = Nothing /\ \E t \in DOMAIN issued : issued[t] # Nothing

WallIsPast(t) == wall >= issued[t] + Margin

DeadByBoth(t) ==
  /\ issued[t] # Nothing
  /\ t \in DOMAIN deadlines
  /\ WallIsPast(t)
  /\ mono >= deadlines[t]

DeadByWall(t) == issued[t] # Nothing /\ WallIsPast(t)

ProvedDead(t) == DeadByBoth(t)

StillTracked == {t \in DOMAIN issued : PruneFails \/ ~ ProvedDead(t)}

-----------------------------------------------------------------------------
(* _mint: one POST, and what its answer leaves in the process. *)

CanMint ==
  /\ ~ PruneFails
  /\ Cardinality(StillTracked) < MaxIssued

Pruned(i, d) ==
  IF PruneFails THEN i = issued /\ d = deadlines
  ELSE i = Only(issued, StillTracked) /\ d = Only(deadlines, StillTracked)

Next1 == Len(expires) + 1

Mints == expires' = Append(expires, time + Lifetime) /\ UNCHANGED revoked

ExpiryIsSane(e) ==
  wall # Nothing /\ wall + Margin < e /\ e <= wall + Lifetime + Margin

(* Kept from the moment it is observed, before its answer is validated.    *)
KeptOnSight(t) == t = Next1

(* The answer is complete: the token is tracked with both of its ends, or  *)
(* with none that the monotonic clock could not give.                      *)
MintAnswered ==
  /\ CanMint
  /\ Mints
  /\ ExpiryIsSane(time + Lifetime)
  /\ seen' = seen \union {Next1}
  /\ issued' = With(Only(issued, StillTracked), Next1, time + Lifetime)
  /\ deadlines' =
       IF mono = Nothing THEN Only(deadlines, StillTracked)
       ELSE With(Only(deadlines, StillTracked), Next1, mono + Lifetime + Margin)

(* The token is in the answer, but the rest of it, or its expiry by this   *)
(* wall clock, is not what was asked for.                                  *)
MintRefusedOnSight ==
  /\ CanMint
  /\ Mints
  /\ seen' = seen \union {Next1}
  /\ issued' = IF KeptOnSight(Next1)
               THEN With(Only(issued, StillTracked), Next1, Nothing)
               ELSE Only(issued, StillTracked)
  /\ deadlines' = Only(deadlines, StillTracked)

(* Nothing was minted, or the answer was lost, with a token that no process *)
(* will ever know: the model leaves it out.                                *)
MintUnseen ==
  /\ CanMint
  /\ UNCHANGED provider
  /\ Pruned(issued', deadlines')
  /\ UNCHANGED seen

MintNotSent ==
  /\ ~ CanMint
  /\ Pruned(issued', deadlines')
  /\ UNCHANGED <<provider, seen>>

MintFails == MintRefusedOnSight \/ MintUnseen \/ MintNotSent

-----------------------------------------------------------------------------
(* token() and close(). *)

Cleared == credential' = Nothing /\ expiry' = 0 /\ bound' = FALSE

DueAtExpiry == wall >= expiry

DueBeforeExpiry == wall + Margin >= expiry

RefreshDue == DueBeforeExpiry

(* Every tracked token is revoked with one DELETE of its own; some of the  *)
(* answers are lost, and a dead token is refused.                          *)
Revoke(failed) ==
  /\ Cleared
  /\ \E died \in SUBSET {t \in StillTracked : Usable(t)} :
       \E confirmed \in SUBSET died :
         /\ revoked' = revoked \union died
         /\ issued' = Only(issued, StillTracked \ confirmed)
         /\ deadlines' = Only(deadlines, StillTracked \ confirmed)
         /\ failed <=> StillTracked # confirmed
  /\ UNCHANGED <<expires, seen>>

-----------------------------------------------------------------------------
(* The clocks. *)

Tick(limit) ==
  /\ time < limit
  /\ time' = time + 1
  /\ wall' = IF wall = Nothing THEN Nothing ELSE wall + 1
  /\ mono' = IF mono = Nothing THEN Nothing ELSE mono + 1

WallJumps(to) == wall' = to /\ UNCHANGED <<time, mono>>

MonoFails == mono' = Nothing /\ UNCHANGED <<time, wall>>
=============================================================================
