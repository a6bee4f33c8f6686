---------------------------- MODULE ControlJobProofs ----------------------------
(* Theorems of ControlJob, for every lifetime, margin, limit and bound, and *)
(* for all values the clocks of the job may jump to.                       *)
EXTENDS ControlJob, TLAPS

-----------------------------------------------------------------------------
(* The inductive invariant.  A token may only be forgotten once it is dead, *)
(* which the monotonic clock alone can show: it runs with the provider's   *)
(* time while it runs, so the deadline kept on it is past only after the   *)
(* token's end.                                                            *)

ClockValue == Nat \union {Nothing}

ClocksOK == time \in Nat /\ wall \in ClockValue /\ mono \in {time, Nothing}

TokensOK ==
  /\ expires \in Seq(Nat)
  /\ revoked \subseteq Tokens
  /\ seen \subseteq Tokens

TrackedOK ==
  /\ issued \in [DOMAIN issued -> ClockValue]
  /\ DOMAIN issued \subseteq Tokens
  /\ deadlines \in [DOMAIN deadlines -> Nat]
  /\ DOMAIN deadlines \subseteq Tokens
  /\ \A t \in DOMAIN deadlines : expires[t] <= deadlines[t]

Tracks == ClocksOK /\ TokensOK /\ TrackedOK /\ UsableTokensAreTracked

(* The token at hand is one of the provider's, with its own expiry.        *)
HandedIsKnown ==
  bound => /\ credential \in Tokens \ revoked
           /\ expiry = expires[credential]

(* There is one probe branch, or none, for each repository. *)
Branched == branch = [r \in Repository |-> branch[r]]

USE DEF Branched

FlowOK ==
  /\ pc \in Sends \union {"inventory", "data", "closeFirst", "close", "done"}
  /\ back \in Sends
  /\ checked \in BOOLEAN /\ retrying \in BOOLEAN /\ transport \in BOOLEAN
  /\ raised \in BOOLEAN /\ receipt \in BOOLEAN
  /\ reads \in 0..MaxReads
  /\ stage \in {"challenge", "verify"}
  /\ probed \in Repository
  /\ Branched
  /\ checked => pc \in Sends
  /\ ~ transport => Where \in {"identify", "close", "done"}
  /\ ~ transport /\ Where = "identify" => pc # "identify"
  /\ Where \in {"read", "closeFirst"} => stage = "verify"
  /\ Where \in Sends \ {"identify", "read"} => stage = "challenge"

(* No probe branch exists, nor can one come back.                          *)
Clean == late = {} /\ \A r \in Repository : branch[r] = "absent"

(* Only the repository under challenge has one, at the head the job knows. *)
Probing(head) ==
  /\ late = {}
  /\ known = head
  /\ \A r \in Repository : branch[r] = IF r = probed THEN head ELSE "absent"

(* Until it fails, a challenge knows what it left behind; once it failed,   *)
(* only the deletion is tried and the job ends with 1.                     *)
ProbesAreKnown ==
  /\ raised => /\ Where \in {"delete", "deleted", "close", "done"}
               /\ pc \in {"close", "done"} => exit = 1
  /\ ~ raised =>
       /\ Where \in {"identify", "head", "create", "read", "deleted", "closeFirst"} => Clean
       /\ Where \in {"created", "commit"} => Probing("parent")
       /\ Where \in {"committed", "delete"} => Probing("commit")
  /\ pc \in {"close", "done"} /\ exit = 0 => Clean
  /\ receipt => Clean

NothingIsTracked ==
  /\ pc = "done" /\ exit = 0 => DOMAIN issued = {}
  /\ receipt => DOMAIN issued = {} /\ pc \in {"close", "done"}

JobIInv == Tracks /\ HandedIsKnown /\ FlowOK /\ ProbesAreKnown /\ NothingIsTracked

-----------------------------------------------------------------------------
(* The bookkeeping of tokens. *)

(* A token whose entry would be forgotten has reached the provider's end.  *)
LEMMA ForgottenAreDead ==
  ASSUME Tracks, NEW t \in DOMAIN issued, t \notin StillTracked
  PROVE  ~ Usable(t)
<1>1. ~ PruneFails /\ ProvedDead(t)
  BY DEF StillTracked
<1>2. issued[t] # Nothing /\ t \in DOMAIN deadlines /\ mono >= deadlines[t]
  BY <1>1 DEF ProvedDead, DeadByBoth
<1>3. mono = time /\ time \in Nat
  BY <1>1, <1>2 DEF PruneFails, Tracks, ClocksOK
<1>4. expires[t] <= deadlines[t] /\ expires[t] \in Nat /\ deadlines[t] \in Nat
  BY <1>2 DEF Tracks, TokensOK, TrackedOK, Tokens
<1>5. ~ (time < expires[t])
  BY <1>2, <1>3, <1>4
<1> QED BY <1>5 DEF Usable

(* A table with one entry more.                                            *)
LEMMA WithAdds ==
  ASSUME NEW f, NEW t, NEW v
  PROVE  /\ DOMAIN With(f, t, v) = DOMAIN f \union {t}
         /\ With(f, t, v)[t] = v
         /\ \A u \in DOMAIN f \ {t} : With(f, t, v)[u] = f[u]
         /\ With(f, t, v) \in [DOMAIN With(f, t, v) -> {f[u] : u \in DOMAIN f} \union {v}]
BY DEF With

(* A table cut down to fewer tokens is still well formed.                  *)
LEMMA TrackedShrinks ==
  ASSUME Tracks, NEW S
  PROVE  /\ Only(issued, S) \in [DOMAIN Only(issued, S) -> ClockValue]
         /\ DOMAIN Only(issued, S) = DOMAIN issued \intersect S
         /\ Only(deadlines, S) \in [DOMAIN Only(deadlines, S) -> Nat]
         /\ DOMAIN Only(deadlines, S) \subseteq Tokens
         /\ \A t \in DOMAIN Only(deadlines, S) : expires[t] <= Only(deadlines, S)[t]
BY DEF Only, Tracks, TrackedOK

(* A minted token is the next one, and leaves those before it as they are. *)
LEMMA MintedIsNext ==
  ASSUME Tracks, Mints, UNCHANGED clocks
  PROVE  /\ TokensOK' <=> (seen' \subseteq Tokens')
         /\ Tokens' = Tokens \union {Next1} /\ Next1 \notin Tokens
         /\ expires'[Next1] = time + Lifetime
         /\ \A t \in Tokens : expires'[t] = expires[t] /\ (Usable(t)' <=> Usable(t))
<1>1. expires \in Seq(Nat) /\ time + Lifetime \in Nat
  BY TokensOutliveTheMargin DEF Tracks, TokensOK, ClocksOK
<1>2. expires' = Append(expires, time + Lifetime) /\ revoked' = revoked /\ time' = time
  BY DEF Mints, clocks
<1>3. expires' \in Seq(Nat) /\ Len(expires') = Len(expires) + 1
  BY <1>1, <1>2
<1>4. Tokens = 1..Len(expires) /\ Tokens' = 1..Len(expires) + 1
  BY <1>1, <1>2, <1>3 DEF Tokens
<1>5. Tokens' = Tokens \union {Next1} /\ Next1 \notin Tokens
  BY <1>1, <1>4 DEF Next1
<1>6. expires'[Next1] = time + Lifetime /\ \A t \in Tokens : expires'[t] = expires[t]
  BY <1>1, <1>2, <1>4 DEF Next1
<1>7. \A t \in Tokens : Usable(t)' <=> Usable(t)
  BY <1>2, <1>5, <1>6 DEF Usable
<1>8. TokensOK' <=> (seen' \subseteq Tokens')
  BY <1>2, <1>3, <1>5 DEF TokensOK, Tracks
<1> QED BY <1>5, <1>6, <1>7, <1>8

(* A mint that is answered tracks its token.                               *)
LEMMA AnsweredTracks ==
  ASSUME Tracks, MintAnswered, UNCHANGED clocks
  PROVE  Tracks'
<1>1. Mints /\ seen' = seen \union {Next1}
  BY DEF MintAnswered
<1>2. /\ TokensOK'
      /\ Tokens' = Tokens \union {Next1} /\ Next1 \notin Tokens
      /\ expires'[Next1] = time + Lifetime
      /\ \A t \in Tokens : expires'[t] = expires[t] /\ (Usable(t)' <=> Usable(t))
  BY <1>1, MintedIsNext DEF Tracks, TokensOK
<1>3. ClocksOK'
  BY DEF Tracks, ClocksOK, clocks
<1> DEFINE i == Only(issued, StillTracked)
           d == Only(deadlines, StillTracked)
<1>4. issued' = With(i, Next1, time + Lifetime)
  BY DEF MintAnswered
<1>5. deadlines' = IF mono = Nothing THEN d ELSE With(d, Next1, mono + Lifetime + Margin)
  BY DEF MintAnswered
<1>6. DOMAIN issued' = (DOMAIN issued \intersect StillTracked) \union {Next1}
  BY <1>4, WithAdds, TrackedShrinks
<1>7. issued' \in [DOMAIN issued' -> ClockValue]
  <2>1. time + Lifetime \in ClockValue
    BY TokensOutliveTheMargin DEF Tracks, ClocksOK, ClockValue
  <2> QED BY <2>1, <1>4, TrackedShrinks DEF With
<1>8. /\ deadlines' \in [DOMAIN deadlines' -> Nat]
      /\ DOMAIN deadlines' \subseteq Tokens'
      /\ \A t \in DOMAIN deadlines' : expires'[t] <= deadlines'[t]
  <2>1. CASE mono = Nothing
    BY <2>1, <1>2, <1>5, TrackedShrinks
  <2>2. CASE mono # Nothing
    <3>1. /\ mono + Lifetime + Margin \in Nat
          /\ time + Lifetime <= mono + Lifetime + Margin
      BY <2>2, TokensOutliveTheMargin DEF Tracks, ClocksOK
    <3>2. deadlines' = With(d, Next1, mono + Lifetime + Margin)
      BY <2>2, <1>5
    <3>3. /\ DOMAIN deadlines' = DOMAIN d \union {Next1}
          /\ deadlines'[Next1] = mono + Lifetime + Margin
          /\ \A u \in DOMAIN d \ {Next1} : deadlines'[u] = d[u]
      BY <3>2 DEF With
    <3>4. /\ d \in [DOMAIN d -> Nat] /\ DOMAIN d \subseteq Tokens
          /\ \A t \in DOMAIN d : expires[t] <= d[t]
      BY TrackedShrinks
    <3>5. deadlines' \in [DOMAIN deadlines' -> Nat]
      BY <3>1, <3>2, <3>4 DEF With
    <3> HIDE DEF d
    <3> QED BY <3>1, <3>3, <3>4, <3>5, <1>2
  <2> QED BY <2>1, <2>2
<1>9. UsableTokensAreTracked'
  BY <1>1, <1>2, <1>6, ForgottenAreDead DEF Tracks, TokensOK, UsableTokensAreTracked
<1> QED BY <1>2, <1>3, <1>6, <1>7, <1>8, <1>9 DEF Tracks, TrackedOK

(* One whose answer is refused is tracked from the moment it is seen.      *)
LEMMA RefusedTracks ==
  ASSUME Tracks, MintRefusedOnSight, UNCHANGED clocks
  PROVE  Tracks'
<1>1. Mints /\ seen' = seen \union {Next1}
  BY DEF MintRefusedOnSight
<1>2. /\ TokensOK'
      /\ Tokens' = Tokens \union {Next1} /\ Next1 \notin Tokens
      /\ \A t \in Tokens : expires'[t] = expires[t] /\ (Usable(t)' <=> Usable(t))
  BY <1>1, MintedIsNext DEF Tracks, TokensOK
<1>3. ClocksOK'
  BY DEF Tracks, ClocksOK, clocks
<1>4. /\ issued' = With(Only(issued, StillTracked), Next1, Nothing)
      /\ deadlines' = Only(deadlines, StillTracked)
  BY DEF MintRefusedOnSight, KeptOnSight
<1>5. DOMAIN issued' = (DOMAIN issued \intersect StillTracked) \union {Next1}
  BY <1>4, TrackedShrinks DEF With
<1>6. issued' \in [DOMAIN issued' -> ClockValue]
  BY <1>4, TrackedShrinks DEF With, ClockValue
<1>7. TrackedOK'
  BY <1>2, <1>4, <1>5, <1>6, TrackedShrinks DEF Tracks, TrackedOK
<1>8. UsableTokensAreTracked'
  BY <1>1, <1>2, <1>5, ForgottenAreDead DEF Tracks, TokensOK, UsableTokensAreTracked
<1> QED BY <1>2, <1>3, <1>7, <1>8 DEF Tracks

(* Pruning alone, or not even that.                                        *)
LEMMA PrunedTracks ==
  ASSUME Tracks, UNCHANGED <<clocks, provider, seen>>, Pruned(issued', deadlines')
  PROVE  Tracks'
<1>1. UNCHANGED <<time, wall, mono, expires, revoked, seen>>
  BY DEF clocks, provider
<1>2. ClocksOK' /\ TokensOK' /\ Tokens' = Tokens /\ \A t : Usable(t)' <=> Usable(t)
  BY <1>1 DEF Tracks, ClocksOK, TokensOK, Tokens, Usable
<1>3. CASE PruneFails
  <2>1. issued' = issued /\ deadlines' = deadlines
    BY <1>3 DEF Pruned
  <2> QED BY <1>1, <1>2, <2>1 DEF Tracks, TrackedOK, UsableTokensAreTracked
<1>4. CASE ~ PruneFails
  <2>1. issued' = Only(issued, StillTracked) /\ deadlines' = Only(deadlines, StillTracked)
    BY <1>4 DEF Pruned
  <2>2. TrackedOK'
    BY <1>1, <1>2, <2>1, TrackedShrinks DEF Tracks, TrackedOK
  <2>3. UsableTokensAreTracked'
    BY <1>1, <1>2, <2>1, TrackedShrinks, ForgottenAreDead DEF Tracks, UsableTokensAreTracked
  <2> QED BY <1>2, <2>2, <2>3 DEF Tracks
<1> QED BY <1>3, <1>4

(* A mint that fails, in whatever way.                                     *)
LEMMA FailedMintTracks ==
  ASSUME Tracks, MintFails, UNCHANGED clocks
  PROVE  Tracks'
<1>1. CASE MintUnseen
  BY <1>1, PrunedTracks DEF MintUnseen
<1>2. CASE MintNotSent
  BY <1>2, PrunedTracks DEF MintNotSent
<1> QED BY <1>1, <1>2, RefusedTracks DEF MintFails

(* A revocation that is confirmed, and no other, drops its token.          *)
LEMMA RevocationTracks ==
  ASSUME Tracks, NEW failed, Revoke(failed), UNCHANGED clocks
  PROVE  Tracks' /\ (failed = FALSE => DOMAIN issued' = {})
                 /\ DOMAIN issued' \subseteq DOMAIN issued
<1>0. PICK died \in SUBSET {t \in StillTracked : Usable(t)} :
        \E confirmed \in SUBSET died :
         /\ revoked' = revoked \union died
         /\ issued' = Only(issued, StillTracked \ confirmed)
         /\ deadlines' = Only(deadlines, StillTracked \ confirmed)
         /\ failed <=> StillTracked # confirmed
  BY DEF Revoke
<1>1. PICK confirmed \in SUBSET died :
         /\ revoked' = revoked \union died
         /\ issued' = Only(issued, StillTracked \ confirmed)
         /\ deadlines' = Only(deadlines, StillTracked \ confirmed)
         /\ failed <=> StillTracked # confirmed
  BY <1>0
<1>2. UNCHANGED <<time, wall, mono, expires, seen>>
  BY DEF Revoke, clocks
<1>3. StillTracked \subseteq DOMAIN issued
  BY DEF StillTracked
<1>4. ClocksOK' /\ TokensOK' /\ Tokens' = Tokens
  BY <1>1, <1>2, <1>3 DEF Tracks, ClocksOK, TokensOK, TrackedOK, Tokens
<1>5. TrackedOK'
  BY <1>1, <1>2, <1>4, TrackedShrinks DEF Tracks, TrackedOK
<1>6. UsableTokensAreTracked'
  <2>1. ASSUME NEW t \in seen, Usable(t)' PROVE t \in DOMAIN issued'
    <3>1. Usable(t) /\ t \notin died
      BY <2>1, <1>1, <1>2 DEF Usable, Tokens
    <3>2. t \in DOMAIN issued /\ t \in StillTracked
      BY <3>1, ForgottenAreDead DEF Tracks, UsableTokensAreTracked
    <3> QED BY <3>1, <3>2, <1>1, TrackedShrinks
  <2> QED BY <2>1, <1>2 DEF UsableTokensAreTracked
<1>7. DOMAIN issued' = DOMAIN issued \intersect (StillTracked \ confirmed)
  BY <1>1, TrackedShrinks
<1> QED BY <1>1, <1>4, <1>5, <1>6, <1>7 DEF Tracks

(* No clock moves a token back to life.                                    *)
LEMMA ClocksTrack ==
  ASSUME Tracks, UNCHANGED <<provider, seen, tracked>>,
         Tick(MaxTime) \/ MonoFails \/ \E to \in Jumped : WallJumps(to)
  PROVE  Tracks'
<1>1. UNCHANGED <<expires, revoked, seen, issued, deadlines>>
  BY DEF provider, tracked
<1>2. ClocksOK' /\ time <= time'
  <2>1. CASE Tick(MaxTime)
    BY <2>1, TokensOutliveTheMargin DEF Tick, Tracks, ClocksOK, ClockValue
  <2>2. CASE MonoFails
    BY <2>2 DEF MonoFails, Tracks, ClocksOK, ClockValue
  <2>3. CASE \E to \in Jumped : WallJumps(to)
    BY <2>3, ClocksMayJump DEF WallJumps, Tracks, ClocksOK, ClockValue
  <2> QED BY <2>1, <2>2, <2>3
<1>3. TokensOK' /\ TrackedOK' /\ Tokens' = Tokens
  BY <1>1 DEF Tracks, TokensOK, TrackedOK, Tokens
<1>4. ASSUME NEW t \in Tokens, Usable(t)' PROVE Usable(t)
  BY <1>1, <1>2, <1>4 DEF Usable, Tracks, ClocksOK, TokensOK, Tokens
<1>5. UsableTokensAreTracked'
  BY <1>1, <1>4 DEF UsableTokensAreTracked, Tracks, TokensOK
<1> QED BY <1>2, <1>3, <1>5 DEF Tracks

(* What each step of a job does to clocks and tokens.                      *)
TokenStep ==
  \/ UNCHANGED clocks /\ (MintAnswered \/ MintFails \/ \E failed \in BOOLEAN : Revoke(failed))
  \/ UNCHANGED <<clocks, provider, seen, tracked>>
  \/ /\ UNCHANGED <<provider, seen, tracked>>
     /\ Tick(MaxTime) \/ MonoFails \/ \E to \in Jumped : WallJumps(to)

(* Every step of a job is one of these.                                    *)
LEMMA EveryStepIsATokenStep == [JobNext]_jobVars => TokenStep
<1> SUFFICES ASSUME [JobNext]_jobVars PROVE TokenStep
  OBVIOUS
<1>1. CASE MintInventory \/ MintData \/ AuthorizeFails \/ CloseFirst \/ Close
  BY <1>1 DEF MintInventory, MintData, AuthorizeFails, CloseFirst, Close, TokenStep
<1>2. CASE Token \/ TokenFails \/ ReadRefused \/ CheckDeleted
  BY <1>2 DEF Token, TokenFails, ReadRefused, CheckDeleted, TokenStep
<1>3. CASE Identify \/ Read \/ ReadFails \/ Report \/ FindNoBranch \/ ProbeWriteFails \/ LateWrite
  BY <1>3 DEF Identify, Read, ReadFails, Report, FindNoBranch, ProbeWriteFails, LateWrite,
              Answered, session, TokenStep
<1>4. CASE Create \/ CommitProbe \/ Delete
  BY <1>4 DEF Create, CommitProbe, Delete, Write, Answered, session, TokenStep
<1>5. CASE CheckHead("created", "commit") \/ CheckHead("committed", "delete")
  BY <1>5 DEF CheckHead, Answered, session, TokenStep
<1>6. CASE ClockMoves
  BY <1>6 DEF ClockMoves, session, TokenStep
<1>7. CASE UNCHANGED jobVars
  BY <1>7 DEF jobVars, session, TokenStep
<1> QED BY <1>1, <1>2, <1>3, <1>4, <1>5, <1>6, <1>7 DEF JobNext, Step

(* No step of a job loses a token that can be used.                        *)
LEMMA TracksKept == Tracks /\ [JobNext]_jobVars => Tracks'
<1> SUFFICES ASSUME Tracks, [JobNext]_jobVars PROVE Tracks'
  OBVIOUS
<1>1. CASE UNCHANGED <<clocks, provider, seen, tracked>>
  BY <1>1 DEF clocks, provider, tracked, Tracks, ClocksOK, TokensOK, TrackedOK, Tokens,
              UsableTokensAreTracked, Usable
<1> QED BY <1>1, EveryStepIsATokenStep, AnsweredTracks, FailedMintTracks, RevocationTracks,
           ClocksTrack DEF TokenStep

(* The token at hand stays one of the provider's until it is cleared.      *)
LEMMA HandedKept ==
  Tracks /\ HandedIsKnown /\ [JobNext]_jobVars => HandedIsKnown'
<1> SUFFICES ASSUME Tracks, HandedIsKnown, [JobNext]_jobVars PROVE HandedIsKnown'
  OBVIOUS
<1>1. ASSUME UNCHANGED <<handed, provider>> PROVE HandedIsKnown'
  BY <1>1 DEF handed, provider, HandedIsKnown, Tokens
<1>2. ASSUME Cleared PROVE HandedIsKnown'
  BY <1>2 DEF Cleared, HandedIsKnown
<1>3. CASE MintData
  <2>1. MintAnswered /\ UNCHANGED clocks /\ Mints
    BY <1>3 DEF MintData, MintAnswered
  <2>2. /\ Tokens' = Tokens \union {Next1} /\ Next1 \notin Tokens
        /\ expires'[Next1] = time + Lifetime /\ revoked' = revoked
    BY <2>1, MintedIsNext DEF Mints
  <2>3. credential' = Next1 /\ expiry' = time + Lifetime
    BY <1>3 DEF MintData
  <2> QED BY <2>2, <2>3 DEF HandedIsKnown, Tracks, TokensOK
<1>4. CASE MintInventory
  <2>1. Mints /\ UNCHANGED clocks /\ UNCHANGED handed
    BY <1>4 DEF MintInventory, MintAnswered
  <2>2. Tokens' = Tokens \union {Next1} /\ \A t \in Tokens : expires'[t] = expires[t]
    BY <2>1, MintedIsNext
  <2> QED BY <2>1, <2>2 DEF HandedIsKnown, Mints, handed
<1>5. CASE AuthorizeFails \/ TokenFails \/ ReadRefused \/ CloseFirst \/ Close
  BY <1>5, <1>2 DEF AuthorizeFails, TokenFails, ReadRefused, Reauthorize, CloseFirst, Close, Revoke
<1>6. CASE Token \/ CheckDeleted
  BY <1>6, <1>1, <1>2 DEF Token, CheckDeleted, Reauthorize
<1>7. CASE Identify \/ Read \/ ReadFails \/ Report \/ FindNoBranch \/ ProbeWriteFails \/ LateWrite
  BY <1>7, <1>1 DEF Identify, Read, ReadFails, Report, FindNoBranch, ProbeWriteFails, LateWrite,
                    Answered, session
<1>8. CASE Create \/ CommitProbe \/ Delete
  BY <1>8, <1>1 DEF Create, CommitProbe, Delete, Write, Answered, session
<1>9. CASE CheckHead("created", "commit") \/ CheckHead("committed", "delete")
  BY <1>9, <1>1 DEF CheckHead, Answered, session
<1>10. CASE ClockMoves \/ UNCHANGED jobVars
  BY <1>10, <1>1 DEF ClockMoves, jobVars, session
<1> QED BY <1>3, <1>4, <1>5, <1>6, <1>7, <1>8, <1>9, <1>10 DEF JobNext, Step

-----------------------------------------------------------------------------
(* The requests of a job, the probe branches and the results.              *)

Places == Tracks /\ FlowOK /\ ProbesAreKnown /\ NothingIsTracked

PlacesNext == FlowOK' /\ ProbesAreKnown' /\ NothingIsTracked'

(* A job starts with nothing.                                              *)
LEMMA InitPlaces == JobInit => JobIInv
<1> SUFFICES ASSUME JobInit PROVE JobIInv
  OBVIOUS
<1>1. Tracks
  BY DEF JobInit, CredentialsInit, Tracks, ClocksOK, TokensOK, TrackedOK, Tokens, ClockValue,
         UsableTokensAreTracked
<1>2. HandedIsKnown
  BY DEF JobInit, CredentialsInit, HandedIsKnown
<1>3. Where = "identify" /\ pc = "inventory" /\ ~ receipt /\ ~ raised
  BY DEF JobInit, Where
<1>4. FlowOK
  <2>1. reads \in 0..MaxReads /\ Branched /\ probed \in Repository
    BY ClocksMayJump DEF JobInit, Repository
  <2>2. /\ checked = FALSE /\ retrying = FALSE /\ transport = FALSE
        /\ raised = FALSE /\ receipt = FALSE
        /\ pc = "inventory" /\ back = "identify" /\ stage \in {"challenge", "verify"}
    BY DEF JobInit
  <2> QED BY <1>3, <2>1, <2>2 DEF FlowOK, Sends
<1>5. Clean
  BY DEF JobInit, Clean
<1>6. ProbesAreKnown
  BY <1>3, <1>5 DEF ProbesAreKnown
<1>7. NothingIsTracked
  BY <1>3 DEF NothingIsTracked
<1> QED BY <1>1, <1>2, <1>4, <1>6, <1>7 DEF JobIInv

(* An exception ends the job with 1 ...                                    *)
LEMMA AbortPlaces ==
  ASSUME Places, pc \notin {"closeFirst", "close", "done"}, Abort,
         transport' \in BOOLEAN, checked' = FALSE, UNCHANGED <<stage, probed>>,
         Branched'
  PROVE  PlacesNext
<1>1. pc' = "close" /\ exit' = 1 /\ ~ receipt' /\ receipt' \in BOOLEAN
  BY DEF Places, Abort, NothingIsTracked, FlowOK
<1>2. Where' = "close"
  BY <1>1 DEF Where
<1>3. FlowOK'
  BY <1>1, <1>2 DEF Places, Abort, FlowOK, Sends
<1>4. ProbesAreKnown'
  BY <1>1, <1>2 DEF ProbesAreKnown
<1>5. NothingIsTracked'
  BY <1>1 DEF NothingIsTracked
<1> QED BY <1>3, <1>4, <1>5 DEF PlacesNext

(* ... or goes through the deletion first.                                 *)
LEMMA RaisePlaces ==
  ASSUME Places, Where \in Guarded, Raise,
         checked' = FALSE, UNCHANGED <<transport, stage, probed>>,
         Branched'
  PROVE  PlacesNext
<1>1. pc' = "delete" /\ raised' = TRUE /\ ~ receipt' /\ receipt' \in BOOLEAN /\ transport /\ stage = "challenge"
  BY DEF Places, Raise, NothingIsTracked, FlowOK, Guarded, Where, ends, Sends
<1>2. Where' = "delete"
  BY <1>1 DEF Where
<1>3. FlowOK'
  BY <1>1, <1>2 DEF Places, Raise, FlowOK, Sends
<1>4. ProbesAreKnown'
  BY <1>1, <1>2 DEF ProbesAreKnown
<1>5. NothingIsTracked'
  BY <1>1 DEF NothingIsTracked
<1> QED BY <1>3, <1>4, <1>5 DEF PlacesNext

(* Steps between requests change nothing a challenge leaves behind; they   *)
(* stay at their request, or go from one to another with no branch around. *)
Stays ==
  /\ pc \in Sends \union {"inventory", "data"}
  /\ pc' \in Sends \union {"inventory", "data"}
  /\ back' \in Sends
  /\ checked' \in BOOLEAN /\ retrying' \in BOOLEAN /\ transport' \in BOOLEAN
  /\ reads' \in 0..MaxReads
  /\ checked' => pc' \in Sends
  /\ ~ transport' => Where' = "identify" /\ pc' # "identify"
  /\ UNCHANGED <<stage, probed, known, branch, late, raised, receipt, exit>>

(* Where the job is before and after a step that stays on its way.         *)
LEMMA StayPlaces ==
  ASSUME Places, Stays, Where' = Where
  PROVE  PlacesNext
<1>1. ~ receipt /\ receipt' = receipt
  BY DEF Places, NothingIsTracked, Stays, Sends
<1>2. FlowOK'
  BY <1>1 DEF Places, FlowOK, Stays
<1>3. ProbesAreKnown'
  BY <1>1 DEF Places, ProbesAreKnown, Stays, Clean, Probing, Sends
<1>4. NothingIsTracked'
  BY <1>1 DEF Stays, NothingIsTracked, Sends
<1> QED BY <1>2, <1>3, <1>4 DEF PlacesNext

(* ... between the check of the repositories and their first requests.     *)
LEMMA MovePlaces ==
  ASSUME Places, Stays,
         Where \in {"identify", "head", "read"}, ~ raised,
         Where' \in {"identify", "head", "create", "read"},
         Where' = "read" => stage = "verify",
         Where' \in {"head", "create"} => stage = "challenge"
  PROVE  PlacesNext
<1>1. ~ receipt /\ receipt' = receipt /\ ~ raised' /\ raised' = raised
  BY DEF Places, NothingIsTracked, Stays, Sends
<1>2. FlowOK'
  BY <1>1 DEF Places, FlowOK, Stays, Sends
<1>3. Clean /\ Clean'
  BY DEF Places, ProbesAreKnown, Stays, Clean
<1>4. ProbesAreKnown'
  BY <1>1, <1>3 DEF Stays, ProbesAreKnown, Sends
<1>5. NothingIsTracked'
  BY <1>1 DEF Stays, NothingIsTracked, Sends
<1> QED BY <1>2, <1>4, <1>5 DEF PlacesNext

(* Authorization and the renewal of tokens come back to their request.     *)
LEMMA AuthorizationPlaces ==
  ASSUME Places, MintInventory \/ MintData \/ AuthorizeFails \/ Token \/ TokenFails \/ ReadRefused
  PROVE  PlacesNext
<1> USE DEF Places
<1>1. CASE MintInventory
  <2>1. Stays /\ Where' = Where
    BY <1>1 DEF MintInventory, Stays, FlowOK, Where, Sends, challenge, ends
  <2> QED BY <2>1, StayPlaces
<1>2. CASE MintData
  <2>1. Stays /\ Where' = Where
    BY <1>2 DEF MintData, Stays, FlowOK, Where, Sends, challenge, ends
  <2> QED BY <2>1, StayPlaces
<1>3. CASE Token
  <2>1. Stays /\ Where' = Where
    BY <1>3 DEF Token, Reauthorize, Stays, FlowOK, Where, Sends, challenge, ends
  <2> QED BY <2>1, StayPlaces
<1>4. CASE ReadRefused
  <2>1. Stays /\ Where' = "identify" /\ Where \in {"head", "read"} /\ ~ raised
    BY <1>4 DEF ReadRefused, Retried, Reauthorize, Stays, FlowOK, ProbesAreKnown, Where, Sends, challenge, ends
  <2> QED BY <2>1, MovePlaces
<1>5. CASE TokenFails
  <2>1. Where = pc /\ pc \in Sends /\ Unwind(Where) /\ checked' = FALSE /\ transport' = transport
        /\ UNCHANGED <<stage, probed, branch>>
    BY <1>5 DEF TokenFails, Where, Sends, FlowOK
  <2>2. CASE Where \in Guarded
    BY <2>1, <2>2, RaisePlaces DEF Unwind, FlowOK
  <2>3. CASE Where \notin Guarded
    BY <2>1, <2>3, AbortPlaces DEF Unwind, FlowOK, Sends
  <2> QED BY <2>2, <2>3
<1>6. CASE AuthorizeFails
  <2>1. Where = back /\ pc \in {"inventory", "data"} /\ checked' = FALSE /\ checked = FALSE
        /\ UNCHANGED <<stage, probed, known, branch, late>>
    BY <1>6 DEF AuthorizeFails, Where, Sends, FlowOK
  <2>2. CASE Unwind(back) /\ UNCHANGED transport
    <3>1. CASE Where \in Guarded
      BY <2>1, <2>2, <3>1, RaisePlaces DEF Unwind, FlowOK
    <3>2. CASE Where \notin Guarded
      BY <2>1, <2>2, <3>2, AbortPlaces DEF Unwind, FlowOK
    <3> QED BY <3>1, <3>2
  <2>3. CASE ~ (Unwind(back) /\ UNCHANGED transport)
    <3>1. Stays /\ Where' = "identify" /\ Where \in {"head", "read"} /\ ~ raised
      BY <1>6, <2>1, <2>3 DEF AuthorizeFails, Retried, Stays, FlowOK, ProbesAreKnown, Where, Sends, ends
    <3> QED BY <3>1, MovePlaces
  <2> QED BY <2>2, <2>3
<1> QED BY <1>1, <1>2, <1>3, <1>4, <1>5, <1>6

(* The reads of the job and of a challenge leave no branch.                *)
LEMMA ReadingPlaces ==
  ASSUME Places, Identify \/ Read \/ ReadFails \/ FindNoBranch \/ ProbeWriteFails
  PROVE  PlacesNext
<1> USE DEF Places
<1>1. Where = pc /\ ~ receipt /\ transport
  BY DEF Where, Identify, Read, ReadFails, FindNoBranch, ProbeWriteFails, NothingIsTracked, FlowOK
<1>2. ASSUME Abort, checked' = FALSE, transport' \in BOOLEAN, UNCHANGED <<stage, probed, branch>>
      PROVE  PlacesNext
  BY <1>2, AbortPlaces DEF Identify, Read, ReadFails, FindNoBranch, ProbeWriteFails, FlowOK
<1>3. CASE Identify
  <2>1. CASE Abort
    BY <1>2, <1>3, <2>1 DEF Identify, Answered, FlowOK
  <2>2. CASE ~ Abort
    <3>1. Stays /\ Where' = IF stage = "challenge" THEN "head" ELSE "read"
      BY <1>1, <1>3, <2>2 DEF Identify, Answered, Stays, Where, FlowOK, Sends, ends
    <3>2. Where = "identify" /\ ~ raised
      BY <1>1, <1>3 DEF Identify, ProbesAreKnown, FlowOK
    <3> QED BY <3>1, <3>2, MovePlaces DEF FlowOK
  <2> QED BY <2>1, <2>2
<1>4. CASE Read
  <2>1. reads' \in 0..MaxReads
    BY <1>4, ClocksMayJump DEF Read, FlowOK
  <2>2. /\ pc = "read" /\ pc' = "read" /\ back' = back /\ checked' = FALSE /\ retrying' = FALSE
        /\ UNCHANGED <<transport, stage, probed, known, branch, late, raised, receipt, exit>>
    BY <1>4 DEF Read, Answered, challenge, ends
  <2>3. Stays /\ Where' = Where
    BY <1>1, <2>1, <2>2 DEF Stays, Where, FlowOK, Sends
  <2> QED BY <2>3, StayPlaces
<1>5. CASE ReadFails
  BY <1>2, <1>5 DEF ReadFails, Answered, FlowOK
<1>6. CASE FindNoBranch
  <2>1. CASE Abort
    BY <1>2, <1>6, <2>1 DEF FindNoBranch, Answered, FlowOK
  <2>2. CASE ~ Abort
    <3>1. Stays /\ Where' = "create" /\ Where = "head"
      BY <1>1, <1>6, <2>2 DEF FindNoBranch, Answered, Stays, Where, FlowOK, Sends, ends
    <3>2. ~ raised /\ stage = "challenge"
      BY <3>1 DEF ProbesAreKnown, FlowOK, Sends
    <3> QED BY <3>1, <3>2, MovePlaces
  <2> QED BY <2>1, <2>2
<1>7. CASE ProbeWriteFails
  BY <1>2, <1>7 DEF ProbeWriteFails, Answered, FlowOK
<1> QED BY <1>3, <1>4, <1>5, <1>6, <1>7

(* A probe's write that is confirmed leaves its branch at the new head, and *)
(* nothing to come.                                                        *)
LEMMA ConfirmedWrite ==
  ASSUME Places, NEW before, NEW after, before # after,
         Probing(before) \/ (before = "absent" /\ Clean), Write(before, after, TRUE)
  PROVE  late' = {} /\ \A r \in Repository : branch'[r] = IF r = probed THEN after ELSE "absent"
<1>1. branch[probed] = before /\ probed \in Repository /\ Branched /\ late = {}
  BY DEF Probing, Clean, Places, FlowOK, Repository
<1>2. branch' = [branch EXCEPT ![probed] = after] /\ UNCHANGED late
  BY <1>1 DEF Write
<1> QED BY <1>1, <1>2 DEF Probing, Clean

(* A write leaves at most one probe branch for each repository.            *)
LEMMA WritesAreTyped ==
  ASSUME Places, NEW before, NEW after, NEW ok, Write(before, after, ok)
  PROVE  Branched' /\ checked' = FALSE
BY DEF Places, FlowOK, Write, Answered

(* The next request of a challenge, with what it leaves.                   *)
LEMMA ChallengePlaces ==
  ASSUME Places, Where = pc, pc \in Sends, ~ receipt, transport, stage = "challenge",
         pc' \in Sends \ {"identify", "read"}, checked' = FALSE, Quietly,
         UNCHANGED <<transport, stage, probed>>,
         Branched',
         raised => pc' \in {"delete", "deleted"},
         ~ raised => /\ pc' \in {"head", "create", "deleted"} => Clean'
                     /\ pc' \in {"created", "commit"} => Probing("parent")'
                     /\ pc' \in {"committed", "delete"} => Probing("commit")'
  PROVE  PlacesNext
<1>1. Where' = pc' /\ ~ receipt' /\ raised' = raised
  BY DEF Where, Sends, Quietly, ends
<1>2. FlowOK'
  BY <1>1 DEF Places, FlowOK, Sends, Quietly, ends
<1>3. ProbesAreKnown'
  BY <1>1 DEF ProbesAreKnown, Sends
<1>4. NothingIsTracked'
  BY <1>1 DEF NothingIsTracked, Sends
<1> QED BY <1>2, <1>3, <1>4 DEF PlacesNext

(* The writes of a challenge leave the head it then expects.               *)
LEMMA WritingPlaces ==
  ASSUME Places, Create \/ CommitProbe \/ Delete
  PROVE  PlacesNext
<1>1. Where = pc /\ pc \in Sends /\ ~ receipt /\ transport /\ stage = "challenge"
  BY DEF Where, Create, CommitProbe, Delete, Places, NothingIsTracked, FlowOK, Sends
<1>2. CASE Create
  <2>1. ~ raised /\ Clean
    BY <1>1, <1>2 DEF Create, Places, ProbesAreKnown
  <2>2. PICK ok \in BOOLEAN :
          /\ Write("absent", "parent", ok)
          /\ IF ok THEN pc' = "created" /\ Quietly ELSE Abort
    BY <1>2 DEF Create
  <2>3. Branched' /\ checked' = FALSE
    BY <2>2, WritesAreTyped
  <2>4. CASE ok
    <3>1. Probing("parent")'
      BY <1>2, <2>1, <2>2, <2>4, ConfirmedWrite DEF Create, Probing
    <3> QED BY <1>1, <1>2, <2>1, <2>2, <2>3, <2>4, <3>1, ChallengePlaces DEF Create, Sends
  <2>5. CASE ~ ok
    BY <1>1, <1>2, <2>2, <2>3, <2>5, AbortPlaces DEF Create, Places, FlowOK
  <2> QED BY <2>4, <2>5
<1>3. CASE CommitProbe
  <2>1. ~ raised /\ Probing("parent")
    BY <1>1, <1>3 DEF CommitProbe, Places, ProbesAreKnown
  <2>2. PICK ok \in BOOLEAN :
          /\ Write("parent", "commit", ok)
          /\ IF ok THEN pc' = "committed" /\ known' = "commit" /\ Quietly
             ELSE Raise /\ UNCHANGED known
    BY <1>3 DEF CommitProbe
  <2>3. Branched' /\ checked' = FALSE
    BY <2>2, WritesAreTyped
  <2>4. CASE ok
    <3>1. Probing("commit")'
      BY <1>3, <2>1, <2>2, <2>4, ConfirmedWrite DEF CommitProbe, Probing
    <3> QED BY <1>1, <1>3, <2>1, <2>2, <2>3, <2>4, <3>1, ChallengePlaces DEF CommitProbe, Sends
  <2>5. CASE ~ ok
    BY <1>1, <1>3, <2>2, <2>3, <2>5, RaisePlaces DEF CommitProbe, Guarded
  <2> QED BY <2>4, <2>5
<1>4. CASE Delete
  <2>1. ~ raised => Probing("commit")
    BY <1>1, <1>4 DEF Delete, Places, ProbesAreKnown
  <2>2. PICK ok \in BOOLEAN :
          /\ Write(known, "absent", ok)
          /\ IF ok THEN pc' = "deleted" /\ Quietly ELSE Abort
    BY <1>4 DEF Delete
  <2>3. Branched' /\ checked' = FALSE
    BY <2>2, WritesAreTyped
  <2>4. CASE ok
    <3>1. ~ raised => Clean'
      <4>1. ASSUME ~ raised PROVE Clean'
        <5>1. Write("commit", "absent", TRUE) /\ Probing("commit") /\ UNCHANGED probed
          BY <1>4, <2>1, <2>2, <2>4, <4>1 DEF Probing, Delete
        <5> QED BY <5>1, ConfirmedWrite DEF Clean
      <4> QED BY <4>1
    <3> QED BY <1>1, <1>4, <2>1, <2>2, <2>3, <2>4, <3>1, ChallengePlaces DEF Delete, Sends
  <2>5. CASE ~ ok
    BY <1>1, <1>4, <2>2, <2>3, <2>5, AbortPlaces DEF Delete, Places, FlowOK
  <2> QED BY <2>4, <2>5
<1> QED BY <1>2, <1>3, <1>4

(* What a challenge reads back, up to the end of its repository.           *)
LEMMA CheckingPlaces ==
  ASSUME Places, CheckHead("created", "commit") \/ CheckHead("committed", "delete") \/ CheckDeleted
  PROVE  PlacesNext
<1>1. Where = pc /\ pc \in Sends /\ ~ receipt /\ transport /\ stage = "challenge"
  BY DEF Where, CheckHead, CheckDeleted, Places, NothingIsTracked, FlowOK, Sends
<1>2. CASE CheckHead("created", "commit") \/ CheckHead("committed", "delete")
  <2>1. /\ checked' = FALSE /\ UNCHANGED <<transport, stage, probed, known, branch, late>>
        /\ \/ pc = "created" /\ (Raise \/ (pc' = "commit" /\ Quietly))
           \/ pc = "committed" /\ (Raise \/ (pc' = "delete" /\ Quietly))
    BY <1>2 DEF CheckHead, Answered
  <2>2. Branched'
    BY <2>1 DEF Places, FlowOK
  <2>3. CASE Raise
    BY <1>1, <2>1, <2>2, <2>3, RaisePlaces DEF Guarded
  <2>4. CASE ~ Raise
    <3>1. Quietly /\ ~ raised
      BY <1>1, <2>1, <2>4 DEF Places, ProbesAreKnown
    <3>2. /\ pc = "created" => Probing("parent")'
          /\ pc = "committed" => Probing("commit")'
      BY <1>1, <2>1, <3>1 DEF Places, ProbesAreKnown, Probing
    <3> QED BY <1>1, <2>1, <2>2, <2>4, <3>1, <3>2, ChallengePlaces DEF Sends
  <2> QED BY <2>3, <2>4
<1>3. CASE CheckDeleted
  <2>1. ~ raised /\ Clean /\ checked' = FALSE /\ pc = "deleted" /\ Clean'
        /\ UNCHANGED <<raised, receipt, exit, reads, retrying, branch>>
    BY <1>1, <1>3 DEF CheckDeleted, Places, ProbesAreKnown, Clean, ends
  <2>2. CASE probed = "records"
    <3>1. /\ pc' = "head" /\ Where' = "head" /\ probed' = "coverage"
          /\ UNCHANGED <<back, transport, stage>>
      BY <1>3, <2>2 DEF CheckDeleted, Where
    <3>2. FlowOK'
      BY <1>1, <2>1, <3>1 DEF Places, FlowOK, Repository, Sends
    <3> QED BY <1>1, <2>1, <3>1, <3>2 DEF PlacesNext, ProbesAreKnown, NothingIsTracked
  <2>3. CASE probed # "records"
    <3>1. /\ pc' = "inventory" /\ back' = "identify" /\ Where' = "identify"
          /\ transport' = FALSE /\ stage' = "verify" /\ probed' = probed
      BY <1>3, <2>3 DEF CheckDeleted, Reauthorize, Where
    <3>2. FlowOK'
      BY <1>1, <2>1, <3>1 DEF Places, FlowOK, Repository, Sends
    <3> QED BY <1>1, <2>1, <3>1, <3>2 DEF PlacesNext, ProbesAreKnown, NothingIsTracked
  <2> QED BY <2>2, <2>3
<1> QED BY <1>2, <1>3

(* The way out: a result of 0 is only given with no branch and no token.   *)
LEMMA EndingPlaces ==
  ASSUME Places, Report \/ CloseFirst \/ Close, UNCHANGED clocks
  PROVE  PlacesNext
<1> USE DEF Places
<1>1. CASE Report
  <2>1. /\ Where = "read" /\ ~ receipt /\ ~ raised /\ Clean /\ stage = "verify" /\ ~ checked
        /\ pc' \in {"closeFirst", "close"}
        /\ UNCHANGED <<back, checked, retrying, transport, reads, stage, probed, known, branch, late,
                       raised, receipt>>
    BY <1>1 DEF Report, Where, FlowOK, ProbesAreKnown, NothingIsTracked, Sends, flow, challenge
  <2>2. Where' = pc' /\ Clean' /\ transport
    BY <1>1, <2>1 DEF Where, Clean, FlowOK, Report
  <2>3. FlowOK'
    BY <2>1, <2>2 DEF FlowOK, Sends
  <2>4. ProbesAreKnown' /\ NothingIsTracked'
    BY <2>1, <2>2 DEF ProbesAreKnown, NothingIsTracked
  <2> QED BY <2>3, <2>4 DEF PlacesNext
<1>2. CASE CloseFirst
  <2>1. PICK failed \in BOOLEAN :
          /\ Revoke(failed)
          /\ receipt' = ~ failed
          /\ exit' = IF failed THEN 1 ELSE 0
    BY <1>2 DEF CloseFirst
  <2>2. /\ Where = "closeFirst" /\ ~ raised /\ Clean /\ pc' = "close" /\ Where' = "close"
        /\ ~ checked /\ receipt' \in BOOLEAN
        /\ UNCHANGED <<back, checked, retrying, transport, reads, stage, probed, known, branch, late, raised>>
    BY <1>2, <2>1 DEF CloseFirst, Where, FlowOK, ProbesAreKnown, Sends, flow, challenge
  <2>3. Clean'
    BY <2>2 DEF Clean
  <2>4. FlowOK'
    BY <2>2 DEF FlowOK, Sends
  <2>5. receipt' => DOMAIN issued' = {}
    BY <2>1, RevocationTracks
  <2> QED BY <2>2, <2>3, <2>4, <2>5 DEF PlacesNext, ProbesAreKnown, NothingIsTracked
<1>3. CASE Close
  <2>1. PICK failed \in BOOLEAN : Revoke(failed) /\ exit' = IF failed THEN 1 ELSE exit
    BY <1>3 DEF Close, ExitAfter, ResultAfter
  <2>2. /\ pc = "close" /\ Where = "close" /\ pc' = "done" /\ Where' = "done" /\ ~ checked
        /\ UNCHANGED <<back, checked, retrying, transport, reads, stage, probed, known, branch, late,
                       raised, receipt>>
    BY <1>3 DEF Close, Where, FlowOK, Sends, flow, challenge
  <2>3. Clean' <=> Clean
    BY <2>2 DEF Clean
  <2>4. FlowOK'
    BY <2>2 DEF FlowOK, Sends
  <2>5. /\ failed = FALSE => DOMAIN issued' = {}
        /\ DOMAIN issued' \subseteq DOMAIN issued
    BY <2>1, RevocationTracks
  <2>6. exit' = 0 => exit = 0 /\ DOMAIN issued' = {}
    BY <2>1, <2>5
  <2>7. receipt' => DOMAIN issued' = {}
    BY <2>2, <2>5 DEF NothingIsTracked
  <2>8. ProbesAreKnown'
    BY <2>1, <2>2, <2>3, <2>6 DEF ProbesAreKnown
  <2> QED BY <2>2, <2>4, <2>6, <2>7, <2>8 DEF PlacesNext, NothingIsTracked
<1> QED BY <1>1, <1>2, <1>3

(* A write that is applied late finds the head it was conditioned on only  *)
(* after the challenge has failed; the clocks touch none of this.          *)
LEMMA AroundPlaces ==
  ASSUME Places, LateWrite \/ ClockMoves \/ UNCHANGED jobVars
  PROVE  PlacesNext
<1> USE DEF Places
<1>1. CASE LateWrite
  <2>1. PICK w \in late :
          /\ late' = late \ {w}
          /\ branch' = IF branch[w[1]] = w[2] THEN [branch EXCEPT ![w[1]] = w[3]] ELSE branch
    BY <1>1 DEF LateWrite
  <2>2. UNCHANGED <<issued, back, checked, retrying, transport, reads, pc, stage, probed, known, raised,
                    receipt, exit>>
    BY <1>1 DEF LateWrite, session, tracked, flow, ends
  <2>3. ~ Clean /\ ~ Probing("parent") /\ ~ Probing("commit")
    BY <2>1 DEF Clean, Probing
  <2>4. Branched' /\ Where' = Where
    BY <2>1, <2>2 DEF FlowOK, Where
  <2>5. FlowOK'
    BY <2>2, <2>4 DEF FlowOK
  <2>6. raised \/ Where \in {"close", "done"}
    BY <2>3 DEF ProbesAreKnown, FlowOK, Where, Sends
  <2>7. ProbesAreKnown'
    BY <2>2, <2>3, <2>4, <2>6 DEF ProbesAreKnown
  <2>8. NothingIsTracked'
    BY <2>2 DEF NothingIsTracked
  <2> QED BY <2>5, <2>7, <2>8 DEF PlacesNext
<1>2. CASE ClockMoves \/ UNCHANGED jobVars
  <2>1. UNCHANGED <<session, flow, pc, challenge, late, ends>>
    BY <1>2 DEF ClockMoves, jobVars
  <2>2. UNCHANGED <<issued, back, checked, retrying, transport, reads, pc, stage, probed, known, raised,
                    receipt, exit, branch, late>>
    BY <2>1 DEF session, tracked, flow, challenge, ends
  <2>3. FlowOK'
    BY <2>2 DEF FlowOK, Where
  <2>4. ProbesAreKnown' /\ NothingIsTracked'
    BY <2>2 DEF ProbesAreKnown, NothingIsTracked, Where, Clean, Probing
  <2> QED BY <2>3, <2>4 DEF PlacesNext
<1> QED BY <1>1, <1>2

(* The invariant is inductive.                                             *)
LEMMA JobKept == JobIInv /\ [JobNext]_jobVars => JobIInv'
<1> SUFFICES ASSUME JobIInv, [JobNext]_jobVars PROVE JobIInv'
  OBVIOUS
<1>1. Places
  BY DEF JobIInv, Places
<1>2. Tracks' /\ HandedIsKnown'
  BY TracksKept, HandedKept DEF JobIInv
<1>3. ASSUME CloseFirst \/ Close \/ Report PROVE PlacesNext
  BY <1>1, <1>3, EndingPlaces DEF CloseFirst, Close, Report
<1>4. PlacesNext
  BY <1>1, <1>3, AuthorizationPlaces, ReadingPlaces, WritingPlaces, CheckingPlaces, AroundPlaces
     DEF JobNext, Step
<1> QED BY <1>2, <1>4 DEF JobIInv, PlacesNext

-----------------------------------------------------------------------------
(* _prune_issued, _mint and close: whatever the clocks of the job do, it   *)
(* still knows every token it was told of that can be used.                *)
THEOREM TokensStayTracked == JobSpec => []UsableTokensAreTracked
<1>1. JobIInv => UsableTokensAreTracked
  BY DEF JobIInv, Tracks
<1> QED BY <1>1, InitPlaces, JobKept, PTL DEF JobSpec

(* control_job: a job that reports success, or has printed its receipt,    *)
(* has left no usable token and no probe branch, nor a write under way     *)
(* that could bring one back.                                              *)
THEOREM NothingIsLeft == JobSpec => []SuccessLeavesNothing
<1>1. JobIInv => SuccessLeavesNothing
  BY DEF JobIInv, Tracks, UsableTokensAreTracked, NothingIsTracked, ProbesAreKnown, Clean,
         SuccessLeavesNothing
<1> QED BY <1>1, InitPlaces, JobKept, PTL DEF JobSpec

(* A request gets its token from token() or, where one was just minted for *)
(* it, from authorize().                                                   *)
LEMMA OnlyTokenHands ==
  ASSUME FlowOK, [JobNext]_jobVars, ~ checked, checked'
  PROVE  Token \/ MintData
<1>1. ~ (Identify \/ Read \/ ReadFails \/ FindNoBranch \/ ProbeWriteFails \/ ReadRefused \/ CheckDeleted)
  BY DEF Identify, Read, ReadFails, FindNoBranch, ProbeWriteFails, ReadRefused, CheckDeleted
<1>2. ~ (Create \/ CommitProbe \/ Delete \/ CheckHead("created", "commit") \/ CheckHead("committed", "delete"))
  BY DEF Create, CommitProbe, Delete, CheckHead
<1>3. ~ (MintInventory \/ AuthorizeFails \/ TokenFails \/ Report \/ CloseFirst \/ Close \/ LateWrite)
  BY DEF MintInventory, AuthorizeFails, TokenFails, Report, CloseFirst, Close, LateWrite, flow
<1>4. ~ ClockMoves /\ ~ UNCHANGED jobVars
  BY DEF ClockMoves, jobVars, flow
<1> QED BY <1>1, <1>2, <1>3, <1>4 DEF JobNext, Step

(* The token it gets outlives the margin, by a wall clock that is right.   *)
LEMMA HandedLives ==
  ASSUME JobIInv, [JobNext]_jobVars, ~ checked, checked', wall' = time'
  PROVE  /\ credential' \in Tokens' /\ credential' \notin revoked'
         /\ time' + Margin < expires'[credential']
<1>1. time \in Nat /\ expires \in Seq(Nat) /\ Margin \in Nat /\ Lifetime \in Nat
  BY TokensOutliveTheMargin DEF JobIInv, Tracks, ClocksOK, TokensOK
<1>2. CASE Token
  <2>1. bound /\ ~ RefreshDue /\ UNCHANGED <<handed, clocks, provider>>
    BY <1>2 DEF Token
  <2>2. /\ credential \in Tokens \ revoked /\ expiry = expires[credential]
        /\ ~ (time + Margin >= expiry)
        /\ UNCHANGED <<time, expires, revoked, credential>>
    BY <2>1 DEF JobIInv, HandedIsKnown, RefreshDue, DueBeforeExpiry, handed, clocks, provider
  <2>3. expires[credential] \in Nat
    BY <1>1, <2>2 DEF Tokens
  <2> QED BY <1>1, <2>2, <2>3 DEF Tokens
<1>3. CASE MintData
  <2>1. /\ MintAnswered /\ Mints /\ ExpiryIsSane(time + Lifetime) /\ credential' = Next1
        /\ UNCHANGED clocks
    BY <1>3 DEF MintData, MintAnswered
  <2>2. /\ Tokens' = Tokens \union {Next1} /\ Next1 \notin Tokens
        /\ expires'[Next1] = time + Lifetime
    BY <2>1, MintedIsNext DEF JobIInv
  <2>3. Next1 \notin revoked'
    BY <2>1, <2>2 DEF Mints, JobIInv, Tracks, TokensOK
  <2>4. time + Margin < time + Lifetime /\ time' = time
    BY <1>1, TokensOutliveTheMargin, <2>1 DEF clocks
  <2> QED BY <2>1, <2>2, <2>3, <2>4
<1> QED BY <1>2, <1>3, OnlyTokenHands DEF JobIInv

(* token(): by an honest wall clock, no request goes out with a token that *)
(* dies within the margin.                                                 *)
THEOREM HandedOutAlive == JobSpec => HandedTokensLive
<1>1. JobIInv /\ [JobNext]_jobVars =>
        [~ checked /\ checked' /\ wall' = time' =>
           /\ credential' \in Tokens' /\ credential' \notin revoked'
           /\ time' + Margin < expires'[credential']]_jobVars
  BY HandedLives
<1> QED BY <1>1, InitPlaces, JobKept, PTL DEF JobSpec, HandedTokensLive
-----------------------------------------------------------------------------
(* The end of a job.  Every step but a clock's leaves a smaller rest.       *)

AtWork == pc \in Sends \union {"inventory", "data"}

Rounds == Ahead + Budget

(* The parts of the rest, request by request. *)
Parts ==
  FlowOK /\ AtWork =>
    /\ Where \in Sends
    /\ ~ transport => Place = 10
    /\ transport /\ Where = "deleted" => Place = 1
    /\ transport /\ Where = "delete" => Place = 2
    /\ transport /\ Where = "committed" => Place = 3
    /\ transport /\ Where = "commit" => Place = 4
    /\ transport /\ Where = "created" => Place = 5
    /\ transport /\ Where = "create" => Place = 6
    /\ transport /\ Where = "head" => Place = 7
    /\ transport /\ Where = "read" => Place = 8
    /\ transport /\ Where = "identify" => Place = 9
    /\ Place \in 1..10
    /\ pc = "inventory" => Within = 3
    /\ pc = "data" => Within = 2
    /\ pc \in Sends /\ checked => Within = 1
    /\ pc \in Sends /\ ~ checked => Within = 4
    /\ Within \in 1..4
    /\ Ahead \in Nat /\ Budget \in Nat /\ Rounds \in Nat /\ Budget < Turn /\ Turn \in Nat
    /\ Remaining = 100 * Rounds + 5 * Place + Within

(* A rest is made of rounds, requests and the steps of one request.        *)
LEMMA PartsNow == Parts
<1> SUFFICES ASSUME FlowOK, AtWork PROVE Parts
  BY DEF Parts
<1>1. Where \in Sends
  BY DEF FlowOK, AtWork, Where
<1>2. /\ pc = "inventory" => Within = 3
      /\ pc = "data" => Within = 2
      /\ pc \in Sends /\ checked => Within = 1
      /\ pc \in Sends /\ ~ checked => Within = 4
      /\ Within \in 1..4
  BY DEF Within, Sends
<1>3. Ahead \in Nat /\ Budget \in Nat /\ Rounds \in Nat /\ Budget < Turn /\ Turn \in Nat
  <2>1. MaxReads \in Nat /\ reads \in Nat /\ reads <= MaxReads
    BY ClocksMayJump DEF FlowOK
  <2>2. Turn \in Nat /\ Turn = 2 * MaxReads + 3
    BY <2>1 DEF Turn
  <2>3. Ahead \in Nat
    BY <2>2 DEF Ahead
  <2>4. Budget \in Nat /\ Budget < Turn
    BY <2>1, <2>2 DEF Budget
  <2> QED BY <2>2, <2>3, <2>4 DEF Rounds
<1>4. Remaining = 100 * Rounds + 5 * Place + Within
  BY DEF AtWork, Sends, Remaining, Rounds
<1>5. Place \in 1..10
  BY <1>1 DEF Place, Sends
<1> QED BY <1>1, <1>2, <1>3, <1>4, <1>5 DEF Parts, Place

(* So it is after a step.                                                  *)
LEMMA PartsNext == Parts'
BY PartsNow, PTL

(* Fewer rounds count most, then fewer requests, then the token.           *)
LEMMA RestShrinks ==
  ASSUME FlowOK, AtWork, FlowOK', AtWork',
         \/ Rounds' < Rounds
         \/ Rounds' = Rounds /\ Place' < Place
         \/ Rounds' = Rounds /\ Place' = Place /\ Within' < Within
  PROVE  Remaining' < Remaining
<1>1. /\ Remaining = 100 * Rounds + 5 * Place + Within
      /\ Place \in 1..10 /\ Within \in 1..4 /\ Rounds \in Nat
  BY PartsNow DEF Parts
<1>2. /\ Remaining' = 100 * Rounds' + 5 * Place' + Within'
      /\ Place' \in 1..10 /\ Within' \in 1..4 /\ Rounds' \in Nat
  BY PartsNext DEF Parts
<1>3. PICK r \in Nat, p \in 1..10, w \in 1..4 : r = Rounds /\ p = Place /\ w = Within
  BY <1>1
<1>4. PICK s \in Nat, q \in 1..10, v \in 1..4 : s = Rounds' /\ q = Place' /\ v = Within'
  BY <1>2
<1>5. s < r \/ (s = r /\ q < p) \/ (s = r /\ q = p /\ v < w)
  BY <1>3, <1>4
<1>6. 100 * s + 5 * q + v < 100 * r + 5 * p + w
  BY <1>5
<1>7. Remaining = 100 * r + 5 * p + w
  BY <1>1, <1>3
<1>8. Remaining' = 100 * s + 5 * q + v
  BY <1>2, <1>4
<1> QED BY <1>6, <1>7, <1>8

(* The way out is nearer than anything.                                    *)
LEMMA OutShrinks ==
  ASSUME FlowOK, AtWork, pc' \in {"closeFirst", "close", "done"}
  PROVE  Remaining' < Remaining
<1>1. Remaining' \in {0, 1, 2}
  BY DEF Remaining
<1>2. Rounds \in Nat /\ Place \in 1..10 /\ Within \in 1..4
      /\ Remaining = 100 * Rounds + 5 * Place + Within
  BY PartsNow DEF Parts
<1> QED BY <1>1, <1>2

(* A read refused comes back to its place once, for one retry less.        *)
LEMMA RetryShrinks ==
  ASSUME FlowOK, FlowOK', AtWork, AtWork', Where \in {"head", "read"}, Where' = "identify",
         retrying = FALSE, retrying' = TRUE, UNCHANGED <<reads, stage, probed>>
  PROVE  Remaining' < Remaining
<1>1. MaxReads \in Nat /\ reads \in Nat /\ reads <= MaxReads
  BY ClocksMayJump DEF FlowOK
<1>2. Budget = 2 * (MaxReads - reads) + 2 /\ Budget' = 2 * (MaxReads - reads) + 1
  BY <1>1 DEF Budget
<1>3. Ahead' = Ahead /\ Ahead \in Nat
  BY PartsNow DEF Parts, Ahead
<1>4. Rounds' < Rounds
  BY <1>1, <1>2, <1>3 DEF Rounds
<1> QED BY <1>4, RestShrinks

(* An exception leads out, or to the deletion of the branch.               *)
LEMMA UnwindShrinks ==
  ASSUME FlowOK, FlowOK', AtWork, Unwind(Where), Where \in Sends,
         UNCHANGED <<transport, stage, probed>>
  PROVE  Remaining' < Remaining
<1>1. CASE Where \notin Guarded
  BY <1>1, OutShrinks DEF Unwind, Abort
<1>2. CASE Where \in Guarded
  <2>1. pc' = "delete" /\ Where' = "delete" /\ AtWork' /\ transport /\ transport' = transport
    BY <1>2 DEF Unwind, Raise, Where, AtWork, Sends, Guarded, FlowOK
  <2>2. Place' = 2 /\ Place > 2
    BY <1>2, <2>1, PartsNow, PartsNext DEF Guarded, Parts
  <2>3. Rounds' = Rounds
    BY <1>2, <2>1 DEF Rounds, Ahead, Budget, Guarded
  <2> QED BY <2>1, <2>2, <2>3, RestShrinks
<1> QED BY <1>1, <1>2

(* Authorization: one request on, or back to the check of the repositories *)
(* with a retry less.                                                      *)
LEMMA AuthorizationShrinks ==
  ASSUME FlowOK, FlowOK', raised \in BOOLEAN,
         MintInventory \/ MintData \/ AuthorizeFails \/ Token \/ TokenFails \/ ReadRefused
  PROVE  Remaining' < Remaining
<1>1. CASE MintInventory
  <2>1. /\ pc = "inventory" /\ pc' = "data"
        /\ UNCHANGED <<back, checked, retrying, transport, reads, stage, probed>>
    BY <1>1 DEF MintInventory, challenge
  <2>2. Where' = Where /\ AtWork /\ AtWork'
    BY <2>1 DEF Where, AtWork
  <2>3. Rounds' = Rounds /\ Place' = Place
    BY <2>1, <2>2 DEF Rounds, Ahead, Budget, Place
  <2>4. Within = 3 /\ Within' = 2
    BY <2>1, <2>2, PartsNow, PartsNext DEF Parts, Sends
  <2> QED BY <2>2, <2>3, <2>4, RestShrinks
<1>2. CASE MintData
  <2>1. /\ pc = "data" /\ pc' = back /\ transport' = TRUE /\ checked' = transport
        /\ UNCHANGED <<back, retrying, reads, stage, probed>>
    BY <1>2 DEF MintData, challenge
  <2>2. Where' = Where /\ AtWork /\ AtWork' /\ Where = back
    BY <2>1 DEF Where, AtWork, FlowOK
  <2>3. Rounds' = Rounds
    BY <2>1, <2>2 DEF Rounds, Ahead, Budget
  <2>4. CASE transport
    <3>1. Place' = Place
      BY <2>1, <2>2, <2>4 DEF Place
    <3>2. Within = 2 /\ Within' = 1
      BY <2>1, <2>2, <2>4, PartsNow, PartsNext DEF Parts, FlowOK
    <3> QED BY <2>2, <2>3, <3>1, <3>2, RestShrinks
  <2>5. CASE ~ transport
    <3>1. Where = "identify"
      BY <2>1, <2>2, <2>5 DEF FlowOK, Sends
    <3>2. Place = 10 /\ Place' = 9
      BY <2>1, <2>2, <2>5, <3>1, PartsNow, PartsNext DEF Parts, Sends
    <3> QED BY <2>2, <2>3, <3>2, RestShrinks
  <2> QED BY <2>4, <2>5 DEF FlowOK
<1>3. CASE Token
  <2>1. /\ pc \in Sends /\ ~ checked /\ Where = pc /\ AtWork
        /\ UNCHANGED <<retrying, transport, reads, stage, probed>>
    BY <1>3 DEF Token, challenge, Where, Sends, AtWork
  <2>2. \/ checked' = TRUE /\ UNCHANGED <<pc, back>>
        \/ pc' = "inventory" /\ back' = pc
    BY <1>3 DEF Token, Reauthorize
  <2>3. Where' = Where /\ AtWork'
    BY <2>1, <2>2 DEF Where, AtWork, Sends
  <2>4. Rounds' = Rounds /\ Place' = Place
    BY <2>1, <2>3 DEF Rounds, Ahead, Budget, Place
  <2>5. Within = 4 /\ Within' \in {1, 3}
    BY <2>1, <2>2, <2>3, PartsNow, PartsNext DEF Parts, Sends
  <2> QED BY <2>1, <2>3, <2>4, <2>5, RestShrinks
<1>4. CASE ReadRefused
  <2>1. /\ Where \in {"head", "read"} /\ Where' = "identify" /\ AtWork /\ AtWork'
        /\ retrying = FALSE /\ retrying' = TRUE /\ UNCHANGED <<reads, stage, probed>>
    BY <1>4 DEF ReadRefused, MayRetry, RetriesOnce, Retried, Reauthorize, Where, AtWork, Sends,
                challenge, FlowOK
  <2> QED BY <2>1, RetryShrinks
<1>5. CASE TokenFails
  <2>1. AtWork /\ pc = Where /\ pc \in Sends /\ Unwind(pc) /\ UNCHANGED <<checked, transport, stage, probed>>
    BY <1>5 DEF TokenFails, AtWork, Where, Sends
  <2> QED BY <2>1, UnwindShrinks
<1>6. CASE AuthorizeFails
  <2>1. AtWork /\ Where = back /\ pc \in {"inventory", "data"} /\ UNCHANGED <<checked, stage, probed>>
    BY <1>6 DEF AuthorizeFails, AtWork, Where
  <2>2. CASE Unwind(back) /\ UNCHANGED transport
    BY <2>1, <2>2, UnwindShrinks DEF FlowOK
  <2>3. CASE ~ (Unwind(back) /\ UNCHANGED transport)
    <3>1. /\ Where \in {"head", "read"} /\ Where' = "identify" /\ AtWork'
          /\ retrying = FALSE /\ retrying' = TRUE /\ UNCHANGED reads
      BY <1>6, <2>1, <2>3 DEF AuthorizeFails, Retried, Where, AtWork, FlowOK
    <3> QED BY <2>1, <3>1, RetryShrinks
  <2> QED BY <2>2, <2>3
<1> QED BY <1>1, <1>2, <1>3, <1>4, <1>5, <1>6
(* A request of a challenge that leads to a later one.                     *)
LEMMA ChallengeShrinks ==
  ASSUME FlowOK, FlowOK', pc \in Sends, transport, stage = "challenge",
         UNCHANGED <<transport, stage, probed, reads>>,
         \/ pc = "head" /\ pc' = "create"
         \/ pc = "create" /\ pc' = "created"
         \/ pc = "created" /\ pc' \in {"commit", "delete"}
         \/ pc = "commit" /\ pc' \in {"committed", "delete"}
         \/ pc = "committed" /\ pc' = "delete"
         \/ pc = "delete" /\ pc' = "deleted"
  PROVE  Remaining' < Remaining
<1>1. Where = pc /\ Where' = pc' /\ AtWork /\ AtWork' /\ transport'
  BY DEF Where, AtWork, Sends
<1>2. Place' < Place
  BY <1>1, PartsNow, PartsNext DEF Parts
<1>3. Budget \in Nat /\ Budget' = 0 /\ Ahead' = Ahead /\ Ahead \in Nat
  BY <1>1, PartsNow DEF Parts, Budget, Ahead, Turn
<1>4. Rounds = Ahead + Budget /\ Rounds' = Ahead
  BY <1>3 DEF Rounds
<1>5. Rounds' < Rounds \/ Rounds' = Rounds
  BY <1>3, <1>4
<1> QED BY <1>1, <1>2, <1>5, RestShrinks

(* The reads of the job and of a challenge.                                *)
LEMMA ReadingShrinks ==
  ASSUME FlowOK, FlowOK', Identify \/ Read \/ ReadFails \/ FindNoBranch \/ ProbeWriteFails \/ Report
  PROVE  Remaining' < Remaining
<1>1. Where = pc /\ AtWork /\ pc \in Sends /\ transport
  BY DEF Where, AtWork, Identify, Read, ReadFails, FindNoBranch, ProbeWriteFails, Report, FlowOK, Sends
<1>2. CASE pc' \in {"close", "closeFirst"}
  BY <1>1, <1>2, OutShrinks
<1>3. CASE Identify /\ pc' \notin {"close", "closeFirst"}
  <2>1. /\ Where = "identify" /\ pc' = IF stage = "challenge" THEN "head" ELSE "read"
        /\ UNCHANGED <<retrying, transport, reads, stage, probed>>
    BY <1>1, <1>3 DEF Identify, Abort
  <2>2. Where' = pc' /\ AtWork' /\ transport'
    BY <1>1, <2>1 DEF Where, AtWork, Sends
  <2>3. Rounds' = Rounds
    BY <2>1, <2>2 DEF Rounds, Ahead, Budget
  <2>4. Place' < Place
    BY <1>1, <2>1, <2>2, PartsNow, PartsNext DEF Parts
  <2> QED BY <1>1, <2>2, <2>3, <2>4, RestShrinks
<1>4. CASE Read
  <2>1. /\ Where = "read" /\ Where' = "read" /\ AtWork'
        /\ reads < MaxReads /\ reads' = reads + 1 /\ retrying' = FALSE /\ UNCHANGED <<stage, probed>>
    BY <1>1, <1>4 DEF Read, Where, AtWork, challenge
  <2>2. MaxReads \in Nat /\ reads \in Nat
    BY ClocksMayJump DEF FlowOK
  <2>3. Budget \in {2 * (MaxReads - reads) + 1, 2 * (MaxReads - reads) + 2}
    BY <2>1 DEF Budget
  <2>4. Budget' = 2 * (MaxReads - (reads + 1)) + 2
    BY <2>1 DEF Budget
  <2>5. Ahead' = Ahead /\ Ahead \in Nat
    BY <1>1, <2>1, PartsNow DEF Parts, Ahead, Turn
  <2>6. Rounds' < Rounds
    BY <2>2, <2>3, <2>4, <2>5 DEF Rounds
  <2> QED BY <1>1, <2>1, <2>6, RestShrinks
<1>5. CASE FindNoBranch /\ pc' # "close"
  <2>1. /\ pc = "head" /\ pc' = "create" /\ stage = "challenge"
        /\ UNCHANGED <<transport, stage, probed, reads>>
    BY <1>1, <1>5 DEF FindNoBranch, Abort, FlowOK, Sends
  <2> QED BY <1>1, <2>1, ChallengeShrinks
<1>6. CASE ReadFails \/ ProbeWriteFails \/ Report
  BY <1>2, <1>6 DEF ReadFails, ProbeWriteFails, Report, Abort
<1> QED BY <1>2, <1>3, <1>4, <1>5, <1>6

(* Its writes and what it reads back of them; the next repository has a    *)
(* turn less before it.                                                    *)
LEMMA WritingShrinks ==
  ASSUME FlowOK, FlowOK',
         \/ Create \/ CommitProbe \/ Delete
         \/ CheckHead("created", "commit") \/ CheckHead("committed", "delete") \/ CheckDeleted
  PROVE  Remaining' < Remaining
<1>1. Where = pc /\ AtWork /\ pc \in Sends /\ transport /\ stage = "challenge"
  BY DEF Where, AtWork, Create, CommitProbe, Delete, CheckHead, CheckDeleted, FlowOK, Sends
<1>2. CASE Create
  <2>1. pc = "create" /\ pc' \in {"created", "close"}
        /\ UNCHANGED <<transport, stage, probed, reads>>
    BY <1>2 DEF Create, Quietly, Abort
  <2> QED BY <1>1, <2>1, ChallengeShrinks, OutShrinks
<1>3. CASE CommitProbe
  <2>1. pc = "commit" /\ pc' \in {"committed", "delete"}
        /\ UNCHANGED <<transport, stage, probed, reads>>
    BY <1>3 DEF CommitProbe, Quietly, Raise
  <2> QED BY <1>1, <2>1, ChallengeShrinks
<1>4. CASE Delete
  <2>1. pc = "delete" /\ pc' \in {"deleted", "close"}
        /\ UNCHANGED <<transport, stage, probed, reads>>
    BY <1>4 DEF Delete, Quietly, Abort
  <2> QED BY <1>1, <2>1, ChallengeShrinks, OutShrinks
<1>5. CASE CheckHead("created", "commit") \/ CheckHead("committed", "delete")
  <2>1. /\ \/ pc = "created" /\ pc' \in {"commit", "delete"}
           \/ pc = "committed" /\ pc' = "delete"
        /\ UNCHANGED <<transport, stage, probed, reads>>
    BY <1>5 DEF CheckHead, Quietly, Raise
  <2> QED BY <1>1, <2>1, ChallengeShrinks
<1>6. CASE CheckDeleted
  <2>1. Budget = 0 /\ Ahead \in Nat /\ Turn \in Nat /\ Rounds = Ahead
    BY <1>1, <1>6, PartsNow DEF CheckDeleted, Parts, Budget, Rounds
  <2>2. /\ Ahead' + Turn = Ahead /\ Ahead' \in Nat
        /\ AtWork'
    <3>1. CASE probed = "records"
      BY <1>1, <1>6, <2>1, <3>1 DEF CheckDeleted, Ahead, Turn, AtWork, Sends
    <3>2. CASE probed # "records"
      <4>1. probed = "coverage" /\ stage' = "verify" /\ pc' = "inventory"
        BY <1>6, <3>2 DEF CheckDeleted, Reauthorize, FlowOK, Repository
      <4>2. Ahead' = 0 /\ Ahead = Turn
        BY <1>1, <4>1 DEF Ahead
      <4> QED BY <2>1, <4>1, <4>2 DEF AtWork
    <3> QED BY <3>1, <3>2
  <2>3. Budget' \in Nat /\ Budget' < Turn'
    BY <2>2, PartsNext DEF Parts
  <2>4. Turn' = Turn
    BY DEF Turn
  <2>5. Rounds' = Ahead' + Budget'
    BY DEF Rounds
  <2>6. PICK a \in Nat, b \in Nat : a = Ahead' /\ b = Budget'
    BY <2>2, <2>3
  <2>7. a + Turn = Ahead /\ b < Turn /\ Rounds' = a + b
    BY <2>2, <2>3, <2>4, <2>5, <2>6
  <2>8. Rounds' < Rounds
    BY <2>1, <2>7
  <2> QED BY <1>1, <2>2, <2>8, RestShrinks
<1> QED BY <1>2, <1>3, <1>4, <1>5, <1>6

(* The way out.                                                            *)
LEMMA EndingShrinks ==
  ASSUME CloseFirst \/ Close
  PROVE  Remaining' < Remaining
<1>1. CASE CloseFirst
  BY <1>1 DEF CloseFirst, Remaining
<1>2. CASE Close
  BY <1>2 DEF Close, Remaining
<1> QED BY <1>1, <1>2

(* Only the clocks, and a late write, leave the job where it is.           *)
LEMMA StepShrinks ==
  ASSUME JobIInv, [JobNext]_jobVars
  PROVE  Remaining' < Remaining \/ UNCHANGED <<pc, checked, retrying, reads>>
<1>1. FlowOK /\ raised \in BOOLEAN /\ FlowOK'
  BY JobKept DEF JobIInv, FlowOK
<1>2. CASE LateWrite \/ ClockMoves \/ UNCHANGED jobVars
  BY <1>2 DEF LateWrite, ClockMoves, jobVars, flow
<1> QED BY <1>1, <1>2, AuthorizationShrinks, ReadingShrinks, WritingShrinks, EndingShrinks
        DEF JobNext, Step

(* control_job: every refusal, retry and renewal of a token leaves less to *)
(* do, so that the job ends however its clocks and the provider behave.    *)
THEOREM JobEnds == JobSpec => JobWindsDown
<1>1. JobIInv /\ [JobNext]_jobVars =>
        [Remaining' < Remaining]_<<pc, checked, retrying, reads>>
  BY StepShrinks
<1> QED BY <1>1, InitPlaces, JobKept, PTL DEF JobSpec, JobWindsDown
=============================================================================
