----------------------------- MODULE ExportsProofs -----------------------------
(* Theorems of Exports, for any set of export runs, any number of attempts  *)
(* and branches of any length.                                             *)
EXTENDS Exports, TLAPS

-----------------------------------------------------------------------------
(* The inductive invariant.  A head, once read, is never ahead of its      *)
(* branch, which only grows: that a branch is found at that head again     *)
(* says that it stood there all the time in between.                       *)

Fields == {"kind", "view", "source", "who", "pc", "attempt", "e", "o", "c", "d",
           "seen", "retained", "proof", "stage", "linked", "left", "result"}

Observation == {None} \union [operations : Nat, coverage : Nat]

Answer == [source : Nat, view : View, seen : Observation]

Gating == {"gate", "gateWho", "gateAfter", "gateOperations", "gateCoverage", "write"}

Early == {"begin", "operations", "coverage", "authorize", "render"}

Removing == {"cleanup", "remove", "discard"}

Steps == Early \union Gating \union Writing \union {"done"}

WorldOK ==
  /\ history \in Seq(Authority)
  /\ operations \in Nat /\ coverage \in Nat
  /\ derived \in Seq([Kind -> {None} \union Answer]) /\ Len(derived) >= 1
  /\ disk \in [Kind -> {"free", "foreign", "ours", "alike"}]
  /\ aside \in [Kind -> {"never", "away", "back"}] /\ slipped \subseteq Kind
  /\ instants \subseteq Nat \X Nat \X Nat
  /\ <<Events, operations, coverage>> \in instants

Typed(x) == LET j == job[x] IN
  /\ DOMAIN j = Fields
  /\ j.kind \in {"local", "hosted"} /\ j.view \in View
  /\ j.source \in Nat \union {None}
  /\ j.pc \in Steps
  /\ j.e \in Nat /\ j.o \in Nat /\ j.c \in Nat /\ j.d \in Nat
  /\ j.seen \in Observation
  /\ j.retained \in BOOLEAN
  /\ j.pc \notin Removing \union {"done"} => j.result = None
  /\ j.kind = "local" => ~ j.retained /\ j.source = None
  /\ j.kind = "hosted" => j.pc \notin Writing
  /\ j.pc \in {"gateOperations", "gateCoverage", "write"} => ~ j.retained

(* No head was read from the future.                                       *)
HeadsWereRead(x) == LET j == job[x] IN
  /\ j.e <= Events /\ j.o <= operations /\ j.c <= coverage
  /\ j.d <= Len(derived)
  /\ j.pc \notin {"begin", "done"} => j.d >= 1

(* Once the authorization is renewed, it is one of this moment, or the     *)
(* events have moved and the next check will see it.                       *)
Authorized(x) == LET j == job[x] IN
  /\ j.pc = "gateAfter" => j.proof = TRUE \/ j.e < Events
  /\ j.pc \in {"gateOperations", "gateCoverage"} => j.proof = TRUE
  /\ Releases(x) => j.proof = TRUE

OfOneInstant(x) == <<SourceOf(job[x]), job[x].seen.operations, job[x].seen.coverage>> \in instants

(* A current view is rendered from the heads that were read; each check    *)
(* that passes leaves one branch less that may have moved since.           *)
OneInstant(x) == LET j == job[x] IN
  j.view = "current" =>
    /\ j.pc \in Gating => IF j.retained THEN OfOneInstant(x)
                          ELSE j.seen = Heads(j.o, j.c) /\ SourceOf(j) = j.e
    /\ j.pc = "gateOperations" =>
         <<j.e, j.o, j.c>> \in instants \/ j.o < operations \/ j.c < coverage
    /\ j.pc = "gateCoverage" => <<j.e, j.o, j.c>> \in instants \/ j.c < coverage
    /\ Releases(x) => OfOneInstant(x)

(* What a hosted run is about to commit was not there when it looked.      *)
Unanswered(x) == LET j == job[x] IN
  j.kind = "hosted" /\ j.pc \in Gating /\ ~ j.retained =>
    \A kind \in Kind : derived[j.d][kind] = None

(* Our file does not bear the name, but for others that brought it back.   *)
Cleared(kind) == disk[kind] = "ours" => aside[kind] # "never"

(* What the clean-up is about to remove is not of others, but for one that *)
(* was put there after it looked.                                          *)
NoForeignSeen(kind) == disk[kind] = "foreign" => kind \in slipped

Settled(x, kind) == kind \in job[x].linked => Cleared(kind)

(* The files of a local run, step by step.  The clean-up leaves an entry   *)
(* with its stage gone and its published file cleared, or reports that the *)
(* file system failed.                                                     *)
Filed(x) == LET j == job[x] IN
  j.kind = "local" =>
    /\ j.stage \subseteq Kind /\ j.linked \subseteq Kind
    /\ j.pc \notin Writing \union {"done"} => j.stage = {} /\ j.linked = {}
    /\ j.pc = "stage" => j.linked = {} /\ j.stage \in {{}, {"json"}}
    /\ j.pc = "fill" => j.linked = {} /\ j.stage \in {{"json"}, Kind}
    /\ j.pc = "link" => \/ j.linked = {} /\ j.stage = Kind
                        \/ j.linked = {"json"} /\ j.stage = {"csv"}
    /\ j.pc = "unstage" => \/ j.linked = {"json"} /\ j.stage = Kind
                           \/ j.linked = Kind /\ j.stage = {"csv"}
    /\ j.pc = "sync" => \/ j.linked = {"json"} /\ j.stage = {"csv"}
                        \/ j.linked = Kind /\ j.stage = {}
    /\ j.pc \in Removing =>
         /\ j.result \in {"unsafe", "render", "io"}
         /\ j.left \subseteq Kind /\ j.left # {}
         /\ j.result # "io" => \A kind \in Kind \ j.left : kind \notin j.stage /\ Settled(x, kind)
    /\ j.pc = "remove" => NoForeignSeen(Entry(x))
    /\ j.pc = "discard" /\ j.result # "io" => Settled(x, Entry(x))
    /\ j.pc = "done" =>
         /\ j.result = "released" => j.linked = Kind /\ j.stage = {}
         /\ j.result \in {"unsafe", "render"} =>
              j.stage = {} /\ \A kind \in j.linked : Cleared(kind)

RunOK(x) ==
  Typed(x) /\ HeadsWereRead(x) /\ Authorized(x) /\ OneInstant(x) /\ Unanswered(x) /\ Filed(x)

AnswersAreCoherent ==
  \A i \in 1..Len(derived), kind \in Kind :
    LET answer == derived[i][kind] IN
    answer # None /\ answer.view = "current" =>
      <<answer.source, answer.seen.operations, answer.seen.coverage>> \in instants

OneLocal ==
  \A x, y \in Exporter : x # y => "hosted" \in {job[x].kind, job[y].kind}

ExportIInv ==
  /\ WorldOK
  /\ AnswersAreCoherent
  /\ OneLocal
  /\ DOMAIN job = Exporter
  /\ \A x \in Exporter : RunOK(x)
-----------------------------------------------------------------------------
(* What a step does to its run, and to the world.                          *)

(* Set changes the fields it names, of its run alone.                      *)
LEMMA SetIs ==
  ASSUME DOMAIN job = Exporter, NEW x \in Exporter, DOMAIN job[x] = Fields,
         NEW changes, Set(x, changes)
  PROVE  /\ DOMAIN job' = Exporter
         /\ \A y \in Exporter \ {x} : job'[y] = job[y]
         /\ DOMAIN job'[x] = Fields
         /\ \A f \in Fields : job'[x][f] = IF f \in DOMAIN changes THEN changes[f] ELSE job[x][f]
BY DEF Set

(* The branches only grow. *)
Grows ==
  /\ Events <= Events' /\ operations <= operations' /\ coverage <= coverage'
  /\ instants \subseteq instants'
  /\ Len(derived) <= Len(derived')
  /\ \A i \in 1..Len(derived) : derived'[i] = derived[i]

Still == UNCHANGED <<history, operations, coverage, member, derived, files, instants>>

(* A step that moves no branch loses nothing.                              *)
LEMMA StillGrows ==
  ASSUME WorldOK, Still
  PROVE  Grows /\ WorldOK'
BY DEF WorldOK, Still, Grows, Events, files

(* A run that is opening, or has ended with nothing released.              *)
LEMMA EarlyRun ==
  ASSUME NEW x \in Exporter, Typed(x)', HeadsWereRead(x)',
         job'[x].pc \in Early \union {"done"},
         job'[x].result \notin {"released", "reused", "unsafe", "render"},
         job'[x].kind = "local" => job'[x].stage = {} /\ job'[x].linked = {}
  PROVE  RunOK(x)'
BY DEF RunOK, Authorized, Releases, OneInstant, Unanswered, Filed, Early, Gating, Writing, Removing

(* A run that starts anew, or ends there.                                  *)
LEMMA RunBreaksOff ==
  ASSUME DOMAIN job = Exporter, NEW x \in Exporter, RunOK(x), Grows, WorldOK, WorldOK',
         job[x].pc \notin Writing \union {"done"},
         \/ Retry(x)
         \/ \E result \in {"snapshot-changed", "reader-denied", "refused", "unknown"} : Ends(x, result)
  PROVE  RunOK(x)'
<1> USE DEF Steps, Early, Gating, Writing, Removing
<1>1. DOMAIN job[x] = Fields
  BY DEF RunOK, Typed
<1>2. /\ job'[x].pc \in {"begin", "done"}
      /\ job'[x].pc = "begin" => job'[x].result = None
      /\ job'[x].result \notin {"released", "reused", "unsafe", "render"}
      /\ \A f \in Fields \ {"pc", "attempt", "result"} : job'[x][f] = job[x][f]
      /\ DOMAIN job'[x] = Fields
  <2>1. CASE Retry(x)
    <3>1. /\ job'[x].pc = "begin"
          /\ \A f \in Fields \ {"pc", "attempt"} : job'[x][f] = job[x][f]
          /\ DOMAIN job'[x] = Fields
      BY <1>1, <2>1, SetIs DEF Retry, Fields
    <3>2. job[x].result = None
      BY DEF RunOK, Typed
    <3> QED BY <3>1, <3>2, NoneIsNoResult DEF Fields
  <2>2. CASE \E result \in {"snapshot-changed", "reader-denied", "refused", "unknown"} : Ends(x, result)
    <3>1. PICK result \in {"snapshot-changed", "reader-denied", "refused", "unknown"} :
            Set(x, [pc |-> "done", result |-> result])
      BY <2>2 DEF Ends
    <3>2. /\ job'[x].pc = "done" /\ job'[x].result = result
          /\ \A f \in Fields \ {"pc", "result"} : job'[x][f] = job[x][f]
          /\ DOMAIN job'[x] = Fields
      BY <1>1, <3>1, SetIs DEF Fields
    <3> QED BY <3>2
  <2> QED BY <2>1, <2>2
<1>3. Typed(x)'
  BY <1>2 DEF RunOK, Typed, Fields
<1>4. HeadsWereRead(x)'
  <2>1. /\ job'[x].e = job[x].e /\ job'[x].o = job[x].o
        /\ job'[x].c = job[x].c /\ job'[x].d = job[x].d
    BY <1>2 DEF Fields
  <2>2. /\ Events \in Nat /\ Events' \in Nat /\ Len(derived) \in Nat /\ Len(derived') \in Nat
        /\ operations \in Nat /\ operations' \in Nat /\ coverage \in Nat /\ coverage' \in Nat
    BY DEF WorldOK, Events
  <2>3. /\ job[x].e \in Nat /\ job[x].o \in Nat /\ job[x].c \in Nat /\ job[x].d \in Nat
        /\ job[x].e <= Events /\ job[x].o <= operations /\ job[x].c <= coverage
        /\ job[x].d <= Len(derived) /\ (job[x].pc # "begin" => job[x].d >= 1)
    BY DEF RunOK, Typed, HeadsWereRead
  <2>4. Events <= Events' /\ operations <= operations' /\ coverage <= coverage' /\ Len(derived) <= Len(derived')
    BY DEF Grows
  <2>5. job[x].e <= Events'
    BY <2>2, <2>3, <2>4
  <2>6. job[x].o <= operations' /\ job[x].c <= coverage'
    BY <2>2, <2>3, <2>4
  <2>7. job[x].d <= Len(derived')
    BY <2>2, <2>3, <2>4
  <2> QED BY <1>2, <2>1, <2>5, <2>6, <2>7 DEF HeadsWereRead
<1>5. job'[x].kind = "local" => job'[x].stage = {} /\ job'[x].linked = {}
  BY <1>2 DEF RunOK, Filed, Fields
<1> QED BY <1>2, <1>3, <1>4, <1>5, EarlyRun
(* Opening: what a run reads is what is there.                             *)
LEMMA OpeningRuns ==
  ASSUME WorldOK, DOMAIN job = Exporter, NEW x \in Exporter, RunOK(x),
         \/ Open(x) \/ ReadOperations(x) \/ ReadCoverage(x) \/ Authorize(x) \/ RenderFails(x)
  PROVE  RunOK(x)'
<1> USE DEF Steps, Early, Gating, Writing, Removing
<1>1. Still /\ DOMAIN job[x] = Fields /\ job[x].result = None /\ job[x].pc \in Early
  BY DEF Open, ReadOperations, ReadCoverage, Authorize, RenderFails, Alone, world, files, Still, At, RunOK, Typed
<1>2. Grows /\ WorldOK'
  BY <1>1, StillGrows
<1>3. /\ Events \in Nat /\ operations \in Nat /\ coverage \in Nat
      /\ Len(derived) \in Nat /\ Len(derived) >= 1
      /\ Events' = Events /\ operations' = operations /\ coverage' = coverage /\ derived' = derived
  BY <1>1 DEF WorldOK, Events, Still
<1>4. ASSUME \/ Ends(x, "snapshot-changed") \/ Ends(x, "reader-denied") \/ Ends(x, "refused")
      PROVE  RunOK(x)'
  BY <1>1, <1>2, <1>4, RunBreaksOff
<1>5. job[x].kind = "local" => job[x].stage = {} /\ job[x].linked = {}
  BY <1>1 DEF RunOK, Filed
<1>6. CASE Open(x)
  <2>1. CASE job[x].attempt > MaxAttempts
    BY <1>4, <1>6, <2>1 DEF Open
  <2>2. CASE ~ (job[x].attempt > MaxAttempts)
    <3>1. /\ job'[x].pc = "operations" /\ job'[x].e = Events /\ job'[x].d = Len(derived)
          /\ \A f \in Fields \ {"pc", "e", "d", "proof"} : job'[x][f] = job[x][f]
          /\ DOMAIN job'[x] = Fields
      BY <1>1, <1>6, <2>2, SetIs DEF Open, Fields
    <3>2. Typed(x)'
      BY <1>1, <1>3, <3>1 DEF RunOK, Typed, Fields
    <3>3. HeadsWereRead(x)'
      <4>1. /\ job'[x].e <= Events' /\ job'[x].d <= Len(derived') /\ job'[x].d >= 1
        BY <1>3, <3>1
      <4>2. /\ job'[x].o <= operations' /\ job'[x].c <= coverage'
        BY <1>3, <3>1 DEF RunOK, HeadsWereRead, Fields
      <4> QED BY <4>1, <4>2 DEF HeadsWereRead
    <3> QED BY <3>3, <1>1, <1>5, <3>1, <3>2, EarlyRun, NoneIsNoResult DEF Fields
  <2> QED BY <2>1, <2>2
<1>7. CASE ReadOperations(x)
  <2>1. /\ job'[x].pc = "coverage" /\ job'[x].o = operations
        /\ \A f \in Fields \ {"pc", "o"} : job'[x][f] = job[x][f]
        /\ DOMAIN job'[x] = Fields
    BY <1>1, <1>7, SetIs DEF ReadOperations, Fields
  <2>2. Typed(x)' /\ HeadsWereRead(x)'
    BY <1>1, <1>3, <1>7, <2>1 DEF ReadOperations, At, RunOK, Typed, HeadsWereRead, Fields
  <2> QED BY <1>1, <1>5, <2>1, <2>2, EarlyRun, NoneIsNoResult DEF Fields
<1>8. CASE ReadCoverage(x)
  <2>1. /\ job'[x].pc = "authorize" /\ job'[x].c = coverage
        /\ \A f \in Fields \ {"pc", "c"} : job'[x][f] = job[x][f]
        /\ DOMAIN job'[x] = Fields
    BY <1>1, <1>8, SetIs DEF ReadCoverage, Fields
  <2>2. Typed(x)' /\ HeadsWereRead(x)'
    BY <1>1, <1>3, <1>8, <2>1 DEF ReadCoverage, At, RunOK, Typed, HeadsWereRead, Fields
  <2> QED BY <1>1, <1>5, <2>1, <2>2, EarlyRun, NoneIsNoResult DEF Fields
<1>9. CASE Authorize(x)
  <2>1. CASE Ends(x, "reader-denied")
    BY <1>4, <2>1
  <2>2. CASE Set(x, [pc |-> "render"])
    <3>1. /\ job'[x].pc = "render"
          /\ \A f \in Fields \ {"pc"} : job'[x][f] = job[x][f]
          /\ DOMAIN job'[x] = Fields
      BY <1>1, <2>2, SetIs DEF Fields
    <3>2. Typed(x)' /\ HeadsWereRead(x)'
      BY <1>1, <1>3, <1>9, <3>1 DEF Authorize, At, RunOK, Typed, HeadsWereRead, Fields
    <3> QED BY <1>1, <1>5, <3>1, <3>2, EarlyRun, NoneIsNoResult DEF Fields
  <2> QED BY <1>9, <2>1, <2>2 DEF Authorize
<1>10. CASE RenderFails(x)
  BY <1>4, <1>10 DEF RenderFails
<1> QED BY <1>6, <1>7, <1>8, <1>9, <1>10

(* Rendering: a view is of the heads read, or is the one retained, and a   *)
(* pair that is to be committed was not there.                             *)
LEMMA RenderingRuns ==
  ASSUME WorldOK, AnswersAreCoherent, DOMAIN job = Exporter, NEW x \in Exporter, RunOK(x),
         RenderLocal(x) \/ RenderHosted(x) \/ RenderRetained(x)
  PROVE  RunOK(x)'
<1> USE DEF Steps, Early, Gating, Writing, Removing
<1>1. Still /\ DOMAIN job[x] = Fields /\ job[x].result = None /\ job[x].pc = "render"
  BY DEF RenderLocal, RenderHosted, RenderRetained, Alone, world, files, Still, At, RunOK, Typed
<1>2. /\ Events' = Events /\ operations' = operations /\ coverage' = coverage
      /\ derived' = derived /\ instants' = instants
  BY <1>1 DEF Events, Still
<1>3. Heads(job[x].o, job[x].c) \in Observation /\ Observed(job[x]) \in Observation
  BY DEF Heads, Observed, Observation, RunOK, Typed
<1>4. ASSUME /\ DOMAIN job'[x] = Fields
             /\ job'[x].pc = "gate" /\ job'[x].seen \in Observation
             /\ job'[x].retained \in BOOLEAN /\ (job[x].kind = "local" => ~ job'[x].retained)
             /\ \A f \in Fields \ {"pc", "seen", "retained"} : job'[x][f] = job[x][f],
             job[x].view = "current" => IF job'[x].retained THEN OfOneInstant(x)'
                                        ELSE job'[x].seen = Heads(job[x].o, job[x].c) /\ SourceOf(job[x]) = job[x].e,
             (job[x].kind = "hosted" /\ ~ job'[x].retained) => \A kind \in Kind : derived[job[x].d][kind] = None
      PROVE  RunOK(x)'
  <2>1. Typed(x)' /\ HeadsWereRead(x)'
    BY <1>1, <1>2, <1>4 DEF RunOK, Typed, HeadsWereRead, Fields
  <2>2. ~ Releases(x)'
    BY <1>1, <1>4, NoneIsNoResult DEF Releases, Fields
  <2>3. Authorized(x)'
    BY <1>4, <2>2 DEF Authorized
  <2>4. OneInstant(x)'
    <3>1. /\ job'[x].view = job[x].view /\ job'[x].o = job[x].o /\ job'[x].c = job[x].c
          /\ job'[x].e = job[x].e /\ SourceOf(job'[x]) = SourceOf(job[x])
      BY <1>4 DEF Fields, SourceOf
    <3> QED BY <1>4, <2>2, <3>1 DEF OneInstant
  <2>5. Unanswered(x)'
    BY <1>2, <1>4 DEF Unanswered, Fields
  <2>6. Filed(x)'
    BY <1>1, <1>4 DEF RunOK, Filed, Fields
  <2> QED BY <2>1, <2>3, <2>4, <2>5, <2>6 DEF RunOK
<1>5. CASE RenderLocal(x)
  <2>1. /\ job'[x].pc = "gate" /\ job'[x].seen = Observed(job[x])
        /\ \A f \in Fields \ {"pc", "seen"} : job'[x][f] = job[x][f]
        /\ DOMAIN job'[x] = Fields
    BY <1>1, <1>5, SetIs DEF RenderLocal, Fields
  <2>2. job[x].kind = "local" /\ ~ job[x].retained /\ job[x].source = None
    BY <1>5 DEF RenderLocal, RunOK, Typed
  <2>3. job'[x].retained = job[x].retained /\ job[x].retained \in BOOLEAN
    BY <2>1 DEF Fields, RunOK, Typed
  <2> QED BY <1>3, <1>4, <2>1, <2>2, <2>3 DEF Observed, SourceOf
<1>6. CASE RenderHosted(x)
  <2>1. /\ job'[x].pc = "gate" /\ job'[x].seen = Observed(job[x]) /\ job'[x].retained = FALSE
        /\ \A f \in Fields \ {"pc", "seen", "retained"} : job'[x][f] = job[x][f]
        /\ DOMAIN job'[x] = Fields
    BY <1>1, <1>6, SetIs DEF RenderHosted, Fields
  <2>2. \A kind \in Kind : derived[job[x].d][kind] = None
    BY <1>6 DEF RenderHosted, Present, Pair
  <2>3. job[x].view = "current" => SourceOf(job[x]) = job[x].e
    BY <1>6 DEF RenderHosted, SourceOf
  <2> QED BY <1>3, <1>4, <2>1, <2>2, <2>3 DEF Observed
<1>7. CASE RenderRetained(x)
  <2>1. /\ job'[x].pc = "gate" /\ job'[x].seen = Pair(x)["json"].seen /\ job'[x].retained = TRUE
        /\ \A f \in Fields \ {"pc", "seen", "retained"} : job'[x][f] = job[x][f]
        /\ DOMAIN job'[x] = Fields
    BY <1>1, <1>7, SetIs DEF RenderRetained, Fields
  <2>2. job[x].d \in 1..Len(derived)
    BY <1>1 DEF RunOK, Typed, HeadsWereRead, WorldOK
  <2>3. "json" \in Kind /\ Pair(x)["json"] # None
    BY <1>7 DEF RenderRetained, Present, Kind
  <2>4. Pair(x) \in [Kind -> {None} \union Answer]
    BY <2>2 DEF Pair, WorldOK
  <2>5. Pair(x)["json"] \in Answer
    BY <2>3, <2>4
  <2>6. Pair(x)["json"] = Rendered([job[x] EXCEPT !.seen = Pair(x)["json"].seen])
    BY <1>7, <2>3 DEF RenderRetained
  <2>7. Pair(x)["json"].source = SourceOf(job[x]) /\ Pair(x)["json"].view = job[x].view
    BY <1>1, <2>6 DEF Rendered, SourceOf, Fields
  <2>8. job[x].view = "current" => OfOneInstant(x)'
    <3>1. SourceOf(job'[x]) = SourceOf(job[x])
      BY <2>1 DEF SourceOf, Fields
    <3> QED BY <1>2, <2>1, <2>2, <2>3, <2>7, <3>1 DEF AnswersAreCoherent, OfOneInstant, Pair
  <2>9. job'[x].seen \in Observation
    BY <2>1, <2>5 DEF Answer
  <2>10. job[x].kind = "hosted"
    BY <1>7 DEF RenderRetained
  <2> QED BY <1>4, <2>1, <2>8, <2>9, <2>10
<1> QED BY <1>5, <1>6, <1>7
(* The next check of a run whose heads are as they were; what it has been  *)
(* rendered from stays.                                                    *)
LEMMA GateRun ==
  ASSUME WorldOK, DOMAIN job = Exporter, NEW x \in Exporter, RunOK(x), Still,
         DOMAIN job'[x] = Fields,
         job[x].pc \in Gating \ {"write"}, job'[x].pc \in Gating,
         \A f \in Fields \ {"pc", "proof"} : job'[x][f] = job[x][f],
         Authorized(x)',
         job'[x].pc \in {"gateOperations", "gateCoverage", "write"} => ~ job[x].retained,
         job[x].view = "current" =>
           /\ job'[x].pc = "gateOperations" =>
                <<job[x].e, job[x].o, job[x].c>> \in instants \/ job[x].o < operations \/ job[x].c < coverage
           /\ job'[x].pc = "gateCoverage" => <<job[x].e, job[x].o, job[x].c>> \in instants \/ job[x].c < coverage
           /\ job'[x].pc = "write" => <<job[x].e, job[x].o, job[x].c>> \in instants
  PROVE  RunOK(x)'
<1> USE DEF Steps, Early, Gating, Writing, Removing
<1>1. /\ Events' = Events /\ operations' = operations /\ coverage' = coverage
      /\ derived' = derived /\ instants' = instants
  BY DEF Events, Still
<1>2. job[x].result = None /\ job'[x].result = None
  BY DEF RunOK, Typed, Fields
<1>3. Typed(x)'
  BY <1>2 DEF RunOK, Typed, Fields
<1>4. HeadsWereRead(x)'
  BY <1>1 DEF RunOK, HeadsWereRead, Fields
<1>5. Unanswered(x)'
  BY <1>1 DEF RunOK, Unanswered, Fields
<1>6. Filed(x)'
  BY DEF RunOK, Filed, Fields
<1>7. OneInstant(x)'
  <2>1. /\ job'[x].view = job[x].view /\ job'[x].o = job[x].o /\ job'[x].c = job[x].c
        /\ job'[x].e = job[x].e /\ job'[x].seen = job[x].seen /\ job'[x].retained = job[x].retained
        /\ SourceOf(job'[x]) = SourceOf(job[x])
    BY DEF Fields, SourceOf
  <2>2. OfOneInstant(x)' <=> OfOneInstant(x)
    BY <1>1, <2>1 DEF OfOneInstant
  <2>3. Releases(x)' => job'[x].pc = "write"
    BY <1>2, NoneIsNoResult DEF Releases
  <2>4. ASSUME job[x].view = "current", ~ job[x].retained
        PROVE  <<job[x].e, job[x].o, job[x].c>> \in instants => OfOneInstant(x)
    BY <2>4 DEF RunOK, OneInstant, OfOneInstant, Heads
  <2>5. ASSUME job[x].view = "current"
        PROVE  /\ IF job[x].retained THEN OfOneInstant(x)
                  ELSE job[x].seen = Heads(job[x].o, job[x].c) /\ SourceOf(job[x]) = job[x].e
               /\ job'[x].pc = "write" => OfOneInstant(x)
    BY <2>4, <2>5 DEF RunOK, OneInstant
  <2> QED BY <1>1, <2>1, <2>2, <2>3, <2>5 DEF OneInstant
<1> QED BY <1>3, <1>4, <1>5, <1>6, <1>7 DEF RunOK

(* A head found where it was read was there in between.                    *)
LEMMA GatingRuns ==
  ASSUME WorldOK, DOMAIN job = Exporter, NEW x \in Exporter, RunOK(x),
         \/ GateBefore(x) \/ GateAuthorize(x) \/ GateAfter(x)
         \/ GateOperations(x) \/ GateCoverage(x)
  PROVE  RunOK(x)'
<1> USE DEF Steps, Early, Gating, Writing, Removing
<1>1. Still /\ DOMAIN job[x] = Fields /\ job[x].pc \in Gating \ {"write"} /\ job[x].result = None
  BY DEF GateBefore, GateAuthorize, GateAfter, GateOperations, GateCoverage, Alone, world, files, Still, At,
         RunOK, Typed
<1>2. Grows /\ WorldOK'
  BY <1>1, StillGrows
<1>3. ASSUME Retry(x) \/ Ends(x, "reader-denied") PROVE RunOK(x)'
  BY <1>1, <1>2, <1>3, RunBreaksOff
<1>4. ASSUME NEW next \in {"gateWho", "gateOperations", "gateCoverage", "write"},
             Set(x, [pc |-> next])
      PROVE  /\ job'[x].pc = next /\ DOMAIN job'[x] = Fields
             /\ \A f \in Fields \ {"pc"} : job'[x][f] = job[x][f]
  BY <1>1, <1>4, SetIs DEF Fields
<1>5. CASE GateBefore(x)
  <2>1. CASE ~ HeadHeld(x)
    BY <1>3, <1>5, <2>1 DEF GateBefore
  <2>2. CASE HeadHeld(x)
    <3>1. /\ job'[x].pc = "gateWho" /\ DOMAIN job'[x] = Fields
          /\ \A f \in Fields \ {"pc"} : job'[x][f] = job[x][f]
      BY <1>4, <1>5, <2>2 DEF GateBefore
    <3>2. Authorized(x)'
      BY <1>1, <3>1, NoneIsNoResult DEF Authorized, Releases, Fields
    <3> QED BY <1>1, <3>1, <3>2, GateRun
  <2> QED BY <2>1, <2>2
<1>6. CASE GateAuthorize(x)
  <2>1. CASE Ends(x, "reader-denied")
    BY <1>3, <2>1
  <2>2. CASE MayBeGranted(x) /\ Set(x, [pc |-> "gateAfter", proof |-> ProofNow(job[x].who)])
    <3>1. /\ job'[x].pc = "gateAfter" /\ job'[x].proof = ProofNow(job[x].who)
          /\ DOMAIN job'[x] = Fields
          /\ \A f \in Fields \ {"pc", "proof"} : job'[x][f] = job[x][f]
      BY <1>1, <2>2, SetIs DEF Fields
    <3>2. job[x].e = Events => job'[x].proof = TRUE
      BY <2>2, <3>1 DEF MayBeGranted, ProofNow, Granted
    <3>3. job'[x].e = Events \/ job'[x].e < Events
      <4>1. job'[x].e = job[x].e
        BY <3>1 DEF Fields
      <4>2. job[x].e \in Nat /\ Events \in Nat /\ job[x].e <= Events
        BY DEF RunOK, Typed, HeadsWereRead, WorldOK, Events
      <4> QED BY <4>1, <4>2
    <3>4. Authorized(x)'
      <4>1. Events' = Events /\ job'[x].e = job[x].e /\ job'[x].result = None
        BY <1>1, <3>1 DEF Still, Events, Fields
      <4> QED BY <3>1, <3>2, <3>3, <4>1, NoneIsNoResult DEF Authorized, Releases
    <3> QED BY <1>1, <3>1, <3>4, GateRun
  <2> QED BY <1>6, <2>1, <2>2 DEF GateAuthorize
<1>7. CASE GateAfter(x)
  <2>0. job[x].pc = "gateAfter"
    BY <1>7 DEF GateAfter, At
  <2>1. CASE ~ HeadStillHeld(x)
    BY <1>3, <1>7, <2>1 DEF GateAfter
  <2>2. CASE HeadStillHeld(x)
    <3>1. Events = job[x].e /\ job[x].proof = TRUE
      <4>1. Events = job[x].e /\ Events \in Nat
        BY <2>2 DEF HeadStillHeld, HeadHeld, WorldOK, Events
      <4> QED BY <2>0, <4>1 DEF RunOK, Authorized
    <3>2. CASE job[x].retained
      <4>1. Set(x, [pc |-> "done", result |-> "reused"])
        BY <1>7, <2>2, <3>2 DEF GateAfter, Ends
      <4>2. /\ job'[x].pc = "done" /\ job'[x].result = "reused" /\ DOMAIN job'[x] = Fields
            /\ \A f \in Fields \ {"pc", "result"} : job'[x][f] = job[x][f]
        BY <1>1, <4>1, SetIs DEF Fields
      <4>3. job[x].kind = "hosted"
        BY <3>2 DEF RunOK, Typed
      <4>4. Typed(x)' /\ Authorized(x)' /\ Unanswered(x)' /\ Filed(x)'
        BY <3>1, <4>2, <4>3 DEF RunOK, Typed, Authorized, Unanswered, Filed, Fields
      <4>5. HeadsWereRead(x)'
        BY <1>1, <4>2 DEF RunOK, HeadsWereRead, Fields, Still, Events
      <4>6. OneInstant(x)'
        <5>1. SourceOf(job'[x]) = SourceOf(job[x]) /\ instants' = instants
          BY <1>1, <4>2 DEF SourceOf, Fields, Still
        <5>2. job[x].view = "current" => OfOneInstant(x)
          BY <2>0, <3>2 DEF RunOK, OneInstant
        <5>3. job[x].view = "current" => OfOneInstant(x)'
          BY <4>2, <5>1, <5>2 DEF OfOneInstant, Fields
        <5> QED BY <4>2, <5>3 DEF OneInstant, Fields
      <4> QED BY <4>4, <4>5, <4>6 DEF RunOK
    <3>3. CASE ~ job[x].retained
      <4>1. /\ job'[x].pc = IF job[x].view = "current" THEN "gateOperations" ELSE "write"
            /\ DOMAIN job'[x] = Fields
            /\ \A f \in Fields \ {"pc"} : job'[x][f] = job[x][f]
        BY <1>4, <1>7, <2>2, <3>3 DEF GateAfter
      <4>2. Authorized(x)'
        BY <3>1, <4>1 DEF Authorized, Fields
      <4>3. job[x].view = "current" =>
              <<job[x].e, job[x].o, job[x].c>> \in instants \/ job[x].o < operations \/ job[x].c < coverage
        <5>1. /\ job[x].o \in Nat /\ job[x].c \in Nat /\ operations \in Nat /\ coverage \in Nat
              /\ job[x].o <= operations /\ job[x].c <= coverage
              /\ <<Events, operations, coverage>> \in instants
          BY DEF RunOK, Typed, HeadsWereRead, WorldOK
        <5>2. (job[x].o = operations \/ job[x].o < operations) /\ (job[x].c = coverage \/ job[x].c < coverage)
          BY <5>1
        <5> QED BY <3>1, <5>1, <5>2
      <4> QED BY <1>1, <3>3, <4>1, <4>2, <4>3, GateRun
    <3> QED BY <3>2, <3>3
  <2> QED BY <2>1, <2>2
<1>8. CASE GateOperations(x)
  <2>0. job[x].pc = "gateOperations"
    BY <1>8 DEF GateOperations, At
  <2>1. CASE ~ OperationsHeld(x)
    BY <1>3, <1>8, <2>1 DEF GateOperations
  <2>2. CASE OperationsHeld(x)
    <3>1. /\ job'[x].pc = "gateCoverage" /\ DOMAIN job'[x] = Fields
          /\ \A f \in Fields \ {"pc"} : job'[x][f] = job[x][f]
      BY <1>4, <1>8, <2>2 DEF GateOperations
    <3>2. Authorized(x)'
      BY <1>1, <2>0, <3>1, NoneIsNoResult DEF RunOK, Authorized, Releases, Fields
    <3>3. ~ (job[x].o < operations)
      BY <2>2 DEF OperationsHeld, WorldOK
    <3> QED BY <1>1, <2>0, <3>1, <3>2, <3>3, GateRun DEF RunOK, OneInstant, Typed
  <2> QED BY <2>1, <2>2
<1>9. CASE GateCoverage(x)
  <2>0. job[x].pc = "gateCoverage"
    BY <1>9 DEF GateCoverage, At
  <2>1. CASE coverage # job[x].c
    BY <1>3, <1>9, <2>1 DEF GateCoverage
  <2>2. CASE coverage = job[x].c
    <3>1. /\ job'[x].pc = "write" /\ DOMAIN job'[x] = Fields
          /\ \A f \in Fields \ {"pc"} : job'[x][f] = job[x][f]
      BY <1>4, <1>9, <2>2 DEF GateCoverage
    <3>2. Authorized(x)'
      BY <1>1, <2>0, <3>1 DEF RunOK, Authorized, Fields
    <3>3. ~ (job[x].c < coverage)
      BY <2>2 DEF WorldOK
    <3> QED BY <1>1, <2>0, <3>1, <3>2, <3>3, GateRun DEF RunOK, OneInstant, Typed
  <2> QED BY <2>1, <2>2
<1> QED BY <1>5, <1>6, <1>7, <1>8, <1>9
(* A local run that writes what has passed the checks: only its files are  *)
(* still at stake.                                                         *)
LEMMA WritingRun ==
  ASSUME WorldOK, DOMAIN job = Exporter, NEW x \in Exporter, RunOK(x),
         UNCHANGED <<history, operations, coverage, derived, instants>>,
         DOMAIN job'[x] = Fields, job[x].kind = "local",
         job[x].pc \in Writing \union {"write"}, job'[x].pc \in Writing \union {"done"},
         \A f \in Fields \ {"pc", "stage", "linked", "left", "result"} : job'[x][f] = job[x][f],
         job'[x].pc \notin Removing \union {"done"} => job'[x].result = None,
         Releases(x)' => Releases(x),
         Filed(x)'
  PROVE  RunOK(x)'
<1> USE DEF Steps, Early, Gating, Writing, Removing
<1>1. Typed(x)'
  BY DEF RunOK, Typed, Fields
<1>2. HeadsWereRead(x)'
  BY DEF RunOK, HeadsWereRead, Fields, Events
<1>3. Authorized(x)'
  BY DEF RunOK, Authorized, Fields
<1>4. Unanswered(x)'
  BY DEF Unanswered, Fields
<1>5. OneInstant(x)'
  <2>1. SourceOf(job'[x]) = SourceOf(job[x])
    BY DEF SourceOf, Fields
  <2>2. OfOneInstant(x)' <=> OfOneInstant(x)
    BY <2>1 DEF OfOneInstant, Fields
  <2> QED BY <2>2 DEF RunOK, OneInstant, Fields
<1> QED BY <1>1, <1>2, <1>3, <1>4, <1>5 DEF RunOK

(* The clean-up: what it looks at and does not remove is not ours, what it *)
(* removes is gone, and anything else is reported as a failure.            *)
LEMMA RemovingRuns ==
  ASSUME WorldOK, DOMAIN job = Exporter, NEW x \in Exporter, RunOK(x),
         Examine(x) \/ Remove(x) \/ Discard(x)
  PROVE  RunOK(x)'
<1> USE DEF Writing, Removing
<1>1. /\ UNCHANGED <<history, operations, coverage, derived, instants, aside, slipped>>
      /\ job[x].pc \in Removing
      /\ job[x].kind = "local" /\ DOMAIN job[x] = Fields
      /\ Kind = {"json", "csv"}
  BY DEF Examine, Remove, Discard, Alone, world, files, At, RunOK, Typed, Kind
<1>2. /\ job[x].stage \subseteq Kind /\ job[x].linked \subseteq Kind
      /\ job[x].result \in {"unsafe", "render", "io"}
      /\ job[x].left \subseteq Kind /\ job[x].left # {}
      /\ job[x].result # "io" =>
           \A kind \in Kind \ job[x].left : kind \notin job[x].stage /\ Settled(x, kind)
      /\ job[x].pc = "discard" /\ job[x].result # "io" => Settled(x, Entry(x))
  BY <1>1 DEF RunOK, Filed
<1>3. Entry(x) \in job[x].left
  BY <1>1, <1>2 DEF Entry
<1>4. CASE Examine(x)
  <2>1. /\ UNCHANGED <<disk, aside, slipped>>
        /\ job'[x].pc \in {"remove", "discard"} /\ job'[x].result \in {job[x].result, "io"}
        /\ job'[x].pc = "remove" => disk[Entry(x)] \in {"ours", "alike"}
        /\ job'[x].pc = "discard" /\ job'[x].result # "io" =>
             (Entry(x) \in job[x].linked => disk[Entry(x)] # "ours")
        /\ DOMAIN job'[x] = Fields
        /\ \A f \in Fields \ {"pc", "result"} : job'[x][f] = job[x][f]
    <3>1. CASE Set(x, [pc |-> "discard", result |-> "io"])
      BY <1>1, <1>4, <3>1, SetIs DEF Examine, Alone, files, Fields
    <3>2. CASE Set(x, [pc |-> IF /\ Entry(x) \in Published(x) /\ disk[Entry(x)] # "free"
                                /\ SameInode(Entry(x)) THEN "remove" ELSE "discard"])
      <4>1. /\ job'[x].pc = IF /\ Entry(x) \in Published(x) /\ disk[Entry(x)] # "free"
                               /\ SameInode(Entry(x)) THEN "remove" ELSE "discard"
            /\ DOMAIN job'[x] = Fields
            /\ \A f \in Fields \ {"pc"} : job'[x][f] = job[x][f]
        BY <1>1, <3>2, SetIs DEF Fields
      <4> QED BY <1>4, <4>1 DEF Examine, Alone, files, Fields, Published, SameInode
    <3> QED BY <1>4, <3>1, <3>2 DEF Examine
  <2>2. /\ job'[x].stage = job[x].stage /\ job'[x].linked = job[x].linked
        /\ job'[x].left = job[x].left /\ job'[x].kind = job[x].kind /\ Entry(x)' = Entry(x)
    BY <2>1 DEF Fields, Entry
  <2>3. Filed(x)'
    BY <1>1, <1>2, <2>1, <2>2 DEF Filed, Settled, Cleared, NoForeignSeen
  <2> QED BY <1>1, <2>1, <2>3, WritingRun, NoneIsNoResult DEF Releases
<1>5. CASE Remove(x)
  <2>1. /\ \/ disk' = [disk EXCEPT ![Entry(x)] = "free"] /\ job'[x].result = job[x].result
           \/ disk' = disk /\ job'[x].result = "io"
        /\ job'[x].pc = "discard" /\ DOMAIN job'[x] = Fields
        /\ \A f \in Fields \ {"pc", "result"} : job'[x][f] = job[x][f]
    <3>1. CASE disk' = [disk EXCEPT ![Entry(x)] = "free"] /\ Set(x, [pc |-> "discard"])
      BY <1>1, <3>1, SetIs DEF Fields
    <3>2. CASE UNCHANGED disk /\ Set(x, [pc |-> "discard", result |-> "io"])
      BY <1>1, <3>2, SetIs DEF Fields
    <3> QED BY <1>5, <3>1, <3>2 DEF Remove
  <2>2. /\ job'[x].stage = job[x].stage /\ job'[x].linked = job[x].linked
        /\ job'[x].left = job[x].left /\ job'[x].kind = job[x].kind /\ Entry(x)' = Entry(x)
    BY <2>1 DEF Fields, Entry
  <2>3. job'[x].result # "io" =>
          /\ job[x].result # "io"
          /\ disk'[Entry(x)] = "free"
          /\ \A kind \in Kind \ job[x].left : disk'[kind] = disk[kind]
    BY <1>1, <1>2, <1>3, <2>1 DEF WorldOK
  <2>4. Filed(x)'
    BY <1>1, <1>2, <2>1, <2>2, <2>3 DEF Filed, Settled, Cleared
  <2> QED BY <1>1, <1>2, <2>1, <2>4, WritingRun, NoneIsNoResult DEF Releases
<1>6. CASE Discard(x)
  <2>1. PICK failed \in BOOLEAN :
          Set(x, [stage  |-> IF failed THEN job[x].stage ELSE job[x].stage \ {Entry(x)},
                  result |-> IF failed THEN "io" ELSE job[x].result,
                  left   |-> job[x].left \ {Entry(x)},
                  pc     |-> IF job[x].left = {Entry(x)} THEN "done" ELSE "cleanup"])
    BY <1>6 DEF Discard
  <2>2. /\ job'[x].stage = IF failed THEN job[x].stage ELSE job[x].stage \ {Entry(x)}
        /\ job'[x].result = IF failed THEN "io" ELSE job[x].result
        /\ job'[x].left = job[x].left \ {Entry(x)}
        /\ job'[x].pc = IF job[x].left = {Entry(x)} THEN "done" ELSE "cleanup"
        /\ DOMAIN job'[x] = Fields
        /\ \A f \in Fields \ {"pc", "stage", "left", "result"} : job'[x][f] = job[x][f]
    <3> DEFINE stage == IF failed THEN job[x].stage ELSE job[x].stage \ {Entry(x)}
               result == IF failed THEN "io" ELSE job[x].result
               left == job[x].left \ {Entry(x)}
               pc == IF job[x].left = {Entry(x)} THEN "done" ELSE "cleanup"
    <3>1. Set(x, [stage |-> stage, result |-> result, left |-> left, pc |-> pc])
      BY <2>1
    <3> HIDE DEF stage, result, left, pc
    <3>2. /\ job'[x].stage = stage /\ job'[x].result = result
          /\ job'[x].left = left /\ job'[x].pc = pc
          /\ DOMAIN job'[x] = Fields
          /\ \A f \in Fields \ {"pc", "stage", "left", "result"} : job'[x][f] = job[x][f]
      BY <1>1, <3>1, SetIs DEF Fields
    <3> QED BY <3>2 DEF stage, result, left, pc
  <2>3. job'[x].linked = job[x].linked /\ job'[x].kind = job[x].kind
    BY <2>2 DEF Fields
  <2>4. UNCHANGED <<disk, aside, slipped>> /\ job[x].pc = "discard"
    BY <1>6 DEF Discard, Alone, files, At
  <2>5. job'[x].result # "io" =>
          \A kind \in Kind \ job'[x].left : kind \notin job'[x].stage /\ Settled(x, kind)'
    BY <1>2, <2>2, <2>3, <2>4 DEF Settled, Cleared
  <2>6. job'[x].pc = "done" => job'[x].left = {}
    BY <2>2
  <2>7. job'[x].pc = "done" /\ job'[x].result # "io" =>
          job'[x].stage = {} /\ \A kind \in job'[x].linked : Cleared(kind)'
    BY <1>1, <1>2, <2>2, <2>3, <2>5, <2>6 DEF Settled
  <2>8. Filed(x)'
    BY <1>1, <1>2, <1>3, <2>2, <2>3, <2>5, <2>7 DEF Filed
  <2> QED BY <1>1, <1>2, <2>2, <2>8, WritingRun, NoneIsNoResult DEF Releases
<1> QED BY <1>4, <1>5, <1>6

(* Both files are staged, then linked and unstaged one after the other; a  *)
(* failure leads through their removal.                                    *)
LEMMA WritingRuns ==
  ASSUME WorldOK, DOMAIN job = Exporter, NEW x \in Exporter, RunOK(x),
         \/ CheckDestinations(x) \/ Stage(x) \/ Fill(x) \/ Link(x) \/ Unstage(x) \/ Sync(x)
         \/ WriteFails(x) \/ Examine(x) \/ Remove(x) \/ Discard(x)
  PROVE  RunOK(x)'
<1> USE DEF Writing, Removing
<1>1. /\ UNCHANGED <<history, operations, coverage, derived, instants>>
      /\ job[x].pc \in Writing \union {"write"}
      /\ job[x].kind = "local" /\ DOMAIN job[x] = Fields
      /\ job[x].pc \notin Removing => job[x].result = None
      /\ Kind = {"json", "csv"}
  BY DEF CheckDestinations, Stage, Fill, Link, Unstage, Sync, WriteFails, Examine, Remove, Discard,
         Alone, world, At, RunOK, Typed, Kind
<1>2. Filed(x)
  BY DEF RunOK
<1>3. CASE CheckDestinations(x)
  <2>0. job[x].pc = "write" /\ job[x].stage = {} /\ job[x].linked = {}
    BY <1>1, <1>2, <1>3 DEF CheckDestinations, At, Filed
  <2>1. CASE Set(x, [pc |-> "stage"])
    <3>1. /\ job'[x].pc = "stage" /\ DOMAIN job'[x] = Fields
          /\ \A f \in Fields \ {"pc"} : job'[x][f] = job[x][f]
      BY <1>1, <2>1, SetIs DEF Fields
    <3>2. Filed(x)'
      BY <2>0, <3>1 DEF Filed, Fields
    <3> QED BY <1>1, <2>0, <3>1, <3>2, WritingRun DEF Fields, Releases
  <2>2. CASE Ends(x, "unsafe")
    <3>1. /\ job'[x].pc = "done" /\ job'[x].result = "unsafe" /\ DOMAIN job'[x] = Fields
          /\ \A f \in Fields \ {"pc", "result"} : job'[x][f] = job[x][f]
      BY <1>1, <2>2, SetIs DEF Fields, Ends
    <3>2. Filed(x)'
      BY <2>0, <3>1 DEF Filed, Fields
    <3> QED BY <1>1, <2>0, <3>1, <3>2, WritingRun DEF Releases
  <2> QED BY <1>3, <2>1, <2>2 DEF CheckDestinations
<1>4. CASE Stage(x)
  <2>0. job[x].pc = "stage" /\ job[x].linked = {} /\ job[x].stage \in {{}, {"json"}}
    BY <1>1, <1>2, <1>4 DEF Stage, At, Filed
  <2>1. PICK kind \in Kind \ job[x].stage :
          /\ kind = "json" \/ "json" \in job[x].stage
          /\ Set(x, [stage |-> job[x].stage \union {kind}, pc |-> "fill"])
    BY <1>4 DEF Stage
  <2>2. /\ job'[x].pc = "fill"
        /\ job'[x].stage = job[x].stage \union {kind}
        /\ DOMAIN job'[x] = Fields
        /\ \A f \in Fields \ {"pc", "stage"} : job'[x][f] = job[x][f]
    BY <1>1, <2>1, SetIs DEF Fields
  <2>3. Filed(x)'
    BY <1>1, <2>0, <2>1, <2>2 DEF Filed, Fields
  <2> QED BY <1>1, <2>0, <2>2, <2>3, WritingRun DEF Fields, Releases
<1>4a. CASE Fill(x)
  <2>0. job[x].pc = "fill" /\ job[x].linked = {} /\ job[x].stage \in {{"json"}, Kind}
    BY <1>1, <1>2, <1>4a DEF Fill, At, Filed
  <2>1. /\ job'[x].pc = IF job[x].stage = Kind THEN "link" ELSE "stage"
        /\ DOMAIN job'[x] = Fields
        /\ \A f \in Fields \ {"pc"} : job'[x][f] = job[x][f]
    BY <1>1, <1>4a, SetIs DEF Fill, Fields
  <2>2. Filed(x)'
    BY <1>1, <2>0, <2>1 DEF Filed, Fields
  <2> QED BY <1>1, <2>0, <2>1, <2>2, WritingRun DEF Fields, Releases
<1>5. CASE Link(x)
  <2>0. /\ job[x].pc = "link"
        /\ \/ job[x].linked = {} /\ job[x].stage = Kind
           \/ job[x].linked = {"json"} /\ job[x].stage = {"csv"}
    BY <1>1, <1>2, <1>5 DEF Link, At, Filed
  <2>1. PICK kind \in Kind \ job[x].linked :
          /\ kind = "json" \/ "json" \in job[x].linked
          /\ Set(x, [linked |-> job[x].linked \union {kind}, pc |-> "unstage"])
    BY <1>5 DEF Link
  <2>2. /\ job'[x].pc = "unstage" /\ job'[x].linked = job[x].linked \union {kind}
        /\ DOMAIN job'[x] = Fields
        /\ \A f \in Fields \ {"pc", "linked"} : job'[x][f] = job[x][f]
    BY <1>1, <2>1, SetIs DEF Fields
  <2>3. Filed(x)'
    BY <1>1, <2>0, <2>1, <2>2 DEF Filed, Fields
  <2> QED BY <1>1, <2>0, <2>2, <2>3, WritingRun DEF Fields, Releases
<1>6. CASE Unstage(x)
  <2>0. /\ job[x].pc = "unstage"
        /\ \/ job[x].linked = {"json"} /\ job[x].stage = Kind
           \/ job[x].linked = Kind /\ job[x].stage = {"csv"}
    BY <1>1, <1>2, <1>6 DEF Unstage, At, Filed
  <2>1. /\ job'[x].pc = "sync"
        /\ job'[x].stage = job[x].stage \ {IF "csv" \in job[x].linked THEN "csv" ELSE "json"}
        /\ DOMAIN job'[x] = Fields
        /\ \A f \in Fields \ {"pc", "stage"} : job'[x][f] = job[x][f]
    BY <1>1, <1>6, SetIs DEF Unstage, Fields
  <2>2. Filed(x)'
    BY <1>1, <2>0, <2>1 DEF Filed, Fields
  <2> QED BY <1>1, <2>0, <2>1, <2>2, WritingRun DEF Fields, Releases
<1>7. CASE Sync(x)
  <2>0. /\ job[x].pc = "sync"
        /\ \/ job[x].linked = {"json"} /\ job[x].stage = {"csv"}
           \/ job[x].linked = Kind /\ job[x].stage = {}
    BY <1>1, <1>2, <1>7 DEF Sync, At, Filed
  <2>1. CASE job[x].linked = Kind
    <3>1. /\ job'[x].pc = "done" /\ job'[x].result = "released" /\ DOMAIN job'[x] = Fields
          /\ \A f \in Fields \ {"pc", "result"} : job'[x][f] = job[x][f]
      BY <1>1, <1>7, <2>1, SetIs DEF Sync, Ends, Fields
    <3>2. Filed(x)'
      BY <1>1, <2>0, <2>1, <3>1 DEF Filed, Fields
    <3> QED BY <1>1, <2>0, <3>1, <3>2, WritingRun DEF Releases
  <2>2. CASE job[x].linked # Kind
    <3>1. /\ job'[x].pc = "link" /\ DOMAIN job'[x] = Fields
          /\ \A f \in Fields \ {"pc"} : job'[x][f] = job[x][f]
      BY <1>1, <1>7, <2>2, SetIs DEF Sync, Fields
    <3>2. Filed(x)'
      BY <1>1, <2>0, <2>2, <3>1 DEF Filed, Fields
    <3> QED BY <1>1, <2>0, <3>1, <3>2, WritingRun DEF Fields, Releases
  <2> QED BY <2>1, <2>2
<1>8. CASE WriteFails(x)
  <2>1. PICK reason \in {"unsafe", "render", "io"} :
          Set(x, [pc |-> "cleanup", left |-> Kind, result |-> reason])
    BY <1>8 DEF WriteFails
  <2>2. /\ job'[x].pc = "cleanup" /\ job'[x].result = reason /\ job'[x].left = Kind
        /\ DOMAIN job'[x] = Fields
        /\ \A f \in Fields \ {"pc", "left", "result"} : job'[x][f] = job[x][f]
    BY <1>1, <2>1, SetIs DEF Fields
  <2>3. Filed(x)'
    BY <1>1, <1>2, <2>2 DEF Filed, Fields
  <2> QED BY <1>1, <2>2, <2>3, WritingRun DEF Releases
<1>9. CASE Examine(x) \/ Remove(x) \/ Discard(x)
  BY <1>9, RemovingRuns
<1> QED BY <1>3, <1>4, <1>4a, <1>5, <1>6, <1>7, <1>8, <1>9

(* A hosted run that commits what has passed the checks.                   *)
LEMMA CommittingRuns ==
  ASSUME WorldOK, WorldOK', Grows, DOMAIN job = Exporter, NEW x \in Exporter, RunOK(x), Commit(x)
  PROVE  RunOK(x)'
<1> USE DEF Steps, Early, Gating, Writing, Removing
<1>1. job[x].pc = "write" /\ job[x].kind = "hosted" /\ DOMAIN job[x] = Fields
  BY DEF Commit, At, RunOK, Typed
<1>2. CASE Retry(x) \/ Ends(x, "unknown")
  BY <1>1, <1>2, RunBreaksOff
<1>3. CASE Ends(x, "released")
  <2>1. /\ job'[x].pc = "done" /\ job'[x].result = "released" /\ DOMAIN job'[x] = Fields
        /\ \A f \in Fields \ {"pc", "result"} : job'[x][f] = job[x][f]
    BY <1>1, <1>3, SetIs DEF Fields, Ends
  <2>2. Typed(x)' /\ Unanswered(x)' /\ Filed(x)'
    BY <1>1, <2>1 DEF RunOK, Typed, Unanswered, Filed, Fields
  <2>3. Authorized(x)'
    BY <1>1, <2>1 DEF RunOK, Authorized, Releases, Fields
  <2>4. OneInstant(x)'
    <3>1. SourceOf(job'[x]) = SourceOf(job[x]) /\ instants' = instants
      BY <2>1 DEF SourceOf, Fields, Commit
    <3>2. job[x].view = "current" => OfOneInstant(x)
      BY <1>1 DEF RunOK, OneInstant, Releases
    <3>3. job[x].view = "current" => OfOneInstant(x)'
      BY <2>1, <3>1, <3>2 DEF OfOneInstant, Fields
    <3> QED BY <2>1, <3>3 DEF OneInstant, Fields
  <2>5. HeadsWereRead(x)'
    <3>1. /\ job'[x].e = job[x].e /\ job'[x].o = job[x].o
          /\ job'[x].c = job[x].c /\ job'[x].d = job[x].d
      BY <2>1 DEF Fields
    <3>2. /\ job[x].e <= Events' /\ job[x].o <= operations' /\ job[x].c <= coverage'
      BY DEF RunOK, HeadsWereRead, Commit, world, Events
    <3>3. /\ job[x].d \in Nat /\ Len(derived) \in Nat /\ Len(derived') \in Nat
          /\ job[x].d <= Len(derived) /\ Len(derived) <= Len(derived')
      <4>1. job[x].d \in Nat /\ job[x].d <= Len(derived)
        BY DEF RunOK, Typed, HeadsWereRead
      <4>2. Len(derived) \in Nat /\ Len(derived') \in Nat
        BY DEF WorldOK
      <4> QED BY <4>1, <4>2 DEF Grows
    <3>4. job[x].d <= Len(derived')
      BY <3>3
    <3> QED BY <2>1, <3>1, <3>2, <3>4 DEF HeadsWereRead
  <2> QED BY <2>2, <2>3, <2>4, <2>5 DEF RunOK
<1> QED BY <1>2, <1>3 DEF Commit
-----------------------------------------------------------------------------
(* The world, and the runs that only watch it.                             *)

(* Appending to the derived branch keeps what was there.                   *)
LEMMA DerivedGrows ==
  ASSUME WorldOK, NEW pair \in [Kind -> {None} \union Answer],
         derived' = Append(derived, pair),
         UNCHANGED <<history, operations, coverage, files, instants>>
  PROVE  WorldOK' /\ Grows
<1>1. /\ derived' \in Seq([Kind -> {None} \union Answer])
      /\ Len(derived') = Len(derived) + 1
      /\ \A i \in 1..Len(derived) : derived'[i] = derived[i]
      /\ Len(derived) \in Nat /\ Len(derived) >= 1
  BY DEF WorldOK
<1>2. Len(derived') >= 1 /\ Len(derived) <= Len(derived')
  BY <1>1
<1>3. Events' = Events /\ Events \in Nat
  BY DEF Events, WorldOK
<1> QED BY <1>1, <1>2, <1>3 DEF WorldOK, Grows, files

(* What a run renders is an answer. *)
LEMMA RenderedIsAnAnswer ==
  ASSUME NEW x \in Exporter, Typed(x)
  PROVE  [kind \in Kind |-> Rendered(job[x])] \in [Kind -> {None} \union Answer]
<1>1. SourceOf(job[x]) \in Nat
  BY DEF SourceOf, Typed
<1>2. Rendered(job[x]) \in Answer
  BY <1>1 DEF Rendered, Answer, Typed
<1> QED BY <1>2

(* So is what a rival makes of heads that were current together.           *)
RivalPair(t, view) ==
  [kind \in Kind |-> [source |-> t[1], view |-> view,
                      seen |-> IF view = "current" THEN Heads(t[2], t[3]) ELSE None]]

(* What another exporter answers is an answer of the history.              *)
LEMMA RivalIsAnAnswer ==
  ASSUME WorldOK, NEW t \in instants, NEW view \in View
  PROVE  /\ RivalPair(t, view) \in [Kind -> {None} \union Answer]
         /\ t = <<t[1], t[2], t[3]>>
<1>1. t \in Nat \X Nat \X Nat
  BY DEF WorldOK
<1>2. t[1] \in Nat /\ t[2] \in Nat /\ t[3] \in Nat /\ t = <<t[1], t[2], t[3]>>
  BY <1>1
<1>3. (IF view = "current" THEN Heads(t[2], t[3]) ELSE None) \in Observation
  BY <1>2 DEF Heads, Observation
<1>4. [source |-> t[1], view |-> view,
       seen |-> IF view = "current" THEN Heads(t[2], t[3]) ELSE None] \in Answer
  BY <1>2, <1>3 DEF Answer
<1> QED BY <1>2, <1>4 DEF RivalPair

(* A commit to a branch is recorded as an instant.                         *)
LEMMA HeadsMove ==
  ASSUME WorldOK, UNCHANGED <<derived, files>>, Witnessed,
         history' \in Seq(Authority), Events <= Events',
         operations' \in Nat, operations <= operations',
         coverage' \in Nat, coverage <= coverage'
  PROVE  WorldOK' /\ Grows
<1>1. instants' = instants \union {<<Events', operations', coverage'>>}
  BY DEF Witnessed, Events
<1>2. Events' \in Nat
  BY DEF Events
<1>3. <<Events', operations', coverage'>> \in Nat \X Nat \X Nat
  BY <1>2
<1>4. Len(derived) <= Len(derived')
  BY DEF WorldOK
<1> QED BY <1>1, <1>3, <1>4 DEF WorldOK, Grows, files

(* No step takes anything back.                                            *)
LEMMA WorldGrows ==
  ASSUME ExportIInv, [ExportNext]_exportVars
  PROVE  WorldOK' /\ Grows
<1>0. WorldOK /\ \A x \in Exporter : Typed(x)
  BY DEF ExportIInv, RunOK
<1>1. CASE UNCHANGED exportVars
  BY <1>0, <1>1, StillGrows DEF exportVars, world, Still
<1>2. ASSUME NEW x \in Exporter, Export(x) PROVE WorldOK' /\ Grows
  <2>1. CASE Alone
    BY <1>0, <2>1, StillGrows DEF Alone, world, Still
  <2>2. CASE Commit(x)
    <3>1. CASE HeadMatches(x)
      BY <1>0, <2>2, <3>1, RenderedIsAnAnswer, DerivedGrows DEF Commit, world
    <3>2. CASE ~ HeadMatches(x)
      BY <1>0, <2>2, <3>2, StillGrows DEF Commit, world, Still
    <3> QED BY <3>1, <3>2
  <2>3. CASE Link(x) \/ Remove(x)
    <3>1. UNCHANGED <<history, operations, coverage, member, derived, aside, slipped, instants>>
      BY <2>3 DEF Link, Remove, world
    <3>2. disk' \in [Kind -> {"free", "foreign", "ours", "alike"}]
      BY <1>0, <2>3 DEF Link, Remove, WorldOK
    <3>3. Grows
      BY <1>0, <3>1 DEF Grows, Events, WorldOK
    <3> QED BY <1>0, <3>1, <3>2, <3>3 DEF WorldOK, Events
  <2> QED BY <1>2, <2>1, <2>2, <2>3
          DEF Export, Open, ReadOperations, ReadCoverage, Authorize, RenderLocal, RenderHosted,
              RenderRetained, RenderFails, GateBefore, GateAuthorize, GateAfter, GateOperations,
              GateCoverage, CheckDestinations, Stage, Fill, Unstage, Sync, WriteFails, Examine, Discard
<1>3. ASSUME NEW authority \in Authority, Land(authority) PROVE WorldOK' /\ Grows
  <2>1. history' = Append(history, authority) /\ history \in Seq(Authority)
    BY <1>0, <1>3 DEF Land, WorldOK
  <2>2. history' \in Seq(Authority) /\ Len(history') = Len(history) + 1 /\ Len(history) \in Nat
    BY <2>1
  <2>3. Events <= Events'
    BY <2>2 DEF Events
  <2> QED BY <1>0, <1>3, <2>2, <2>3, HeadsMove DEF Land, WorldOK
<1>4. CASE MoveOperations \/ MoveCoverage
  <2>1. UNCHANGED <<history, derived, files>> /\ Witnessed /\ Events <= Events'
    BY <1>0, <1>4 DEF MoveOperations, MoveCoverage, Events, WorldOK
  <2>2. /\ operations' \in Nat /\ operations <= operations'
        /\ coverage' \in Nat /\ coverage <= coverage'
    BY <1>0, <1>4 DEF MoveOperations, MoveCoverage, WorldOK
  <2> QED BY <1>0, <2>1, <2>2, HeadsMove DEF WorldOK
<1>5. CASE MoveDerived
  <2>1. derived[Len(derived)] \in [Kind -> {None} \union Answer]
    BY <1>0 DEF WorldOK
  <2> QED BY <1>0, <1>5, <2>1, DerivedGrows DEF MoveDerived, world
<1>6. CASE RivalAnswers
  <2>1. PICK t \in instants, view \in View : derived' = Append(derived, RivalPair(t, view))
    BY <1>6 DEF RivalAnswers, RivalPair
  <2> QED BY <1>0, <1>6, <2>1, RivalIsAnAnswer, DerivedGrows DEF RivalAnswers, world
<1>7. CASE ChangeTeam
  BY <1>0, <1>7 DEF ChangeTeam, files, WorldOK, Grows, Events
<1>8. ASSUME NEW kind \in Kind, TouchDisk(kind) PROVE WorldOK' /\ Grows
  <2>1. disk' \in [Kind -> {"free", "foreign", "ours", "alike"}]
    BY <1>0, <1>8 DEF TouchDisk, Outcomes, WorldOK
  <2>2. aside' \in [Kind -> {"never", "away", "back"}]
    BY <1>0, <1>8 DEF TouchDisk, Outcomes, WorldOK
  <2>3. slipped' \subseteq Kind /\ UNCHANGED <<history, operations, coverage, derived, instants>>
    BY <1>0, <1>8 DEF TouchDisk, world, WorldOK
  <2> QED BY <1>0, <2>1, <2>2, <2>3 DEF WorldOK, Grows, Events
<1> QED BY <1>1, <1>2, <1>3, <1>4, <1>5, <1>6, <1>7, <1>8 DEF ExportNext, ExportRuns, Elsewhere, OnDisk
(* What others leave of a file that a run relies on.                       *)
Respected(x, kind) ==
  /\ Cleared(kind) => Cleared(kind)'
  /\ At(x, "remove") /\ kind = Entry(x) /\ NoForeignSeen(kind) => NoForeignSeen(kind)'

(* A run that does not step keeps what it relies on.                       *)
LEMMA WatchingRuns ==
  ASSUME WorldOK, WorldOK', Grows, NEW x \in Exporter, RunOK(x), job'[x] = job[x],
         job[x].kind = "local" => \A kind \in Kind : Respected(x, kind)
  PROVE  RunOK(x)'
<1>1. /\ Events \in Nat /\ Events' \in Nat /\ Events <= Events'
      /\ operations \in Nat /\ operations' \in Nat /\ operations <= operations'
      /\ coverage \in Nat /\ coverage' \in Nat /\ coverage <= coverage'
      /\ Len(derived) \in Nat /\ Len(derived') \in Nat /\ Len(derived) <= Len(derived')
  BY DEF WorldOK, Grows, Events
<1>2. PICK a \in Nat, b \in Nat, c \in Nat, d \in Nat :
        a = Events' /\ b = operations' /\ c = coverage' /\ d = Len(derived')
  BY <1>1
<1>3. Typed(x)'
  BY DEF RunOK, Typed
<1>4. /\ job[x].e \in Nat /\ job[x].o \in Nat /\ job[x].c \in Nat /\ job[x].d \in Nat
      /\ job[x].e <= Events /\ job[x].o <= operations /\ job[x].c <= coverage
      /\ job[x].d <= Len(derived)
      /\ job[x].pc \notin {"begin", "done"} => job[x].d >= 1
  BY DEF RunOK, Typed, HeadsWereRead
<1>5. /\ job[x].e <= Events' /\ (job[x].e < Events => job[x].e < Events')
      /\ job[x].o <= operations' /\ (job[x].o < operations => job[x].o < operations')
      /\ job[x].c <= coverage' /\ (job[x].c < coverage => job[x].c < coverage')
      /\ job[x].d <= Len(derived')
  <2>1. Events <= a /\ operations <= b /\ coverage <= c /\ Len(derived) <= d
    BY <1>1, <1>2
  <2>2. /\ job[x].e <= a /\ (job[x].e < Events => job[x].e < a)
        /\ job[x].o <= b /\ (job[x].o < operations => job[x].o < b)
        /\ job[x].c <= c /\ (job[x].c < coverage => job[x].c < c)
        /\ job[x].d <= d
    <3>0. PICK h \in Nat : h = Events
      BY <1>1
    <3>1. job[x].e <= a /\ (job[x].e < Events => job[x].e < a)
      <4>1. job[x].e \in Nat /\ job[x].e <= h /\ h <= a
        BY <1>4, <2>1, <3>0
      <4>2. job[x].e <= a /\ (job[x].e < h => job[x].e < a)
        BY <4>1
      <4> QED BY <3>0, <4>2
    <3>2. job[x].o <= b /\ (job[x].o < operations => job[x].o < b)
      <4>1. job[x].o \in Nat /\ operations \in Nat /\ job[x].o <= operations /\ operations <= b
        BY <1>1, <1>4, <2>1
      <4> QED BY <4>1
    <3>3. job[x].c <= c /\ (job[x].c < coverage => job[x].c < c)
      <4>1. job[x].c \in Nat /\ coverage \in Nat /\ job[x].c <= coverage /\ coverage <= c
        BY <1>1, <1>4, <2>1
      <4> QED BY <4>1
    <3>4. job[x].d <= d
      BY <1>1, <1>4, <2>1
    <3> QED BY <3>1, <3>2, <3>3, <3>4
  <2> QED BY <1>2, <2>2
<1>6. HeadsWereRead(x)'
  BY <1>4, <1>5 DEF HeadsWereRead
<1>7. Authorized(x)'
  BY <1>5 DEF RunOK, Authorized, Releases
<1>8. OneInstant(x)'
  <2>1. instants \subseteq instants' /\ (Releases(x)' <=> Releases(x))
    BY DEF Grows, Releases
  <2>2. OfOneInstant(x) => OfOneInstant(x)'
    BY <2>1 DEF OfOneInstant
  <2> QED BY <1>5, <2>1, <2>2 DEF RunOK, OneInstant
<1>9. Unanswered(x)'
  <2>1. job[x].pc \in Gating => job[x].d \in 1..Len(derived)
    BY <1>1, <1>4 DEF Gating
  <2> QED BY <2>1 DEF RunOK, Unanswered, Grows
<1>10. Filed(x)'
  <2>1. CASE job[x].kind = "hosted"
    BY <2>1 DEF Filed
  <2>2. CASE job[x].kind = "local"
    <3>1. Kind = {"json", "csv"} /\ Entry(x) \in Kind /\ Entry(x)' = Entry(x)
      BY DEF Kind, Entry
    <3>2. \A kind \in Kind : Settled(x, kind) => Settled(x, kind)'
      BY <2>2 DEF Settled, Respected
    <3>3. job[x].pc = "remove" => NoForeignSeen(Entry(x))'
      BY <2>2, <3>1 DEF RunOK, Filed, Respected, At
    <3>4. job[x].linked \subseteq Kind
      BY <2>2 DEF RunOK, Filed
    <3>5. \A kind \in job[x].linked : Cleared(kind) => Cleared(kind)'
      BY <2>2, <3>4 DEF Respected
    <3>6. Filed(x)
      BY DEF RunOK
    <3> QED BY <2>2, <3>1, <3>2, <3>3, <3>5, <3>6 DEF Filed
  <2> QED BY <2>1, <2>2 DEF RunOK, Typed
<1> QED BY <1>3, <1>6, <1>7, <1>8, <1>9, <1>10 DEF RunOK

(* Only the local run changes the files, and it keeps its kind.            *)
LEMMA StepOfOne ==
  ASSUME ExportIInv, NEW x \in Exporter, Export(x)
  PROVE  /\ DOMAIN job' = Exporter
         /\ \A y \in Exporter \ {x} : job'[y] = job[y]
         /\ job'[x].kind = job[x].kind
         /\ job[x].kind = "local" \/ UNCHANGED files
<1>1. DOMAIN job = Exporter /\ DOMAIN job[x] = Fields /\ Typed(x)
  BY DEF ExportIInv, RunOK, Typed
<1>2. \E changes : Set(x, changes) /\ "kind" \notin DOMAIN changes
  <2>1. CASE Open(x) \/ ReadOperations(x) \/ ReadCoverage(x) \/ Authorize(x)
    BY <2>1 DEF Open, ReadOperations, ReadCoverage, Authorize, Ends
  <2>2. CASE RenderLocal(x) \/ RenderHosted(x) \/ RenderRetained(x) \/ RenderFails(x)
    BY <2>2 DEF RenderLocal, RenderHosted, RenderRetained, RenderFails, Ends
  <2>3. CASE GateBefore(x) \/ GateAuthorize(x) \/ GateAfter(x) \/ GateOperations(x) \/ GateCoverage(x)
    BY <2>3 DEF GateBefore, GateAuthorize, GateAfter, GateOperations, GateCoverage, Ends, Retry
  <2>4. CASE Commit(x) \/ CheckDestinations(x) \/ Sync(x) \/ WriteFails(x)
    BY <2>4 DEF Commit, CheckDestinations, Sync, WriteFails, Ends, Retry
  <2>5. CASE Stage(x)
    BY <2>5 DEF Stage
  <2>5a. CASE Fill(x)
    BY <2>5a DEF Fill
  <2>6. CASE Link(x)
    BY <2>6 DEF Link
  <2>7. CASE Unstage(x)
    BY <2>7 DEF Unstage
  <2>8. CASE Examine(x) \/ Remove(x)
    BY <2>8 DEF Examine, Remove
  <2>9. CASE Discard(x)
    BY <2>9 DEF Discard
  <2> QED BY <2>1, <2>2, <2>3, <2>4, <2>5, <2>5a, <2>6, <2>7, <2>8, <2>9 DEF Export
<1>3. /\ DOMAIN job' = Exporter /\ \A y \in Exporter \ {x} : job'[y] = job[y]
      /\ job'[x].kind = job[x].kind
  BY <1>1, <1>2, SetIs DEF Fields
<1>4. CASE Link(x) \/ Remove(x)
  <2>1. job[x].kind = "local"
    BY <1>1, <1>4 DEF Link, Remove, At, Typed, Writing
  <2> QED BY <1>3, <2>1
<1>5. CASE ~ (Link(x) \/ Remove(x))
  <2>1. UNCHANGED files
    BY <1>5 DEF Export, Open, ReadOperations, ReadCoverage, Authorize, RenderLocal, RenderHosted,
                RenderRetained, RenderFails, GateBefore, GateAuthorize, GateAfter, GateOperations,
                GateCoverage, Commit, CheckDestinations, Stage, Fill, Unstage, Sync, WriteFails,
                Examine, Discard, Alone
  <2> QED BY <1>3, <2>1
<1> QED BY <1>4, <1>5

(* Another process may bring our file back, but then it has been aside;    *)
(* what it puts where the clean-up has looked is known to have slipped in. *)
LEMMA OthersRespect ==
  ASSUME WorldOK, NEW touched \in Kind, TouchDisk(touched), NEW x \in Exporter, NEW kind \in Kind
  PROVE  Respected(x, kind)
<1>1. PICK outcome \in Outcomes(touched) :
        /\ disk' = [disk EXCEPT ![touched] = outcome[1]]
        /\ aside' = [aside EXCEPT ![touched] = outcome[2]]
        /\ slipped' = IF outcome[1] = "foreign" /\ BeingRemoved(touched)
                      THEN slipped \union {touched} ELSE slipped
  BY DEF TouchDisk
<1>2. outcome[1] = "ours" => outcome[2] = "back"
  BY <1>1 DEF Outcomes
<1>3. Cleared(kind) => Cleared(kind)'
  BY <1>1, <1>2 DEF Cleared, WorldOK
<1>4. At(x, "remove") /\ kind = Entry(x) /\ NoForeignSeen(kind) => NoForeignSeen(kind)'
  BY <1>1 DEF NoForeignSeen, BeingRemoved, WorldOK
<1> QED BY <1>3, <1>4 DEF Respected

(* Every step keeps what each run holds.                                   *)
LEMMA RunsKept ==
  ASSUME ExportIInv, [ExportNext]_exportVars, NEW y \in Exporter
  PROVE  RunOK(y)'
<1>1. WorldOK /\ AnswersAreCoherent /\ DOMAIN job = Exporter /\ RunOK(y) /\ WorldOK' /\ Grows
  BY WorldGrows DEF ExportIInv
<1>2. ASSUME UNCHANGED files, NEW kind \in Kind PROVE Respected(y, kind)
  BY <1>2 DEF files, Respected, Cleared, NoForeignSeen
<1>3. ASSUME NEW x \in Exporter, Export(x) PROVE RunOK(y)'
  <2>1. CASE y = x
    BY <1>1, <1>3, <2>1, OpeningRuns, RenderingRuns, GatingRuns, CommittingRuns, WritingRuns DEF Export
  <2>2. CASE y # x
    <3>1. job'[y] = job[y]
      BY <1>3, <2>2, StepOfOne
    <3>2. job[y].kind = "local" => UNCHANGED files
      BY <1>3, <2>2, StepOfOne DEF ExportIInv, OneLocal
    <3> QED BY <1>1, <1>2, <3>1, <3>2, WatchingRuns
  <2> QED BY <2>1, <2>2
<1>4. CASE Elsewhere \/ OnDisk \/ UNCHANGED exportVars
  <2>1. job' = job /\ \A kind \in Kind : Respected(y, kind)
    <3>1. ASSUME NEW touched \in Kind, TouchDisk(touched)
          PROVE  job' = job /\ \A kind \in Kind : Respected(y, kind)
      BY <1>1, <3>1, OthersRespect DEF TouchDisk
    <3>2. CASE ~ \E touched \in Kind : TouchDisk(touched)
      <4>1. job' = job /\ UNCHANGED files
        BY <1>4, <3>2 DEF Elsewhere, OnDisk, Land, MoveOperations, MoveCoverage, MoveDerived, RivalAnswers,
                          ChangeTeam, exportVars
      <4> QED BY <1>2, <4>1
    <3> QED BY <3>1, <3>2
  <2> QED BY <1>1, <2>1, WatchingRuns
<1> QED BY <1>3, <1>4 DEF ExportNext, ExportRuns

(* Whatever is committed under a name of the derived branch is coherent.   *)
LEMMA AnswerAdded ==
  ASSUME WorldOK, AnswersAreCoherent, Grows, NEW pair, derived' = Append(derived, pair),
         \A kind \in Kind :
           pair[kind] # None /\ pair[kind].view = "current" =>
             <<pair[kind].source, pair[kind].seen.operations, pair[kind].seen.coverage>> \in instants
  PROVE  AnswersAreCoherent'
<1>1. Len(derived) \in Nat /\ Len(derived') = Len(derived) + 1 /\ derived'[Len(derived) + 1] = pair
  BY DEF WorldOK
<1>2. ASSUME NEW i \in 1..Len(derived'), i # Len(derived) + 1
      PROVE  i \in 1..Len(derived) /\ derived'[i] = derived[i]
  BY <1>1, <1>2 DEF Grows
<1>3. instants \subseteq instants'
  BY DEF Grows
<1> QED BY <1>1, <1>2, <1>3 DEF AnswersAreCoherent

(* Every step keeps the answers coherent.                                  *)
LEMMA AnswersKept ==
  ASSUME ExportIInv, [ExportNext]_exportVars
  PROVE  AnswersAreCoherent'
<1>1. WorldOK /\ AnswersAreCoherent /\ Grows
  BY WorldGrows DEF ExportIInv
<1>2. ASSUME UNCHANGED derived PROVE AnswersAreCoherent'
  BY <1>1, <1>2 DEF AnswersAreCoherent, Grows
<1>3. ASSUME NEW x \in Exporter, Export(x) PROVE AnswersAreCoherent'
  <2>1. CASE Commit(x) /\ HeadMatches(x)
    <3>1. derived' = Append(derived, [kind \in Kind |-> Rendered(job[x])])
      BY <2>1 DEF Commit
    <3>2. job[x].view = "current" => OfOneInstant(x)
      BY <2>1 DEF Commit, At, ExportIInv, RunOK, OneInstant, Releases
    <3> QED BY <1>1, <3>1, <3>2, AnswerAdded DEF Rendered, OfOneInstant
  <2>2. CASE ~ (Commit(x) /\ HeadMatches(x))
    BY <1>2, <1>3, <2>2
       DEF Export, Open, ReadOperations, ReadCoverage, Authorize, RenderLocal, RenderHosted,
           RenderRetained, RenderFails, GateBefore, GateAuthorize, GateAfter, GateOperations,
           GateCoverage, Commit, CheckDestinations, Stage, Fill, Link, Unstage, Sync, WriteFails, Examine, Remove,
           Discard, Alone
  <2> QED BY <2>1, <2>2
<1>4. CASE MoveDerived
  <2>1. derived' = Append(derived, derived[Len(derived)]) /\ Len(derived) \in 1..Len(derived)
    BY <1>1, <1>4 DEF MoveDerived, WorldOK
  <2> QED BY <1>1, <2>1, AnswerAdded DEF AnswersAreCoherent
<1>5. CASE RivalAnswers
  <2>1. PICK t \in instants, view \in View : derived' = Append(derived, RivalPair(t, view))
    BY <1>5 DEF RivalAnswers, RivalPair
  <2>2. t = <<t[1], t[2], t[3]>>
    BY <1>1, RivalIsAnAnswer
  <2> QED BY <1>1, <2>1, <2>2, AnswerAdded DEF RivalPair, Heads
<1>6. CASE UNCHANGED derived
  BY <1>2, <1>6
<1> QED BY <1>3, <1>4, <1>5, <1>6
        DEF ExportNext, ExportRuns, Elsewhere, OnDisk, Land, MoveOperations, MoveCoverage, ChangeTeam, TouchDisk, exportVars

(* At first nobody has asked or answered anything.                         *)
LEMMA ExportInitOK == ExportInit => ExportIInv
<1> SUFFICES ASSUME ExportInit PROVE ExportIInv
  OBVIOUS
<1>1. /\ DOMAIN job = Exporter /\ OneLocal
      /\ \A x \in Exporter :
           \/ \E v \in View, p \in {"reader", "stranger"} : job[x] = Fresh("local", v, None, p)
           \/ \E v \in View : job[x] = Fresh("hosted", v, 1, "reader")
  BY DEF ExportInit, OneLocal
<1>2. PICK a \in Authority : history = <<a>>
  BY DEF ExportInit
<1>3. history \in Seq(Authority) /\ Events = 1
  BY <1>2 DEF Events
<1>4. Unreadable \in Answer
  BY DEF Unreadable, Answer, View, Observation
<1>5. NoPair \in [Kind -> {None} \union Answer]
      /\ [NoPair EXCEPT !["json"] = Unreadable] \in [Kind -> {None} \union Answer]
  BY <1>4 DEF NoPair
<1>6. derived \in Seq([Kind -> {None} \union Answer]) /\ Len(derived) = 1
  <2>1. \E pair \in [Kind -> {None} \union Answer] : derived = <<pair>>
    BY <1>5 DEF ExportInit
  <2> QED BY <2>1
<1>7. /\ operations = 1 /\ coverage = 1 /\ instants = {<<1, 1, 1>>}
      /\ disk \in [Kind -> {"free", "foreign", "ours", "alike"}]
      /\ aside \in [Kind -> {"never", "away", "back"}] /\ slipped \subseteq Kind
  BY DEF ExportInit
<1>8. WorldOK
  BY <1>3, <1>6, <1>7 DEF WorldOK
<1>9. AnswersAreCoherent
  <2>1. ASSUME NEW kind \in Kind
        PROVE  derived[1][kind] = None \/ derived[1][kind].view = "history"
    BY DEF ExportInit, NoPair, Unreadable
  <2> QED BY <1>6, <2>1 DEF AnswersAreCoherent
<1>10. ASSUME NEW x \in Exporter PROVE RunOK(x)
  <2>1. /\ DOMAIN job[x] = Fields /\ job[x].kind \in {"local", "hosted"} /\ job[x].view \in View
        /\ job[x].kind = "local" => job[x].source = None
        /\ job[x].kind = "hosted" => job[x].source = 1
        /\ job[x].pc = "begin" /\ job[x].e = 0 /\ job[x].o = 0 /\ job[x].c = 0 /\ job[x].d = 0
        /\ job[x].seen = None /\ job[x].retained = FALSE /\ job[x].result = None
        /\ job[x].stage = {} /\ job[x].linked = {}
    BY <1>1 DEF Fresh, Fields
  <2>2. Typed(x)
    <3>1. job[x].pc \in Steps /\ job[x].pc \notin Writing
      BY <2>1 DEF Steps, Early, Writing
    <3>2. job[x].source \in Nat \union {None} /\ job[x].seen \in Observation
      BY <2>1 DEF Observation
    <3>3. /\ job[x].e \in Nat /\ job[x].o \in Nat /\ job[x].c \in Nat /\ job[x].d \in Nat
      BY <2>1
    <3>4. job[x].retained \in BOOLEAN /\ ~ job[x].retained
      <4>1. job[x].retained = FALSE
        BY <2>1
      <4> QED BY <4>1
    <3> QED BY <2>1, <3>1, <3>2, <3>3, <3>4 DEF Typed
  <2>3. HeadsWereRead(x)
    BY <1>3, <1>6, <1>7, <2>1 DEF HeadsWereRead
  <2>4. Authorized(x) /\ OneInstant(x) /\ Unanswered(x) /\ Filed(x)
    BY <2>1, NoneIsNoResult DEF Authorized, OneInstant, Unanswered, Filed, Releases, Gating, Writing, Removing
  <2> QED BY <2>2, <2>3, <2>4 DEF RunOK
<1> QED BY <1>1, <1>8, <1>9, <1>10 DEF ExportIInv

(* The invariant is inductive.                                             *)
LEMMA ExportKept == ExportIInv /\ [ExportNext]_exportVars => ExportIInv'
<1> SUFFICES ASSUME ExportIInv, [ExportNext]_exportVars PROVE ExportIInv'
  OBVIOUS
<1>1. WorldOK' /\ AnswersAreCoherent' /\ \A x \in Exporter : RunOK(x)'
  BY WorldGrows, AnswersKept, RunsKept
<1>2. DOMAIN job' = Exporter
  <2>1. ASSUME NEW x \in Exporter, Export(x) PROVE DOMAIN job' = Exporter
    BY <2>1, StepOfOne
  <2> QED BY <2>1 DEF ExportIInv, ExportNext, ExportRuns, Elsewhere, OnDisk, Land, MoveOperations, MoveCoverage, MoveDerived,
                      RivalAnswers, ChangeTeam, TouchDisk, exportVars
<1>3. \A x \in Exporter : job'[x].kind = job[x].kind
  <2>1. ASSUME NEW x \in Exporter, Export(x)
        PROVE  \A y \in Exporter : job'[y].kind = job[y].kind
    BY <2>1, StepOfOne
  <2> QED BY <2>1 DEF ExportIInv, ExportNext, ExportRuns, Elsewhere, OnDisk, Land, MoveOperations, MoveCoverage, MoveDerived,
                      RivalAnswers, ChangeTeam, TouchDisk, exportVars
<1> QED BY <1>1, <1>2, <1>3 DEF ExportIInv, OneLocal

-----------------------------------------------------------------------------
(* authorize_reader and _final_gate: whatever is released was asked for by *)
(* one who had authority, by the events and the team of that moment.       *)
THEOREM ReadersAlone == ExportSpec => []ReleasedToReaders
<1>1. ExportIInv => ReleasedToReaders
  BY DEF ExportIInv, RunOK, Authorized, ReleasedToReaders
<1> QED BY <1>1, ExportInitOK, ExportKept, PTL DEF ExportSpec

(* _final_gate: the three heads of a current view, read one by one and     *)
(* checked one by one, were current together.                              *)
THEOREM CurrentTogether == ExportSpec => []CurrentViewsAreCoherent
<1>1. ExportIInv => CurrentViewsAreCoherent
  BY DEF ExportIInv, RunOK, OneInstant, OfOneInstant, CurrentViewsAreCoherent
<1> QED BY <1>1, ExportInitOK, ExportKept, PTL DEF ExportSpec

(* _LocalFiles: both files or, unless the file system fails, none.         *)
THEOREM BothFilesOrNone == ExportSpec => []LocalAllOrNothing
<1>1. ExportIInv => LocalAllOrNothing
  <2> SUFFICES ASSUME ExportIInv, NEW x \in Exporter, job[x].kind = "local", At(x, "done")
               PROVE  /\ job[x].result = "released" => job[x].linked = Kind /\ job[x].stage = {}
                      /\ job[x].result \in {"unsafe", "render"} =>
                           /\ job[x].stage = {}
                           /\ \A kind \in job[x].linked : disk[kind] = "ours" => aside[kind] # "never"
    BY DEF LocalAllOrNothing
  <2> QED BY DEF ExportIInv, RunOK, Filed, Cleared, At
<1> QED BY <1>1, ExportInitOK, ExportKept, PTL DEF ExportSpec

(* The head of the derived branch is moved by those who found no answer    *)
(* under the request at that very head.                                    *)
LEMMA AnswersStay ==
  ASSUME ExportIInv, [ExportNext]_exportVars, NEW kind \in Kind,
         derived[Len(derived)][kind] # None
  PROVE  derived'[Len(derived')][kind] = derived[Len(derived)][kind]
<1>1. derived \in Seq([Kind -> {None} \union Answer]) /\ Len(derived) \in 1..Len(derived)
  BY DEF ExportIInv, WorldOK
<1>2. ASSUME NEW x \in Exporter, Export(x) PROVE UNCHANGED derived
  <2>1. CASE Commit(x)
    <3>1. job[x].kind = "hosted" /\ job[x].pc = "write" /\ ~ job[x].retained
      BY <2>1 DEF Commit, At, ExportIInv, RunOK, Typed
    <3>2. derived[job[x].d][kind] = None
      BY <3>1 DEF ExportIInv, RunOK, Unanswered, Gating
    <3> QED BY <2>1, <3>2 DEF Commit, HeadMatches
  <2>2. CASE ~ Commit(x)
    BY <1>2, <2>2
       DEF Export, Open, ReadOperations, ReadCoverage, Authorize, RenderLocal, RenderHosted,
           RenderRetained, RenderFails, GateBefore, GateAuthorize, GateAfter, GateOperations,
           GateCoverage, CheckDestinations, Stage, Fill, Link, Unstage, Sync, WriteFails, Examine, Remove,
           Discard, Alone
  <2> QED BY <2>1, <2>2
<1>3. CASE MoveDerived
  <2>1. derived' = Append(derived, derived[Len(derived)])
    BY <1>3 DEF MoveDerived
  <2> QED BY <1>1, <2>1
<1>4. ~ RivalAnswers
  BY DEF RivalAnswers, NoPair
<1> QED BY <1>2, <1>3, <1>4
        DEF ExportNext, ExportRuns, Elsewhere, OnDisk, Land, MoveOperations, MoveCoverage, ChangeTeam, TouchDisk, exportVars

(* _publish_hosted: the answer to a request, once committed, stays what it *)
(* was, whatever runs race for it.                                         *)
THEOREM AnsweredOnce == ExportSpec => RequestsAreAnsweredOnce
<1>1. ExportIInv /\ [ExportNext]_exportVars =>
        [\A kind \in Kind :
           derived[Len(derived)][kind] # None =>
             derived'[Len(derived')][kind] = derived[Len(derived)][kind]]_exportVars
  BY AnswersStay
<1> QED BY <1>1, ExportInitOK, ExportKept, PTL DEF ExportSpec, RequestsAreAnsweredOnce

(* _LocalFiles: no run takes, replaces or removes a file of another, but    *)
(* one that slipped in between the look and the removal.                   *)
LEMMA ForeignStay ==
  ASSUME ExportIInv, [ExportNext]_exportVars, \E x \in Exporter : job'[x] # job[x],
         NEW kind \in Kind \ slipped, disk[kind] = "foreign"
  PROVE  disk'[kind] = "foreign"
<1>1. ASSUME NEW x \in Exporter, Export(x) PROVE disk'[kind] = "foreign"
  <2>1. CASE Link(x)
    BY <2>1 DEF Link, MayLink, ExportIInv, WorldOK
  <2>2. CASE Remove(x)
    <3>1. job[x].pc = "remove" /\ job[x].kind = "local"
      BY <2>2 DEF Remove, At, ExportIInv, RunOK, Typed, Writing
    <3>2. Entry(x) # kind
      BY <3>1 DEF ExportIInv, RunOK, Filed, NoForeignSeen
    <3> QED BY <2>2, <3>2 DEF Remove, ExportIInv, WorldOK
  <2>3. CASE ~ (Link(x) \/ Remove(x))
    BY <1>1, <2>3
       DEF Export, Open, ReadOperations, ReadCoverage, Authorize, RenderLocal, RenderHosted,
           RenderRetained, RenderFails, GateBefore, GateAuthorize, GateAfter, GateOperations,
           GateCoverage, Commit, CheckDestinations, Stage, Fill, Unstage, Sync, WriteFails, Examine,
           Discard, Alone, files
  <2> QED BY <2>1, <2>2, <2>3
<1>2. ~ Elsewhere /\ ~ OnDisk /\ ~ UNCHANGED exportVars
  BY DEF Elsewhere, OnDisk, Land, MoveOperations, MoveCoverage, MoveDerived, RivalAnswers, ChangeTeam, TouchDisk,
         exportVars
<1> QED BY <1>1, <1>2 DEF ExportNext, ExportRuns

(* _LocalFiles: no run, stopped wherever it may be, takes, replaces or     *)
(* removes a file of another under one of the two names, unless it was put *)
(* there between the look at the name and its removal (slipped), or bears  *)
(* the inode number of ours.                                               *)
THEOREM ForeignFilesAreLeft == ExportSpec => ForeignFilesSurvive
<1>1. ExportIInv /\ [ExportNext]_exportVars =>
        [(\E x \in Exporter : job'[x] # job[x]) =>
           \A kind \in Kind \ slipped : disk[kind] = "foreign" => disk'[kind] = "foreign"]_exportVars
  BY ForeignStay
<1> QED BY <1>1, ExportInitOK, ExportKept, PTL DEF ExportSpec, ForeignFilesSurvive
=============================================================================
