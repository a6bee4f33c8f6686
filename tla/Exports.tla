------------------------------- MODULE Exports -------------------------------
(***************************************************************************)
(* Authenticated exports (records/exports.py): what a reader is given of   *)
(* the canonical history, and when.                                        *)
(*                                                                         *)
(*   local   writes a JSON and a CSV file next to each other               *)
(*   hosted  commits both, encrypted, to the derived branch, under the     *)
(*           name of its request; a request that is already there is       *)
(*           rendered again and must come out the same                     *)
(*                                                                         *)
(* The branches only grow, so a head is a number.  history[e] is what the  *)
(* canonical history up to its commit e says of the one reader the model   *)
(* follows: whether a source names them (direct), and whether a continuous *)
(* rule names their team (team), which counts while the provider says they *)
(* are a member.  Anyone else is a stranger.  An export is known by what   *)
(* it was rendered from: the source, the view and, for the current view,   *)
(* the heads of the operations and coverage branches.                      *)
(***************************************************************************)
EXTENDS Naturals, Sequences, FiniteSets

CONSTANTS
  Exporter,     \* export runs
  MaxAttempts,  \* max_mutation_retries
  MaxHead,      \* bound: commits of each branch
  None

ASSUME NoneIsNoResult == None \notin {"released", "reused", "unsafe", "render"}

Kind == {"json", "csv"}
View == {"current", "history"}
Authority == {"direct", "team", "none"}

VARIABLES
  history,     \* the events branch
  operations,  \* its head, and that of the coverage branch
  coverage,
  member,      \* the provider's answer on the reader's team
  derived,     \* the request's pair, at each commit of the derived branch
  disk,        \* what bears the name of each destination
  aside,       \* others moved our file there: "never", it is "away", or "back"
  job,         \* one record per export run
  instants,    \* history: the heads that were ever current together
  slipped      \* history: names that were filled just before they were removed

world == <<history, operations, coverage, member>>

files == <<disk, aside, slipped>>

exportVars == <<world, derived, files, job, instants>>

Events == Len(history)

NoPair == [kind \in Kind |-> None]

(* A file that is no rendering of any request. *)
Unreadable == [source |-> 0, view |-> "history", seen |-> None]

Heads(o, c) == [operations |-> o, coverage |-> c]

Fresh(kind, view, source, who) ==
  [kind |-> kind, view |-> view, source |-> source, who |-> who,
   pc |-> "begin", attempt |-> 1, e |-> 0, o |-> 0, c |-> 0, d |-> 0,
   seen |-> None, retained |-> FALSE,
   proof |-> None, stage |-> {}, linked |-> {}, left |-> {}, result |-> None]

(* A local export may start on its current source only, or on an old one   *)
(* for the history; a hosted one always names its source.                  *)
ExportInit ==
  /\ history \in {<<a>> : a \in Authority}
  /\ operations = 1 /\ coverage = 1
  /\ member \in BOOLEAN
  /\ derived \in {<<NoPair>>, <<[NoPair EXCEPT !["json"] = Unreadable]>>}
  /\ disk = [kind \in Kind |-> "free"]
  /\ aside = [kind \in Kind |-> "never"]
  /\ slipped = {}
  /\ job \in [Exporter -> {Fresh("local", v, None, p) : v \in View, p \in {"reader", "stranger"}}
                            \union {Fresh("hosted", v, 1, "reader") : v \in View}]
  /\ \A x, y \in Exporter : x # y => "hosted" \in {job[x].kind, job[y].kind}
  /\ instants = {<<1, 1, 1>>}

Witnessed == instants' = instants \union {<<Len(history'), operations', coverage'>>}

At(x, pc) == job[x].pc = pc

Set(x, changes) ==
  job' = [job EXCEPT ![x] = [f \in DOMAIN @ |-> IF f \in DOMAIN changes THEN changes[f] ELSE @[f]]]

Ends(x, result) == Set(x, [pc |-> "done", result |-> result])

Alone == UNCHANGED <<world, derived, files, instants>>

-----------------------------------------------------------------------------
(* Opening: the heads are read one after the other.                        *)

Open(x) ==
  /\ At(x, "begin")
  /\ IF job[x].attempt > MaxAttempts THEN Ends(x, "snapshot-changed")
     ELSE Set(x, [pc |-> "operations", e |-> Events, d |-> Len(derived), proof |-> None])
  /\ Alone

ReadOperations(x) ==
  /\ At(x, "operations")
  /\ Set(x, [pc |-> "coverage", o |-> operations])
  /\ Alone

ReadCoverage(x) ==
  /\ At(x, "coverage")
  /\ Set(x, [pc |-> "authorize", c |-> coverage])
  /\ Alone

-----------------------------------------------------------------------------
(* authorize_reader: a source that names the principal, or a continuous    *)
(* rule and a fresh answer that they are of its team.  An unanswered       *)
(* membership never grants.                                                *)

Granted(who, authority, isMember) ==
  who = "reader" /\ (authority = "direct" \/ (authority = "team" /\ isMember))

(* What authority there is now, whatever the export believes.              *)
ProofNow(who) == Granted(who, history[Events], member)

MayBeGranted(x) == Granted(job[x].who, history[job[x].e], member)

Authorize(x) ==
  /\ At(x, "authorize")
  /\ \/ MayBeGranted(x) /\ Set(x, [pc |-> "render"])
     \/ Ends(x, "reader-denied")
  /\ Alone

SourceOf(j) == IF j.source = None THEN j.e ELSE j.source

Observed(j) == IF j.view = "current" THEN Heads(j.o, j.c) ELSE None

Rendered(j) == [source |-> SourceOf(j), view |-> j.view, seen |-> j.seen]

(* What a hosted export finds under its request.                           *)
Pair(x) == derived[job[x].d]

Present(x) == {kind \in Kind : Pair(x)[kind] # None}

RenderLocal(x) ==
  /\ At(x, "render")
  /\ job[x].kind = "local"
  /\ Set(x, [pc |-> "gate", seen |-> Observed(job[x])])
  /\ Alone

RenderHosted(x) ==
  /\ At(x, "render")
  /\ job[x].kind = "hosted"
  /\ Present(x) = {}
  /\ job[x].view = "current" => job[x].source = job[x].e
  /\ Set(x, [pc |-> "gate", seen |-> Observed(job[x]), retained |-> FALSE])
  /\ Alone

(* The retained pair carries its own observation, and must be what this    *)
(* request renders to from it.                                             *)
RenderRetained(x) ==
  /\ At(x, "render")
  /\ job[x].kind = "hosted"
  /\ Present(x) = Kind
  /\ LET pair == Pair(x) IN
     \A kind \in Kind : pair[kind] = Rendered([job[x] EXCEPT !.seen = pair[kind].seen])
  /\ Set(x, [pc |-> "gate", seen |-> Pair(x)["json"].seen, retained |-> TRUE])
  /\ Alone

(* A conflict, a succeeded project, a limit, or guards that do not bind.   *)
RenderFails(x) ==
  /\ At(x, "render")
  /\ Ends(x, "refused")
  /\ Alone

-----------------------------------------------------------------------------
(* _final_gate *)

Retry(x) == Set(x, [pc |-> "begin", attempt |-> job[x].attempt + 1])

HeadHeld(x) == Events = job[x].e

HeadAssumed(x) == TRUE

GateBefore(x) ==
  /\ At(x, "gate")
  /\ IF HeadHeld(x) THEN Set(x, [pc |-> "gateWho"]) ELSE Retry(x)
  /\ Alone

(* The principal authenticates anew and is authorized anew, by the events  *)
(* the export was opened at and by the membership of this moment.          *)
GateAuthorize(x) ==
  /\ At(x, "gateWho")
  /\ \/ MayBeGranted(x) /\ Set(x, [pc |-> "gateAfter", proof |-> ProofNow(job[x].who)])
     \/ Ends(x, "reader-denied")
  /\ Alone

HeadStillHeld(x) == HeadHeld(x)

GateAfter(x) ==
  /\ At(x, "gateAfter")
  /\ IF ~ HeadStillHeld(x) THEN Retry(x)
     ELSE IF job[x].retained THEN Ends(x, "reused")
     ELSE IF job[x].view = "current" THEN Set(x, [pc |-> "gateOperations"])
     ELSE Set(x, [pc |-> "write"])
  /\ Alone

OperationsHeld(x) == operations = job[x].o

GateOperations(x) ==
  /\ At(x, "gateOperations")
  /\ IF OperationsHeld(x) THEN Set(x, [pc |-> "gateCoverage"]) ELSE Retry(x)
  /\ Alone

GateCoverage(x) ==
  /\ At(x, "gateCoverage")
  /\ IF coverage = job[x].c THEN Set(x, [pc |-> "write"]) ELSE Retry(x)
  /\ Alone

-----------------------------------------------------------------------------
(* Hosted publication: one conditional commit of both files.               *)

HeadUnconditional(x) == TRUE

HeadMatches(x) == Len(derived) = job[x].d

Commit(x) ==
  /\ At(x, "write")
  /\ job[x].kind = "hosted"
  /\ IF HeadMatches(x)
     THEN /\ derived' = Append(derived, [kind \in Kind |-> Rendered(job[x])])
          /\ Ends(x, "released") \/ Ends(x, "unknown")
     ELSE /\ UNCHANGED derived
          /\ Retry(x) \/ Ends(x, "unknown")
  /\ UNCHANGED <<world, files, instants>>

-----------------------------------------------------------------------------
(* Local publication: _LocalFiles.  Every file is staged before any is     *)
(* linked to its destination.  A name of a destination leads to nothing     *)
(* ("free"), to the file of the run ("ours"), to a file of another process *)
(* ("foreign"), or to one that was given the inode number of ours once our *)
(* file was gone ("alike"): nothing is held open, and numbers are used     *)
(* again.  The names of stages are random, and left alone by others.       *)

(* _LocalFiles refuses a destination that exists; export_local makes it    *)
(* only when it writes, after the last check.                              *)
CheckDestinations(x) ==
  /\ At(x, "write")
  /\ job[x].kind = "local"
  /\ IF \A kind \in Kind : disk[kind] = "free" THEN Set(x, [pc |-> "stage"])
     ELSE Ends(x, "unsafe")
  /\ Alone

Stage(x) ==
  /\ At(x, "stage")
  /\ \E kind \in Kind \ job[x].stage :
       /\ kind = "json" \/ "json" \in job[x].stage
       /\ Set(x, [stage |-> job[x].stage \union {kind}, pc |-> "fill"])
  /\ Alone

Fill(x) ==
  /\ At(x, "fill")
  /\ Set(x, [pc |-> IF job[x].stage = Kind THEN "link" ELSE "stage"])
  /\ Alone

MayLink(kind) == disk[kind] = "free"

Link(x) ==
  /\ At(x, "link")
  /\ \E kind \in Kind \ job[x].linked :
       /\ kind = "json" \/ "json" \in job[x].linked
       /\ MayLink(kind)
       /\ disk' = [disk EXCEPT ![kind] = "ours"]
       /\ Set(x, [linked |-> job[x].linked \union {kind}, pc |-> "unstage"])
  /\ UNCHANGED <<world, derived, aside, slipped, instants>>

Unstage(x) ==
  /\ At(x, "unstage")
  /\ LET kind == IF "csv" \in job[x].linked THEN "csv" ELSE "json" IN
     Set(x, [stage |-> job[x].stage \ {kind}, pc |-> "sync"])
  /\ Alone

Sync(x) ==
  /\ At(x, "sync")
  /\ IF job[x].linked = Kind THEN Ends(x, "released") ELSE Set(x, [pc |-> "link"])
  /\ Alone

(* A rendering that fails, an error of the file system, or a destination   *)
(* that was taken in the meantime.                                         *)
WriteFails(x) ==
  /\ job[x].pc \in {"stage", "fill", "link", "unstage", "sync"}
  /\ \E reason \in {"unsafe", "render", "io"} :
       Set(x, [pc |-> "cleanup", left |-> Kind, result |-> reason])
  /\ Alone

-----------------------------------------------------------------------------
(* The clean-up goes through the files, the JSON one first: it looks at    *)
(* the published name, removes it if it bears the inode number of the      *)
(* file, and removes the stage.  Every name is tried; a failure is reported *)
(* over the first error.                                                   *)

Entry(x) == IF "json" \in job[x].left THEN "json" ELSE "csv"

AnyInode(kind) == TRUE

SameInode(kind) == disk[kind] \in {"ours", "alike"}

PublishedWhenUnstaged(x) == job[x].linked \ job[x].stage

Published(x) == job[x].linked

(* os.stat on the name of a file that was published. *)
Examine(x) ==
  /\ At(x, "cleanup")
  /\ LET kind == Entry(x)
         shown == kind \in Published(x) /\ disk[kind] # "free" /\ SameInode(kind)
     IN \/ Set(x, [pc |-> IF shown THEN "remove" ELSE "discard"])
        \/ kind \in Published(x) /\ Set(x, [pc |-> "discard", result |-> "io"])
  /\ Alone

(* os.unlink, on whatever bears the name by now; nothing is fine as well.  *)
Remove(x) ==
  /\ At(x, "remove")
  /\ \/ disk' = [disk EXCEPT ![Entry(x)] = "free"] /\ Set(x, [pc |-> "discard"])
     \/ UNCHANGED disk /\ Set(x, [pc |-> "discard", result |-> "io"])
  /\ UNCHANGED <<world, derived, aside, slipped, instants>>

(* The same for the stage, in one step. *)
Discard(x) ==
  /\ At(x, "discard")
  /\ \E failed \in {FALSE, Entry(x) \in job[x].stage \union job[x].linked} :
       Set(x, [stage  |-> IF failed THEN job[x].stage ELSE job[x].stage \ {Entry(x)},
               result |-> IF failed THEN "io" ELSE job[x].result,
               left   |-> job[x].left \ {Entry(x)},
               pc     |-> IF job[x].left = {Entry(x)} THEN "done" ELSE "cleanup"])
  /\ Alone

-----------------------------------------------------------------------------
(* Around the exports.  What no run will look at any more stands still.    *)

Writing == {"stage", "fill", "link", "unstage", "sync", "cleanup", "remove", "discard"}

Watched == \E x \in Exporter : job[x].pc \notin Writing \union {"done"}

DerivedWatched == \E x \in Exporter : job[x].kind = "hosted" /\ ~ At(x, "done")

Land(authority) ==
  /\ Watched /\ Events < MaxHead
  /\ history' = Append(history, authority)
  /\ UNCHANGED <<operations, coverage, member, derived, files, job>>
  /\ Witnessed

MoveOperations ==
  /\ Watched /\ operations < MaxHead
  /\ operations' = operations + 1
  /\ UNCHANGED <<history, coverage, member, derived, files, job>>
  /\ Witnessed

MoveCoverage ==
  /\ Watched /\ coverage < MaxHead
  /\ coverage' = coverage + 1
  /\ UNCHANGED <<history, operations, member, derived, files, job>>
  /\ Witnessed

(* The reconciler renews the private projection and keeps the exports.     *)
MoveDerived ==
  /\ DerivedWatched /\ Len(derived) < MaxHead
  /\ derived' = Append(derived, derived[Len(derived)])
  /\ UNCHANGED <<world, files, job, instants>>

ChangeTeam ==
  /\ Watched
  /\ member' = ~ member
  /\ UNCHANGED <<history, operations, coverage, derived, files, job, instants>>

(* Another run answers the same request, or another one under its name.    *)
RivalAnswers ==
  /\ DerivedWatched /\ Len(derived) < MaxHead
  /\ derived[Len(derived)] = NoPair
  /\ \E t \in instants, view \in View :
       LET seen == IF view = "current" THEN Heads(t[2], t[3]) ELSE None IN
       derived' = Append(derived,
                    [kind \in Kind |-> [source |-> t[1], view |-> view, seen |-> seen]])
  /\ UNCHANGED <<world, files, job, instants>>

(* Another process of the same user changes a name while the files are     *)
(* written: it deletes what is there, puts a file of its own in its place, *)
(* one that is given the number of ours if ours is gone, or moves ours     *)
(* away and back.                                                          *)
InodeIsFree(kind) ==
  /\ disk[kind] = "free" /\ aside[kind] # "away"
  /\ \E x \in Exporter : kind \in job[x].linked \ job[x].stage

Outcomes(kind) ==
  {<<"free", aside[kind]>>, <<"foreign", aside[kind]>>}
  \union (IF InodeIsFree(kind) THEN {<<"alike", aside[kind]>>} ELSE {})
  \union (IF disk[kind] = "ours" THEN {<<"free", "away">>} ELSE {})
  \union (IF aside[kind] = "away" THEN {<<"ours", "back">>} ELSE {})

BeingRemoved(kind) == \E x \in Exporter : At(x, "remove") /\ Entry(x) = kind

TouchDisk(kind) ==
  /\ \E x \in Exporter : job[x].kind = "local" /\ job[x].pc \in Writing \union {"write"}
  /\ \E outcome \in Outcomes(kind) :
       /\ disk' = [disk EXCEPT ![kind] = outcome[1]]
       /\ aside' = [aside EXCEPT ![kind] = outcome[2]]
       /\ slipped' = IF outcome[1] = "foreign" /\ BeingRemoved(kind)
                     THEN slipped \union {kind} ELSE slipped
  /\ UNCHANGED <<world, derived, job, instants>>

Export(x) ==
  \/ Open(x) \/ ReadOperations(x) \/ ReadCoverage(x) \/ Authorize(x)
  \/ RenderLocal(x) \/ RenderHosted(x) \/ RenderRetained(x) \/ RenderFails(x)
  \/ GateBefore(x) \/ GateAuthorize(x) \/ GateAfter(x) \/ GateOperations(x) \/ GateCoverage(x)
  \/ Commit(x)
  \/ CheckDestinations(x) \/ Stage(x) \/ Fill(x) \/ Link(x) \/ Unstage(x) \/ Sync(x)
  \/ WriteFails(x) \/ Examine(x) \/ Remove(x) \/ Discard(x)

Elsewhere ==
  \/ \E authority \in Authority : Land(authority)
  \/ MoveOperations \/ MoveCoverage \/ MoveDerived \/ RivalAnswers \/ ChangeTeam

OnDisk == \E kind \in Kind : TouchDisk(kind)

ExportRuns == \E x \in Exporter : Export(x)

ExportNext == ExportRuns \/ Elsewhere \/ OnDisk

ExportSpec == ExportInit /\ [][ExportNext]_exportVars

-----------------------------------------------------------------------------
Releases(x) ==
  \/ job[x].pc \in {"write", "stage", "fill", "link", "unstage", "sync"}
  \/ job[x].result \in {"released", "reused"}

(* Nothing is released to one who was not a reader: between the opening    *)
(* and the release there was a moment when the principal had authority by  *)
(* the events and the team as they were at that moment.  A withdrawal that *)
(* landed before the last check is never missed.                           *)
ReleasedToReaders == \A x \in Exporter : Releases(x) => job[x].proof = TRUE

(* A current view is of one instant: its events, operations and coverage   *)
(* heads were current together, though each was read on its own.           *)
CurrentViewsAreCoherent ==
  \A x \in Exporter :
    Releases(x) /\ job[x].view = "current" =>
      <<SourceOf(job[x]), job[x].seen.operations, job[x].seen.coverage>> \in instants

(* A request is answered once: whichever run commits it, no later commit   *)
(* changes its files, and a run that reuses them reports what is there.    *)
RequestsAreAnsweredOnce ==
  [][\A kind \in Kind :
       derived[Len(derived)][kind] # None =>
         derived'[Len(derived')][kind] = derived[Len(derived)][kind]]_exportVars

(* A local export publishes both files or, unless it reports that the file *)
(* system failed it, leaves none of its own behind, staged or published,   *)
(* but what another process had moved out of its sight.                    *)
LocalAllOrNothing ==
  \A x \in Exporter :
    job[x].kind = "local" /\ At(x, "done") =>
      /\ job[x].result = "released" => job[x].linked = Kind /\ job[x].stage = {}
      /\ job[x].result \in {"unsafe", "render"} =>
           /\ job[x].stage = {}
           /\ \A kind \in job[x].linked : disk[kind] = "ours" => aside[kind] # "never"

(* No step of an export removes or replaces a file of another process,     *)
(* with two exceptions: one that was given the inode number of the file it *)
(* took the place of ("alike"), and one put there after the clean-up had   *)
(* looked at the name and before it removed it (slipped).                  *)
ForeignFilesSurvive ==
  [][(\E x \in Exporter : job'[x] # job[x]) =>
       \A kind \in Kind \ slipped : disk[kind] = "foreign" => disk'[kind] = "foreign"]_exportVars
=============================================================================
