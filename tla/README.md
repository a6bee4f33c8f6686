# Verification of DraCLA

TLA+ models of DraCLA, the TLC runs that check them on small instances and the
theorems TLAPS proves about them for every instance. Everything is translated
from the Python implementation under `src/core/dracla`; the design documents
under `src/design` say what the properties should be.

DraCLA records contributor agreements as an append-only log of canonical
events, one Git commit each, and publishes projections of that log that decide
merges and answer readers. It has no server and no database: the durable state
is four Git branches in two repositories, the only primitive is a commit that is
conditional on a branch head, and anything may crash, lose an answer or run
twice.

## Inventory

| Part | Source | State | Operations | Modules |
|---|---|---|---|---|
| Guards of a mutation | `conformance/operations.py` | the prepared-operation cell, the decision fence, the in-flight marker | prepare, claim, terminate, clear; acquire, release, reserve; open, close | `OperationState` |
| Mutation engine | `records/append.py` | none of its own: a snapshot of the branches | prepare, recovery_state, begin, append, complete | `MutationEngine`, `KeyRotation` |
| Reconciler | `records/reconcile.py` | none of its own | reconcile_project, publish_coverage, publish_projections, repair of missing facts, StoredPreconditions | `MutationEngine`, `Preparation`, `SourcePreparation` |
| Transport and control jobs | `records/github.py` | the branch heads, probe branches | head, conditional_commit, update_events, challenge, control_job | `MutationEngine`, `ControlJob` |
| History | `records/history.py` | a snapshot of four heads, the rings of the keys branch | open_history, package of an operation, authorize_reader | `MutationEngine`, `Keyrings`, `SourcePreparation`, `Exports` |
| Replay | `conformance/replay.py` | the folded state of all events | apply_event, replay_events, queries | `Lifecycle`, `Agreement`, `SourceFold`, `SourceBatch`, `Scope`, `Keyrings` |
| Preparation of events | `conformance/events.py` | none | preconditions, affected classes, required artifacts | `Lifecycle`, `Preparation`, `SourcePreparation` |
| Projections | `conformance/coverage.py`, `conformance/derived.py` | shards and their state files | build, validate, evaluate_subject, resolve_read_status | `Evaluation`, `SourcePreparation`; validators as `Projectable` and `Materializable` |
| Keys | `records/key_bindings.py`, `conformance/keyrings.py` | wrapped copies, commitments, generations | wrap, bind, verify, activate | `Keyrings`, `KeyRotation` |
| Credentials | `records/credentials.py` | minted tokens and their ends on two clocks | authorize, token, close | `Credentials`, `ControlJob` |
| Exports | `records/exports.py` | two output files, or one pair on the derived branch | export_local, export_hosted | `Exports` |
| Administration | `github_admin.py`, `administration.py` | a repository others change too | create, set_private, rename_branch, add_deploy_key, secrets, dispatch | `Administration` |
| Install plans | `provisioning.py` | the plan its caller keeps | plan_install, plan_resume | `Provisioning` |
| Release check | `control/verify_release.py` | none | compare digests | none |

Not modelled at all: the release check (a straight line of comparisons without
state), field by field validation of immutable values (`artifacts.py`,
`action_forms.py`, `event_identity.py` and most of the parsing in `events.py`),
encoding and encryption (pure functions on bytes with conformance vectors), the
vectors and their generator, the TypeScript port (the same functions, tied to
the Python ones by the vectors), the prototype the records package replaces
(`core/dracla/append.py`, `githost.py`, `projection.py`), the command line and
capacity arithmetic. `PROJECT.json` lists each part with its status.

**How the parts interact.** A host prepares an operation: its encrypted package
goes into the cell on `refs/heads/operations`. A reconciler, on a schedule or
on dispatch, takes a snapshot of the heads, lets `recovery_state` decide where
the operation stands, acquires the fence and opens the marker on the coverage
branch, appends the event, publishes the public projection (coverage branch)
and the private one (derived branch), and completes: marker closed, cell
terminal, fence released, cell cleared. Each is a commit conditional on the head
the snapshot read. A success check reserves the fence between two mutations.
Replay is what both the engine (is the event still applicable?) and the
projections (what do they say?) compute from the log. Before any of this, the
writer checks the facts the event rests on against the stored projections, and
declares in its package which private projections the event changes. All
branches are encrypted; a canonical event may activate new keys, from a ring an
operator pushed to a keys branch. Around the engine, exports read the log for
authorised readers, control jobs hold short-lived tokens, and administration
prepares the repositories.

**What is hard.** Every write has three outcomes: applied, refused, unknown. An
unknown one may be applied later. The four heads of a snapshot are read one
after the other. Two reconcilers may run at once. The same package may be
prepared again after it was completed. The completion writes two branches in
four commits and may stop between any two. And the fold has two
implementations, an immutable one that copies and a mutable one with indexes.
What is prepared and what replay accepts are decided by different code over
different representations. A rotation retires the keys its own guards are
under. And the tools act by names, on branches and repositories that move.
`PROJECT.json` lists each hazard at its line with the property that covers it.

**What makes each part correct.**

- guards: at any moment cell, fence and marker name one owner;
- engine: a key is published once, only under the durable claim of its parent
  and its own fence; a terminal cell tells the truth; recovery accepts every
  state a crash can leave;
- publication: the fence opens only over complete projections; projections
  never move back;
- currency: accepted and retired versions partition what was activated, nobody
  is covered without having assented, retirement can be undone;
- scope: a change is activated on what it was requested on or not at all;
- sources: a rule accounts for whoever it let in; both folds agree;
- evaluators: the merge gate and the reader give one answer;
- preparation: it takes what replay takes, nothing is prepared in vain and
  nobody is locked out, and no private projection changes unannounced;
- keys: a guard is readable at every step of a rotation, a landed activation
  authenticates, a replaced key is never used again;
- exports: released to readers only, of one instant, whole or not at all, and
  no file of another process touched;
- jobs: no usable token is forgotten, success leaves nothing behind, a job ends;
- administration: success is earned by the repository that was named, and no
  answer hides a write.

What is said of files and of administration holds with exceptions, which their
properties name.

## The modules

**`OperationState`** holds the transitions of `operations.py` as predicates
(`CanClaim`, `CanRelease`, ...) and values (`Claimed`, `Released`, ...), with
`CrossBound` for `validate_operation_cross_bindings` and `Live` for the
references. A package is an operation, its sealed bytes are left out, and a
prepared package is known by the commit that prepared it.

**`MutationEngine`** is the core. A branch is the sequence of its commits; a
commit is named by its position, so "the head is still *oid*" is an equality
of lengths. `worker[x]` holds the place of process `x` in the code and the
heads it has read. Each remote read or write is one action, with the local
computation that leads to it; `Snapshot` reads events, derived, operations and
coverage in the order of `open_history`. `LoseOrRefuse` gives a write its
other outcomes: refused because the head moved, or unknown, and then it may
stay in `late` until `Deliver` applies it, if the head permits. `Crash` forgets
the process. The actions follow the functions of `append.py` and `reconcile.py`:

| Code | Actions |
|---|---|
| `MutationEngine.prepare` | `StartPrepare`, `Prepare` |
| `open_history` | `ReadEvents`, `ReadDerived`, `ReadOperations`, `ReadCoverage` |
| `recovery_state`, first step of `reconcile_project` | `StartReconcile`, `Recover` |
| `begin` | `AcquireFence`, `OpenMarker` |
| `append`, its loop and `_landed`, `_terminal_absent`, `_claim_discovered_landed` | `AppendReturns`, `DiscoverLanded`, `FindConflict`, `FindInapplicable`, `MissFacts`, `ClaimAppend`, `UpdateEvents` |
| `reconcile_project` after `append` | `Settle` |
| `publish_coverage` | `CheckSource`, `PublishCoverage` |
| `publish_projections` | `PublishShards`, `PublishState` |
| `complete` | `CloseMarker`, `TerminateLanded`, `ReleaseFence`, `Clear` |
| `reserve_success`, `release_success` | `ReserveSuccess`, `ReleaseSuccess` |
| another writer of the events branch (external) | `Compete` |

The 96 derived shards go out in batches of 32; the model has one commit that
leaves the projection unsealed and one that seals it, which is what a crash
between batches is about.

**`DecisionGate`** is the abstract promise to a success check: the log grows
only while the gate is held for a mutation, the gate reopens only when the
covered prefix is the whole log, and a reservation holds the log still.
`MutationEngineProperties` maps `log` to `events`, `covered` to the source of
the public projection and `gate` to the state of the fence, and `GateSpec` is
checked as a property of the engine.

**`Evaluation`** has the three evaluators as pure operators: the replay query
(`EffectiveDecision`), `evaluate_subject` and `resolve_read_status`, each
translated on its own. The branch for rows marked unresolved is left out:
replay never marks one.

**`Agreement`** folds publications, activations, restores, acceptances,
revocations and project success. An event replay refuses is corruption, so a
valid history consists of accepted events, and each action is one of them: its
guard the conjunction of the handler's checks. Activations are known by their
content, since a restore copies nothing else; this makes the state finite, and
the exploration is of histories of any length.

**`SourceFold`** folds exemptions, records readers and overrides as
`apply_event` does, with cursors and members inside the records.
**`SourceBatch`** folds the same events as `replay_events` does, with the three
indexes of `_ReplayAccumulator`, records left as created, and `freeze`
(`FrozenRules`, `FrozenReaders`). An index entry that a handler expects and
does not find is a guard that fails, where the code reports corruption or
raises. `BatchIsFold` is the refinement: `SourceFold` with the frozen records
in place of its own.

**`Scope`** folds scope requests, activations and abandonments, and owner
changes, over the registry generation they share. A request is known by its
change ID; the selector and the direction of its authorization relation are
those of the change it makes, since `_check_scope_change` demands it.

**`Lifecycle`** is the one variable the event families share, `project`, with the
list of what a succeeded project still allows, as the writer knows it.

**`Preparation`** and **`SourcePreparation`** are the other side of the log: what
`events.py` demands of an event before it is appended. They read the
projections the way a writer does (`ActiveAgreement`, the registry's `Entry`;
`DerivedIndex`, `StatusDetail`, the frozen readers), and evaluate the named facts
(`Established`, `InUnion`, `ExemptionCursor`, ...). `Preparation` states agreement
with replay as an invariant (`PreparedAsReplayed`): a handler of replay takes
an event exactly when it has its facts, up to the exceptions the formula names.
What a handler takes has a name of its own (`CanPublish`, `TakesMaterialization`,
...), and is the first conjunct of its action: the property relates the two guards,
with no word of what may happen afterwards. `SourcePreparation` composes three parts into one action per event: its
facts hold, replay takes it (`SourceBatch`), and history takes its package
(`HistoryAccepts`), whose changed classes the writer computed from facts
(`AffectedClasses`) and history computes from states. Facts and package are
bound to one exact head, so the three are one step; that the head may move is
what `MutationEngine` models.

**`Keyrings`** models the keys branch as a sequence of rings, anyone's to push to,
and the check `open_history` makes of every activation from the ring the branch
ends with (`Opens`). **`KeyRotation`** composes it with the whole of
`MutationEngine`: `seals` remembers the head each cell, fence and marker was
encrypted at, every snapshot must be able to read what the code decrypts
(`SnapshotReads`), and an attempt that cannot stops. `RotationExempts` is
`_rotation_kids`.

**`Exports`** has one action per remote read and per file system call of an
export, local or hosted. An export is known by what it was rendered from. Around
it events land, other branches move, the reader's team changes, another run
answers the same request, and another process of the same user touches the
destinations: the directory is private to the user, which keeps others out and
not this one. It may delete, replace or move what bears a name between any two
calls, those of `_unlink` included: `Examine` is the `stat`, `Remove` the
`unlink`, and `Discard`, one step, both for the stage, whose random name nobody
else uses. A name leads to a file that is "ours", "foreign", or "alike": one
that was given the inode number of ours after ours was deleted, which can
happen since the code keeps the number and not the file. `slipped` remembers the
names that were filled between the two calls.

**`Credentials`** models the tokens of a control job against three clocks: the
provider's, which decides; the wall clock, which may jump or fail; the monotonic
clock, which may fail. **`ControlJob`** composes it with the transport and the
job itself: authorization, identification, reads with their one retry, the
challenge on probe branches with writes that may be applied late, and the
revocations on the way out.

**`Administration`** interprets six operations of `GitHubAdministration` as
programs over the same steps (`Program`): check the repository, look, decide,
write once, look again, judge. Every request goes to the repository that bears
the name at that moment. Others rename it away, put another in its place and
rename it back (`away` holds those that bore the name; an id stays with its
repository under any name); they publish either, push, rename branches, add
keys, withdraw the permission. A workflow is dispatched by its id, so only the
repository it was read from takes the dispatch. `applied`, `held` and
`returned` are history variables: what the write changed, whether the
repository was as wanted since, and who got the name back since the last check
that passed, the final one aside. **`Provisioning`** has the install plans, values
kept between discoveries that need not agree.

`MCMutationEngine`, `MCPreparation`, `MCSources`, `MCKeyRotation` and `MCTools`
instantiate these for TLC, and `MCStaleRelease` follows one schedule of three
engines. The theorems are in `MutationEngineProofs` (any number of engines),
`OneEngineProofs` (one at a time), `KeyRotationProofs`, `ReplayProofs`
(agreements, scope and their preparation), `SourceProofs` (sources and theirs),
`ExportsProofs`, `ControlJobProofs` and `AdministrationProofs` (with the install
plans).

## The runs

All pass unless marked otherwise. Times are of two TLC workers.

| Run | Question | Instance | Distinct states |
|---|---|---|---|
| `engine_alone` | do the guards stay bound, can every release be proved, is every prepared operation eventually completed | one process at a time, three operations, three executions, two faults, one success check, fairness | 267,000 (60 s) |
| `engine_concurrent` | two engines: published once, under the claim, covered when the fence is open, gate implemented | two processes, two operations, one fault | 1,750,000 (90 s) |
| `engine_concurrent_rival` | two engines and a rival: terminal cells true, projections forward only, confirmed events on the head they were confirmed on | two processes, two competing events, one execution, no fault | 3,240,000 (165 s) |
| `preparation` | do preparation and replay agree; is currency projectable, coverage assented, retirement reversible; are scope changes made on what was requested | three versions, two contributors, any length; two selectors, three requests, five generations, three registry commits | 92,000 (80 s) |
| `source_replay` | do both folds agree, can every state be projected, do generations follow contents, do preparation, replay and history agree | two users, one head, four stored events, any withdrawals, limits of two | 77,000 (45 s) |
| `key_rotation` | do guards stay readable and histories open across rotations, do replaced keys stay replaced | one process, five operations, three executions, one fault, four commits of the keys branch | 293,000 (70 s) |
| `tools` | the twelve properties of the programs around the engine | see below | 2,690,000 (95 s) |
| `stale_begin` | *violated*: see Findings | two processes | |
| `foreign_completion` | *violated*: see Findings | two processes | |
| `stale_claim` | *violated*: see Findings | two processes and a rival | |
| `stale_release` | *violated*: see Findings | three processes and a rival, along one schedule | |
| `reader_remedy` | *violated*: see Findings | a limit of one cursor | |

Three runs hold several independent systems, and a variable `side` of the MC
module chooses the one a behaviour runs: agreements or scope (`preparation`),
exemptions, readers or overrides (`source_replay`), export, files, job,
administration or plan (`tools`). They share at most the lifecycle, so nothing is lost, and
the product of their states is not explored.

**What each property says.** `GuardsCrossBound`, `AppendUnderMarker` and
`ReleaseIsProved` are about one engine at a time, crashes and late writes
included; the first two are false of two engines at once, and those runs show
how. `AtMostOnce`, `AppendUnderClaim`, `LandedIsCovered`, `GateSpec` and
`TerminalIsFinal` hold of two engines within the bounds of their runs
(`AppendUnderClaim` without a rival: with one, `stale_claim`), but not of any
number: `stale_release` violates `LandedIsCovered` with three engines and
another writer, and with it the fence part of `AppendUnderClaim` and `GateSpec`.
Of one engine at a time all of these are theorems, with every bound removed and
with rivals (`GateSpec` without). `AtMostOnce`, `ProjectionsAdvance` and
`LandsAsConfirmed` are theorems for any number of engines. `LandsAsConfirmed` says that an event confirmed
by a person at one head is published on that head. `RepairsForward` is the
liveness property. `Materializable` and `Projectable` are what the validators of
the projections raise on: a failure there would come after the event landed,
with the fence held, and no retry would get past it. `GenerationsCover` is the
other half: a projection is rebuilt only when its generation moves, so a
content that changed under an old generation stays stale and every later writer
finds stored and expected contents unequal. `PreparedAsReplayed` and
`PreparedIsReplayable` relate the two decision procedures; where they are not
equivalent the formula says so: replay alone refuses an activation or restore
that changes nothing, a second signature of someone covered, an override of a
subject that has one, and a change ID or registry commit used before. Of sources
there is a third judge: history computes the changed classes from the states before
and after (`HistoryTakes`), the writer from facts (`RetirementTouches`), and the
package must be one for both. After its event the state is the one the incremental
fold makes (`Fold!SourcesLeft`, `Fold!ReadersLeft`).

`HistoryStaysOpen` assumes that the ring at the tip still holds the keys of those
before it (`Retains`); a ring without them closes any history, and the operator
can push the keys again. `ReleasedToReaders` asks for one moment, between
opening and release, at which the principal had authority by the events and
the membership of that moment: the final gate checks the membership between two
reads of the same head. `LocalAllOrNothing` and `ForeignFilesSurvive` are about
every failure of an export that is handled; the first excepts a file of ours
that was moved out of the clean-up's sight, the second the two cases in which
an inode number does not tell whose a file is, "alike" and `slipped`.
`SuccessIsEarned` is unconditional where the answer rests on an id or on a
single read (create, set_private). Where it rests on what was read or written
between the last two checks, it excepts a repository that lost the name and
got it back between these two, and nothing else: a return between two earlier
checks changes nothing that the answer rests on. Whether a secret sealed with the
public key of one repository is refused by another the model does not say: it
lets any take it. `SuccessLeavesNothing` includes writes still under way.
`UsableTokensAreTracked` allows any jump of the clocks; `HandedTokensLive` holds
by an honest wall clock only. `JobWindsDown` is a termination measure, so it
needs no fairness. The rest is explained beside the definitions.

**Bounds and why they are enough.**

- *Processes*: two. The processes meet only through conditional writes to a
  head; the races these runs find, and those they exclude, are between one that
  read early and one that finished in between. Two are not enough for
  everything: `stale_release` needs a second stale reader, and is out of reach of
  a search of all interleavings (its counterexample has 100 steps). What is said
  of any number of engines is what is proved.
- *Operations*: `edit` installs a configuration (it can become a no-op),
  `grant` changes private facts, `accept` is a confirmed operation, and all
  may be executed again after completion; `rival` takes the key of one of
  them and `block` makes another inapplicable.
- *MaxExecutions*: three with one process, so that a package runs, is
  followed by another and runs again, which is where a proof of release could
  be confused. Two, or one with a rival, with two processes.
- *MaxFaults*: two with one process, a crash during the recovery from a crash.
  One with two processes, none with a rival (what is said of lost answers next
  to a rival is proved).
- *MaxCommits*: 100 with one process, never reached (the longest history has 32
  projection commits). Eight to ten with two: an attempt may start only below
  it. Without it two engines could rewrite each other's private shards for
  ever, which is a waste the code permits, not a new kind of state.
- *MaxGeneration*: success checks may reserve the fence up to this generation.
- *Versions and contributors*: contributors do not influence each other, so two
  say that much and one would do for the rest. Three versions give an active
  one, another accepted one and a retired one.
- *Scope*: three requests, since a scope that returns to what it was takes two
  activations under a third that is pending; five generations leave room for an
  owner change before, between and after.
- *MaxEvents* of `source_replay`: four stored events allow a rule, a member that
  comes, goes and comes back; withdrawals by hand are not counted. Exemptions,
  readers and overrides do not read each other, so one head and two users
  suffice for an overlap. *MaxRules*, *MaxReaderRules*: two, so that four events
  reach the limit and leave it. *MaxCursors*: two, one for each user, so that
  `source_replay` never exceeds it and `reader_remedy`, with one, does.
- *Keyrings*: an activation of one key, one of both, and two that would select
  former key bytes again, by name and under a new name; rings that add keys,
  rename one, change the wrapping or have lost keys. Three executions let two
  rotations follow each other with an ordinary event between.
- *Tools*: two attempts and heads up to two let every head of an export move
  once before and once after it is read. What happens to the files does not
  depend on the branches, so either these move (side "export") or another
  process changes the files (side "files"), any number of times. Tokens live two units with a margin of
  one, time runs to three, with one jump or failure of a clock, so that a token
  is renewed, dies and is forgotten within a job. Two changes by others to the
  repository: one to give its name to another and one to give it back, or to
  change the other. Two
  accounts, two identities and two roles in install plans; the plan is a value,
  so resumes are not bounded.

`CHECK_DEADLOCK FALSE` is in `preparation` (a succeeded project whose
acceptances are all revoked accepts nothing more, and the generations are
bounded), in `source_replay` and `reader_remedy` (the bound on events is
reached), in `key_rotation` (an operation whose activation is refused stays
prepared, by design: only an operator can supply a ring that satisfies it) and
in `tools` (programs end). The engine never stops for good within its bounds in
the other passing runs.

**Fairness** (only `RepairsForward`): weak fairness of every step of a process
that is under way, since code that runs goes on running or crashes; strong
fairness of starting a reconciliation, which the schedule in
`control/reconcile.yml` (daily) and the hosts' retries provide, and which must
be strong since a running attempt disables it for a while; weak fairness of the
release of a success reservation. Faults are finitely many (`MaxFaults`), since
nothing is promised if every attempt crashes. With a competitor that makes an
operation inapplicable while its cell is `appending`, the operation stays
indeterminate by design: a delayed publisher may still own the append. The run
of the property has no competitor for that reason.

## Findings

Five statements of the design that the code does not keep. The first four
need two or three engines at once, which is within the design: "No local lock or
Actions concurrency group is the correctness boundary"
(`design/lld/m3-control-reconciler.md:361`). None of them publishes an event
twice (`PublishedAtMostOnce` is proved); the first three leave none uncovered
behind an open fence.

1. `stale_begin`. `open_history` reads the operations head before the coverage
   head. An engine that reads a prepared cell and then coverage after another
   engine completed and cleared that operation, sees an idle fence and takes it:
   the fence is held for a mutation, the cell is idle, and `recovery_state`
   refuses from then on. The design says that a crash after fence acquisition
   leaves both identities cross-bound.
2. `foreign_completion`. After its append, `reconcile_project` completes what
   `recovery_state` returns. If another engine finished that operation and
   began the next, this closes the marker of an operation that has not landed.
   Its event then lands while no marker names it.
3. `stale_claim`. `append` reads the events head before the cell. A stale
   snapshot moves the append claim back to an older head while the other engine
   publishes under the claim it made. The event lands with a parent the durable
   claim does not name.

4. `stale_release`. `complete` reads the events head again before it releases the
   fence, but not the operations head, and `recovery_state` takes the reference
   from the fence without asking whether its prepared commit belongs to the
   execution in the cell. Both matter when one package is executed twice. A first
   engine completes the package as a no-op up to the clearing of its cell. A
   second, which read the prepared cell before, finds the fence idle, takes it
   again for that old cell, and completes the no-op once more, up to the closing
   of the marker. Meanwhile the first clears the cell, another writer makes the
   package meaningful, and a third engine, whose events head is old, prepares it
   again on the same base. The first recovers it under the fence the second
   holds, claims it, and is about to publish when the second releases the fence.
   The event lands while the fence is idle, the marker closed and no projection
   covers it. A success check may then reserve the fence, and `recovery_state`
   refuses the claimed cell from then on.

5. `reader_remedy`. The design says that reaching the limit on the cursors of a
   reader rule fails the next materialization, and that the remedy is to withdraw
   the rule. No precondition counts cursors: the materialization over the limit
   is prepared and lands. From then on the private projection cannot be
   materialized, and since facts about readers are read from it, the
   withdrawal of the rule cannot be prepared either.

Three observations have no run.

The manual says that a handled failure of a local export "removes only the files
created by that attempt, by held file identity" (`docs/cli.md:305`). What is held
is an inode number: `_unlink` compares it with that of the file that bears the
name (`exports.py:462`) and removes by name in a second call (`:463`). A file
another process of the user puts there in between is removed; so is one put
there before, if ours was deleted and its number given out again.
`ForeignFilesSurvive` proves that these are the only cases, and without either of
its exceptions TLC finds the behaviour. The window is of one system call, in a
directory private to the user.

The design says that "a moved, renamed, wrong-owner or wrong-ID repository stops
the operation" (`design/lld/m2-cli-administration.md:216`). The code checks before
and after each request which id the name leads to, and a repository renamed away
and back keeps its id. When another bears the name while a secret is put, between
the checks at `github_admin.py:567` and `:588`, the answer is `accepted` for a write
the other took. For a dispatch (`:619`, `:627`) another must have borne it while
the workflow was read as well, or the dispatch is refused; the readback of a
deploy key or a renamed branch can be of another repository in the same way.
`SuccessIsEarned` proves that nothing but such a return between the last two
checks misleads these operations; without its exception TLC finds the behaviour.

In the third the documents differ among themselves. The high-level design says a scope request that was not activated "may be
completed or explicitly abandoned" (`design/high-level-design.md:4043`); replay,
and the table in `design/lld/m1-conformance-kernel.md:1157`, accept an
abandonment only while the scope and generation of the request are current. A
request overtaken by another activation or an owner change therefore stays
pending for ever; `OvertakenForGood` states and proves it.

## The proofs

Checked by TLAPS from the definitions TLC runs, for every value of the
constants under the assumptions the modules name: `None` is no operation and no
version, competitors are operations, bounds and limits are naturals, an activation of
keys renews the projections and has a natural number for its generation and its
candidate, the first ring is bound to the initial keys, names of repositories have
nonzero ids, tokens live longer than the margin; idempotency keys, the exclusion relation and the
values the wall clock of a job may jump to are arbitrary. Every property of every
passing run but the liveness property is a theorem.

The invariants below were given to TLC on an instance before they were proved,
and the induction can still fail. That of `SuccessIsEarned` failed on a
deletion of the default branch between two reads of a rename; TLC found the
behaviour with six changes by others. GitHub does not delete a default branch, so
the model had allowed the environment too much (`ChangesOf`), and it was corrected.

**`MutationEngineProofs`** (any number of processes, operations, faults).
`TypeCorrect` and `PublishedAtMostOnce`, from `InductiveInvariant`. That no key
is published twice is not inductive: one must know of every process about to
publish. `Fits` says that such a process holds heads of commits that exist and
that, at `publish-event`, its operation's key is free in the history up to the
events head it read. The write succeeds only if that head is still the last, so
the key is free in all of it. The same must be known of a write whose answer was
lost, which may be applied much later (`LateFits`): its parent is then no longer
the head, unless nothing happened since. `OwnedCell` supplies that a non-idle
cell names an operation. The proof has one step per action.

**`ReplayProofs`, agreements** (any versions and contributors). The inductive invariant
is `TypeOK`, `Materializable` and `HistoryAccounted`: accepted and retired
versions together are the versions ever activated; every activation in the
history accepts its own version and only versions activated before; only
activated versions were ever signed. From it: `AlwaysMaterializable`,
`RetirementIsReversible` (a retired version has an activation that accepts it,
and restoring it is no no-op since the version is not active),
`OneAnswer` (a signature that does not cover is of a retired version, by the
second part), and the two action properties `ActivationsAsDeclared` and
`AssentedCoverage`.

**`ReplayProofs`, scope** (any selectors, changes and generations). The invariant says
that the generation is a frontier: no request was based, no activation bound and
no transfer made above it (`Frontier`), and that a pending request at the
current generation was made on the current scope (`ScopeAtGeneration`), which is
what makes the comparison of generations cover the comparison of scopes. From
it: `NoChangeIsLost`, `OvertakenStaysOvertaken`, `EnforcementShrinksAfterSuccess`
and, with lemmas about the last activation at a generation, `ScopeIsAccounted`.

**`ReplayProofs`, preparation.** `HandlersAgree` says that facts and handlers judge
alike on every history of agreements and of scope (the specification of the run
implies both; they share the lifecycle). Two things must be known of a history.
What was activated was published (`PublishedFirst`): a restore and an acceptance ask
for the publication of their version, replay for its activation. And the
currency in the stored projection is the one the last activation made, which
`HistoryAccounted` says, so that `Materializable` turns what the writer reads from
the projection into what replay holds (`StoredCurrencyReads`). For scope `Frontier`
does it: replay refuses an owner change at a generation used before, the
facts only one that is not the next of the registry.

**`MutationEngineProofs`, publication** (any number of processes, operations,
faults). The invariant `PInv` adds to the one above what the
branches say of each other (`Facts`) and what a process knows before each write
(`AllKnow`). No projection is ahead of the log (`SourcesHold`). A claim of the
append right, once made, is the claim in the cell until its event is in the log
(`ClaimsStand`): a stale engine may renew it, but no one can put another operation
or another base in its place. And every write that may still be applied late
keeps all this (`LateHold`). From one step lemma per action (`NextHolds`) follow
`ProjectionsOnlyAdvance` and `ConfirmedLandWhereConfirmed`. The second needs the
claim: between the check of the confirmed head and the event other engines may
renew the claim and lost writes may be applied, and `ClaimsStand` is what says
that the base in the cell is still the one that was checked. Its hypothesis, that no competitor is a confirmed operation, is
what the property is about: another writer need not look at cells.

**`OneEngineProofs`** (one process at a time, `OneEngine`: `Process` has at most
one member). Crashes, lost answers, writes applied
late, rivals and success checks are all still there, in any number, and a process
that crashed is followed by one that knows nothing. The hypothesis is what the
first four findings show to be needed.

The invariant `OneInv` has three parts. `PInv` is the one above. `GuardsOK` relates
the guards to each other and to the log, and since a write whose answer was lost
may be applied at any moment, it does so for every head a branch may come to have
(`Cells`, `Tips`, `Privates`: the head and what is in flight over it): any such
cell and any such fence name one owner (`GuardsBound`), a terminal cell tells the
truth (`CellsOK`), once an operation may be claimed its fence and marker stay
(`OpenedStays`), and an open fence is over complete projections and may be taken
late only for a prepared cell (`TipsOK`). `OneKnows` says what the process knows:
by how far its snapshot has come (`Known`: since it read the events, only the claim
in the cell may have landed; a cell it read as prepared is still the cell unless
the fence is held) and by what it is about to do (`Informed`: at each place of the
completion, that the operation is settled, which projection is current, that the
fence is held or let go). From it follow `OwnersStayOne`, `ResultsAreFinal`,
`OpenFenceIsCovered` and `MarkedWhenAppended`, and each step is one of few kinds
(`BranchesMove`), by a lemma for each action.

`EngineKeepsTheGate` is the refinement of `DecisionGate`. It also assumes that no one
else writes the log (a rival's event is not covered, which the gate does not ask
of an engine), and `CoversAllButOne`: while the fence is held the projection covers
every event but that of the claim.

`ClaimedWhenAppended` adds that a claim is renewed only at a later head, that the
process knows the newest claim when it is about to publish, and that an event in
flight has the last head for its parent (`HeadInv`).

`OneReleaseIsProved` adds a history (`ReleaseInv`, `Traces`): the commits since the
cell was last idle belong to one execution, of one operation and one base
(`SameExecution`); whatever fence is in force or in flight names one of them
(`TipsName`) and is let go only over a terminal cell (`LateLetsGo`); so coverage
ancestry holds a release by this execution exactly if the cell is terminal and the
fence is not held, and never two (`ReleasedOnce`). A process could add a second one
only by taking the fence again for an execution that is over, and `Begins` says that
from recovery to acquisition the reference it carries stays that of the execution
under way.

**`KeyRotationProofs`, the log** (any number of engines, rings, activations and
faults; on top of `MutationEngineProofs`). That the check of an activation against
the ring at the tip outlives everything between it and the publication is
`KeysInv`. A ring that was pushed stays in the branch and a later one that retains
it opens whatever it opened (`LaterRingAuthenticates`), so the history is
authentic by some ring (`Authenticates`). The same is promised of the history
extended by each event that may still be applied late (`LatePromise`) and by the
event of each process that has passed the check (`Promising`): the write succeeds
only on the head the check was made on. `LandedHistoryOpens` follows for every tip
that retains the keys of those before it, and `ReplacedKeysAreRetired` since in an
authentic history no selected key comes back. The hypothesis is that no competitor
activates keys: only this code does, and nothing would check another's.

**`KeyRotationProofs`, the guards** (one engine at a time and no other writer of
events, with crashes, late writes, success checks and any rings; on top of
`OneEngineProofs`). `GuardsAreReadable` says that the next attempt can read what it
must decrypt, wherever in a rotation the last one stopped. The invariant `SealsInv`
says at which head each thing was encrypted: fence and marker at the source of the
coverage they came with, a live cell at the base of its operation, any other at the
last event, and so for writes still in flight (`SealsFit`, `LateSealed`). The rest
(`BaseInv`) says how far these heads can lag: everything in force, in flight or in
the hands of the process is at the last event, or one behind while that event is
the one of the claim in every cell and its marker is not closed (`CellsRooted`,
`TipsCover`, `AllCurrent`). One behind is what the rotation exemption bridges, since
then the activation is the last event. The hypotheses are needed: with an event of
a rival just after the activation the exemption no longer applies, and TLC finds a
guard that cannot be read; that run is left out because the code does not claim
otherwise.

**`SourceProofs`** (any users, heads, rules, limits and number of events). The
invariant `SourceInv` has a part for each family, which share only the number of
the last event: where each index has its entries (at the rules that are active, at
the sources that stand, at the subjects a grant in force claims), numbers of sources
below the counter of their user, rules that own what they materialized. With
`Limits` it gives `ReachedIsProjectable`; with the map `freeze`, one lemma per event,
`BulkIsIncremental`: each step of the bulk fold is a step of the incremental one, and
`PreparedReplaysAlike` for the steps that are prepared. `ChangesAreAdvanced` compares
what each event does to the contents of a class with the classes of its package; the
one that needs an argument is the withdrawal of a rule, which changes the index
exactly if it was the only source of somebody (`IndexOutlivesRule`).

`FactsAreReplayable` needs one more part, `OriginsFit`: a source has a tombstone
in replay exactly if the writer finds it established, by its canonical event or by
the first addition of the user under its rule. Replay keeps a set of all sources
there ever were, the writer a path for each *first* addition, and they coincide
because whoever has a cursor was first added: a rule takes away only what it gave.
The theorem is about states whose projections can be read (`DerivedAvailable`); where
no rule can exceed the limit on cursors, as with no more users than that,
`NobodyIsLockedOut` has it of all, and `reader_remedy` shows that the condition is
needed.

**`ExportsProofs`** (any number of export runs and attempts, branches of any
length). The heads an export reads are never ahead of their branches
(`HeadsWereRead`), which only grow: a head that is found again stood there all
the time in between. So each check that passes leaves one branch less that may
have moved since the rendering (`OneInstant`), and the authority proved between
two reads of one head is of a moment within them (`Authorized`). From it
`ReadersAlone` and `CurrentTogether`. The invariant of the file system steps
(which of the two names this run has linked, at each place) gives
`BothFilesOrNone`; with what bears a name at the moment of its removal, given
what the look at it showed and what others did since, it gives
`ForeignFilesAreLeft`; that what a hosted run commits was not
there at the head it read, which the commit is conditional on, gives
`AnsweredOnce`.

**`ControlJobProofs`** (any lifetime, margin, limits, repositories and any clock
values). A token may be forgotten only when it is dead: the deadline kept on it
is never before its end on the provider's clock, and the monotonic clock either
shows that clock's time or fails (`TrackedOK`). `TokensStayTracked` follows.
`NothingIsLeft` needs to know at every place which probe branches exist and
which writes are under way (`ProbesAreKnown`): until a challenge fails the job
knows the head of the one branch there is, and once it failed it ends with 1.
`HandedOutAlive` is an action property, and so is `JobEnds`: `Remaining`, a sum of a
budget of retries, the places ahead and the renewals they may need, falls with
every step of the job, however clocks and provider behave.

**`AdministrationProofs`** (any number of changes by others). A repository keeps its
id under any name, so a check that passes says that it bears the name now. It
bore it since the check before, unless it lost the name and got it back, which
`returned` would show; so what was read or written in between was read from it
or taken by it (`ReadsOf`, `Earning`), and what it was like then is accounted
for wherever it went since (`held` looks at `away` too). It gives
`EarnedByTheOneNamed`; `RefusedMeansUnwritten` follows from `Hidden` and
`Unsent`: a call that answers `denied` or `observed` never reached its write.
There is one lemma for each kind of step the six programs are made of.

Install plans, also in `AdministrationProofs` (any roles, accounts and identities).
`ReadyOnlyOverTheFirst`: a conflict keeps what the plan knew, and a discovery
without conflict agrees with it, so the plan holds the first known identities
at every moment (`PlanKeepsTheFirst`).

**Only model-checked.** Liveness (`RepairsForward`), which is out of this prover's
reach. Of several engines, the refinement of `DecisionGate`, `LandedIsCovered` and
`AppendUnderClaim` are false at three (`stale_release`), `GuardsCrossBound` and
`AppendUnderMarker` at two, so their theorems have the hypothesis `OneEngine`; what
holds of two, and `TerminalIsFinal` of more than one, TLC shows within the bounds of
the runs. That scope only shrinks after project success (`ShrinksAfterSuccess`) is
proved only. No property is stated with `ENABLED`, and no module declares a
recursive operator, so neither is a limit here.

## What the models leave out

Bytes: encryption, envelope and JSON encodings, digests, cell and shard byte
budgets; a copy of a key either unwraps or does not. Blob, tree and page
verification of the transport. In replay: the contents of the configuration,
authorisation relations, logins and teams, retry requests. In preparation: the
facts about the provider (memberships, permissions, owners), which the writer
observes and nothing in the log can contradict, and the facts of connection,
configuration, keyring and retry events. In the projections: sharding, deltas
and every limit but those on rules and cursors. In exports: the rows and their
redaction. In administration: rate limits, paging and unparsable answers, which
end an operation like any failed read. A token whose minting was never answered
is unknown to the process; nothing in the code could revoke it, and the model
leaves it out.

## Plan

1. *Done*: engine, guards and gate; currency, decisions and evaluators; sources
   of exemption, readers and overrides in both folds; scope and owner changes;
   preparation of all these events; keyrings and their composition with the
   engine; exports, credentials and control jobs, administration and install
   plans; type and at-most-once proofs of the engine; all of `Agreement` and
   `Scope`.
2. *Done*: every safety property, action property and refinement the passing runs
   check, for every value of the constants: the tools; `AtMostOnce`,
   `ProjectionsAdvance` and `LandsAsConfirmed` of any number of engines; the rest of
   the engine, with the gate, of one at a time; replay of agreements, scope and
   sources in both folds, and their preparation; histories and guards across key
   rotations.
3. What remains: whether `TerminalIsFinal` holds of any number of engines;
   preparation of the events that have none here (connection, configuration, keyring
   and retry requests).
