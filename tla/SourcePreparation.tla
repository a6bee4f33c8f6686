-------------------------- MODULE SourcePreparation --------------------------
(***************************************************************************)
(* How an event of the sources is prepared before replay ever sees it.     *)
(* The writer reads the stored projections of the head it appends to,      *)
(* checks the facts the event rests on (events.py), and decides which      *)
(* classes of private projections the event's package declares changed.    *)
(* Replay, the projections and history.py's reading of the package were    *)
(* each written on their own; only an event all of them take can land.     *)
(*                                                                         *)
(* The projections are those materialize_derived makes of the replayed     *)
(* state: a writer that finds any other stops.  Packages and facts are     *)
(* bound to one exact head, so a preparation and its append are one step.  *)
(***************************************************************************)
EXTENDS SourceBatch

CONSTANTS
  MaxRules,        \* max_continuous_exemption_rules
  MaxReaderRules,  \* max_continuous_reader_rules
  MaxCursors       \* max_reader_cursor_entries

ASSUME ProfileLimits == MaxRules \in Nat /\ MaxReaderRules \in Nat

VARIABLES
  origins,    \* the canonical events: the type and the subjects of each
  firstAdds,  \* <<rule, user>> whose first addition has its canonical event
  advanced    \* the classes whose generation names the latest event

preparedVars == <<batchVars, origins, firstAdds, advanced>>

Class == {"derived_index", "status_detail", "reader_authority"}

PreparedInit ==
  /\ BatchInit
  /\ origins = Empty
  /\ firstAdds = {}
  /\ advanced = Class

-----------------------------------------------------------------------------
(* materialize_derived: the private projections of the frozen state. *)

Standing == {r \in DOMAIN rules : rules[r].active}

Sources(u) == {key[1] : key \in ActiveSources(u)}

StatusRow(u) ==
  [sources |-> [s \in Sources(u) |-> exemptions[<<s, u>>]],
   next |-> sequence[u],
   cursors |-> LET held == {r \in Standing : u \in DOMAIN FrozenRules[r].cursors}
               IN [r \in held |-> FrozenRules[r].cursors[u]]]

(* Users ever exempt keep their row: their counter must not start again.   *)
StatusDetail == [u \in {user \in User : sequence[user] > 0} |-> StatusRow(u)]

ExemptOrObserved(row) == row.sources # Empty \/ row.cursors # Empty

IsExempt(row) == row.sources # Empty

(* _project_index *)
DerivedIndex == [u \in DOMAIN StatusDetail |-> IsExempt(StatusDetail[u])]

Contents ==
  [derived_index |-> DerivedIndex,
   status_detail |-> <<StatusDetail, Standing>>,
   reader_authority |-> FrozenReaders]

(* What _reader demands of the cursors; without projections there is no    *)
(* evidence (authenticated-preconditions-unavailable).                     *)
DerivedAvailable ==
  \A s \in DOMAIN FrozenReaders : Cardinality(DOMAIN FrozenReaders[s].cursors) <= MaxCursors

-----------------------------------------------------------------------------
(* Preconditions, by the names of the required facts. *)

(* source-event and source-first-add: the source event names the subject,  *)
(* or is a rule the subject was once first added by.                       *)
Established(source, u, direct, rule) ==
  /\ source \in DOMAIN origins
  /\ \/ origins[source].type = direct /\ u \in origins[source].users
     \/ origins[source].type = rule /\ <<source, u>> \in firstAdds

(* rule-event *)
IsRule(r, type) == r \in DOMAIN origins /\ origins[r].type = type

(* materialization-cursor of the exemption kind. *)
ExemptionCursor(r, u) ==
  IF u \in DOMAIN StatusDetail /\ r \in DOMAIN StatusDetail[u].cursors
  THEN StatusDetail[u].cursors[r] ELSE 0

(* ... and of the reader kind. *)
ReaderCursor(r, u) ==
  IF r \in DOMAIN FrozenReaders /\ u \in DOMAIN FrozenReaders[r].cursors
  THEN FrozenReaders[r].cursors[u] ELSE 0

(* current-exemption-union *)
InUnion(r, u) == u \in DOMAIN StatusDetail /\ r \in DOMAIN StatusDetail[u].sources

(* current-reader-authority: the sources that hold the subject. *)
AuthoritiesOf(u) == {s \in DOMAIN FrozenReaders : u \in DOMAIN FrozenReaders[s].subjects}

CanAddSources == DerivedAvailable /\ LifecyclePermits("exemption", FALSE)

CanWithdrawExemption(source, u) ==
  /\ DerivedAvailable
  /\ LifecyclePermits("exemption_source_withdrawn", FALSE)
  /\ Established(source, u, "exemption", "exemption_rule_configured")

CanConfigureRule ==
  /\ DerivedAvailable
  /\ LifecyclePermits("exemption_rule_configured", FALSE)
  /\ Cardinality(Standing) < MaxRules

CanWithdrawRule(r) ==
  /\ DerivedAvailable
  /\ LifecyclePermits("exemption_rule_withdrawn", FALSE)
  /\ IsRule(r, "exemption_rule_configured")

CanMaterialize(r, u, result, prior) ==
  /\ DerivedAvailable
  /\ LifecyclePermits("exemption_materialized", result = "withdraw")
  /\ IsRule(r, "exemption_rule_configured")
  /\ r \in Standing
  /\ InUnion(r, u) <=> (result = "withdraw")
  /\ prior = ExemptionCursor(r, u)

CanAddReaders == DerivedAvailable /\ LifecyclePermits("records_reader_authorized", FALSE)

CanWithdrawReader(source, u) ==
  /\ DerivedAvailable
  /\ LifecyclePermits("records_reader_withdrawn", FALSE)
  /\ Established(source, u, "records_reader_authorized", "records_reader_rule_configured")

ActiveReaderRules == {s \in DOMAIN FrozenReaders : FrozenReaders[s].kind = "continuous_team"}

CanConfigureReaderRule ==
  /\ DerivedAvailable
  /\ LifecyclePermits("records_reader_rule_configured", FALSE)
  /\ Cardinality(ActiveReaderRules) < MaxReaderRules

CanWithdrawReaderRule(r) ==
  /\ DerivedAvailable
  /\ LifecyclePermits("records_reader_rule_withdrawn", FALSE)
  /\ IsRule(r, "records_reader_rule_configured")

CanMaterializeReader(r, u, result, prior) ==
  /\ DerivedAvailable
  /\ LifecyclePermits("records_reader_materialized", result = "withdraw")
  /\ IsRule(r, "records_reader_rule_configured")
  /\ result = "add" => r \in DOMAIN FrozenReaders
  /\ r \in AuthoritiesOf(u) <=> (result = "withdraw")
  /\ prior = ReaderCursor(r, u)

(* override-grant *)
CanWithdrawGrant(g) == LifecyclePermits("override_withdrawn", FALSE) /\ grants[g].active

CanGrant == LifecyclePermits("override", FALSE)

-----------------------------------------------------------------------------
(* The classes a package declares changed. *)

AnySourceTouches(r) ==
  IF \E u \in User : r \in Sources(u) THEN {"derived_index", "status_detail"}
  ELSE {"status_detail"}

(* Of a rule's withdrawal: the index only when it is somebody's only       *)
(* source, as the projected provenance tells it.                           *)
RetirementTouches(r) ==
  IF \E u \in User : Sources(u) = {r} THEN {"derived_index", "status_detail"}
  ELSE {"status_detail"}

(* Of a reader's withdrawal: nothing when it is not there any more. *)
ForgettingTouches(source, u) ==
  IF source \in AuthoritiesOf(u) THEN {"reader_authority"} ELSE {}

RuleForgettingTouches(r) == IF r \in DOMAIN FrozenReaders THEN {"reader_authority"} ELSE {}

(* _affected_classes_for *)
AffectedClasses(type, source, u) ==
  CASE type \in {"exemption", "exemption_source_withdrawn", "exemption_materialized"} ->
         {"derived_index", "status_detail"}
    [] type = "exemption_rule_configured"      -> {"status_detail"}
    [] type = "exemption_rule_withdrawn"       -> RetirementTouches(source)
    [] type \in {"records_reader_authorized", "records_reader_rule_configured",
                 "records_reader_materialized"} -> {"reader_authority"}
    [] type = "records_reader_withdrawn"       -> ForgettingTouches(source, u)
    [] type = "records_reader_rule_withdrawn"  -> RuleForgettingTouches(source)
    [] OTHER                                   -> {}

(* history.py's reading of the same package, from the states replay has    *)
(* before and after the event: of the latter the sources and the readers.  *)
ExemptUsers(map) == {key[2] : key \in DOMAIN map}

HistoryAccepts(type, source, classes, sourcesAfter, readersAfter) ==
  CASE type = "exemption_rule_withdrawn" ->
         classes = {"status_detail"} \union
           IF ExemptUsers(exemptions) # ExemptUsers(sourcesAfter)
           THEN {"derived_index"} ELSE {}
    [] type = "records_reader_withdrawn" ->
         classes = {"reader_authority"} \/ (classes = {} /\ FrozenReaders = readersAfter)
    [] type = "records_reader_rule_withdrawn" ->
         classes = {"reader_authority"} \/ (classes = {} /\ ~ readerRules[source])
    [] type = "exemption_rule_configured" -> classes = {"status_detail"}
    [] type \in {"exemption", "exemption_source_withdrawn", "exemption_materialized"} ->
         classes = {"derived_index", "status_detail"}
    [] type \in {"records_reader_authorized", "records_reader_rule_configured",
                 "records_reader_materialized"} ->
         classes = {"reader_authority"}
    [] OTHER -> classes = {}

HistoryTakes(type, source, u, sourcesAfter, readersAfter) ==
  HistoryAccepts(type, source, AffectedClasses(type, source, u), sourcesAfter, readersAfter)

-----------------------------------------------------------------------------
(* One event prepared, appended and read back: the writer's facts hold,    *)
(* replay takes the event, and history takes the package.                  *)

Lands(type, source, u) ==
  /\ advanced' = AffectedClasses(type, source, u)
  /\ HistoryTakes(type, source, u, exemptions', FrozenReaders')

Originates(type, users) ==
  /\ origins' = With(origins, Event, [type |-> type, users |-> users])
  /\ UNCHANGED firstAdds

Keeps == UNCHANGED <<origins, firstAdds>>

FirstAdded(r, u, result, prior) ==
  /\ firstAdds' = IF result = "add" /\ prior = 0 THEN firstAdds \union {<<r, u>>} ELSE firstAdds
  /\ UNCHANGED origins

PreparedSuccess == Succeed /\ UNCHANGED indexes /\ Keeps /\ Lands("project_succeeded", 0, 0)

PreparedAdd(users) ==
  /\ CanAddSources
  /\ AddSources(users) /\ UNCHANGED indexes
  /\ Originates("exemption", users)
  /\ Lands("exemption", 0, 0)

PreparedWithdrawExemption(source, u) ==
  /\ CanWithdrawExemption(source, u)
  /\ WithdrawExemption(<<source, u>>) /\ UNCHANGED indexes
  /\ Keeps
  /\ Lands("exemption_source_withdrawn", source, u)

PreparedConfigureRule ==
  /\ CanConfigureRule
  /\ BatchConfigureRule
  /\ Originates("exemption_rule_configured", {})
  /\ Lands("exemption_rule_configured", 0, 0)

PreparedWithdrawRule(r) ==
  /\ CanWithdrawRule(r)
  /\ BatchWithdrawRule(r)
  /\ Keeps
  /\ Lands("exemption_rule_withdrawn", r, 0)

(* replay: the event repeats the cursor of the last materialization. *)
ExemptionPrior(r, u) == IF u \in DOMAIN cursorIndex[r] THEN cursorIndex[r][u] ELSE 0

ReaderPrior(r, u) ==
  IF u \in DOMAIN memberIndex[r].cursors THEN memberIndex[r].cursors[u] ELSE 0

PreparedMaterialize(r, u, result, prior) ==
  /\ CanMaterialize(r, u, result, prior)
  /\ BatchMaterialize(r, u, result)
  /\ prior = ExemptionPrior(r, u)
  /\ FirstAdded(r, u, result, prior)
  /\ Lands("exemption_materialized", r, u)

PreparedAddReaders(kind, users) ==
  /\ CanAddReaders
  /\ BatchAddReaders(kind, users)
  /\ Originates("records_reader_authorized", users)
  /\ Lands("records_reader_authorized", 0, 0)

PreparedWithdrawReader(source, u) ==
  /\ CanWithdrawReader(source, u)
  /\ BatchWithdrawReader(source, u)
  /\ Keeps
  /\ Lands("records_reader_withdrawn", source, u)

PreparedConfigureReaderRule ==
  /\ CanConfigureReaderRule
  /\ BatchConfigureReaderRule
  /\ Originates("records_reader_rule_configured", {})
  /\ Lands("records_reader_rule_configured", 0, 0)

PreparedWithdrawReaderRule(r) ==
  /\ CanWithdrawReaderRule(r)
  /\ BatchWithdrawReaderRule(r)
  /\ Keeps
  /\ Lands("records_reader_rule_withdrawn", r, 0)

PreparedMaterializeReader(r, u, result, prior) ==
  /\ CanMaterializeReader(r, u, result, prior)
  /\ BatchMaterializeReader(r, u, result)
  /\ prior = ReaderPrior(r, u)
  /\ FirstAdded(r, u, result, prior)
  /\ Lands("records_reader_materialized", r, u)

PreparedGrant(head, users) ==
  CanGrant /\ BatchGrant(head, users) /\ Keeps /\ Lands("override", 0, 0)

PreparedWithdrawGrant(g) ==
  CanWithdrawGrant(g) /\ BatchWithdrawGrant(g) /\ Keeps /\ Lands("override_withdrawn", 0, 0)

Result == {"add", "withdraw"}

ExemptionNext ==
  \/ \E users \in Groups : PreparedAdd(users)
  \/ \E source \in DOMAIN origins, u \in User : PreparedWithdrawExemption(source, u)
  \/ PreparedConfigureRule
  \/ \E r \in DOMAIN rules : PreparedWithdrawRule(r)
  \/ \E r \in DOMAIN rules, u \in User, result \in Result, prior \in 0..last :
       PreparedMaterialize(r, u, result, prior)

ReaderNext ==
  \/ \E u \in User : PreparedAddReaders("individual", {u})
  \/ \E users \in Groups : PreparedAddReaders("snapshot", users)
  \/ \E source \in DOMAIN origins, u \in User : PreparedWithdrawReader(source, u)
  \/ PreparedConfigureReaderRule
  \/ \E r \in DOMAIN readerRules : PreparedWithdrawReaderRule(r)
  \/ \E r \in DOMAIN readerRules, u \in User, result \in Result, prior \in 0..last :
       PreparedMaterializeReader(r, u, result, prior)

OverrideNext ==
  \/ \E head \in Head, users \in Groups : PreparedGrant(head, users)
  \/ \E g \in DOMAIN grants : PreparedWithdrawGrant(g)

PreparedNext == PreparedSuccess \/ ExemptionNext \/ ReaderNext \/ OverrideNext

PreparedSpec == PreparedInit /\ [][PreparedNext]_preparedVars

-----------------------------------------------------------------------------
(* A projection never changes under an unchanged generation: whatever an   *)
(* event does to the private contents of a class, its package advanced     *)
(* that class.  Publication rebuilds a class only for a new generation     *)
(* (PrivateIsCurrent), so one that was missed would stay stale, and every  *)
(* later preparation would find stored and expected contents unequal.      *)
GenerationsCover ==
  [][\A c \in Class : Contents'[c] # Contents[c] => c \in advanced']_preparedVars

(* Every state reached can be projected: _subject, _reader, the class      *)
(* shards' validators and the coverage projection refuse none of it, and   *)
(* the bulk fold that made it has an index entry wherever a handler looks. *)
Projectable ==
  /\ TypeOK
  /\ IndexesComplete
  /\ RulesOwnExemptions
  /\ ReadersProjectable
  /\ SequencesDistinct
  /\ OneOverrideOwner
  /\ Cardinality(Standing) <= MaxRules
  /\ Cardinality(ActiveReaderRules) <= MaxReaderRules
  /\ DOMAIN StatusDetail = DOMAIN DerivedIndex
  /\ \A u \in User \ DOMAIN StatusDetail :
       Sources(u) = {} /\ \A r \in DOMAIN FrozenRules : u \notin DOMAIN FrozenRules[r].cursors

(* The packages of these events declare the same classes in every state.   *)
PlainType ==
  {"exemption", "exemption_source_withdrawn", "exemption_rule_configured",
   "exemption_materialized", "records_reader_authorized", "records_reader_rule_configured",
   "records_reader_materialized", "override", "override_withdrawn", "project_succeeded"}

(* Nobody is locked out, and nothing is prepared in vain: an event replay  *)
(* would accept has all its facts in the stored projections (limits of the *)
(* profile aside), and an event with its facts is accepted by replay, with *)
(* the package its writer makes.  An override may still be refused, for    *)
(* one in force of the same head and subject: no fact of it tells.         *)
PreparedIsReplayable ==
  /\ CanAddSources <=> project = "active"
  /\ CanAddReaders
  /\ CanConfigureRule <=> project = "active" /\ Cardinality(Standing) < MaxRules
  /\ CanConfigureReaderRule <=> Cardinality(ActiveReaderRules) < MaxReaderRules
  /\ \A source \in DOMAIN origins, u \in User :
       /\ CanWithdrawExemption(source, u) <=> TakesWithdrawal(<<source, u>>)
       /\ CanWithdrawReader(source, u) <=> TakesReaderWithdrawal(source, u)
       /\ CanWithdrawReader(source, u) =>
            HistoryTakes("records_reader_withdrawn", source, u,
                         exemptions, Fold!ReadersLeft(source, u))
  /\ \A r \in DOMAIN rules :
       /\ CanWithdrawRule(r) <=> TakesRuleWithdrawal(r)
       /\ CanWithdrawRule(r) =>
            HistoryTakes("exemption_rule_withdrawn", r, 0, Fold!SourcesLeft(r), FrozenReaders)
       /\ \A u \in User, result \in Result, prior \in 0..last :
            CanMaterialize(r, u, result, prior) <=>
              TakesMaterialization(r, u, result) /\ prior = ExemptionPrior(r, u)
  /\ \A r \in DOMAIN readerRules :
       /\ CanWithdrawReaderRule(r)
       /\ HistoryTakes("records_reader_rule_withdrawn", r, 0,
                       exemptions, Without(FrozenReaders, {r}))
       /\ \A u \in User, result \in Result, prior \in 0..last :
            CanMaterializeReader(r, u, result, prior) <=>
              TakesReaderMaterialization(r, u, result) /\ prior = ReaderPrior(r, u)
  /\ \A head \in Head, users \in Groups : TakesGrant(head, users) => CanGrant
  /\ \A g \in DOMAIN grants : CanWithdrawGrant(g) <=> TakesGrantWithdrawal(g)
  /\ \A type \in PlainType : HistoryTakes(type, 0, 0, exemptions, FrozenReaders)

(* "Reaching the limit fails the next materialization closed [...], and    *)
(* the operator remedy is to withdraw the rule" (m1-conformance-kernel.md) *)
RemedyRemains == \A r \in DOMAIN readerRules : readerRules[r] => CanWithdrawReaderRule(r)
=============================================================================
