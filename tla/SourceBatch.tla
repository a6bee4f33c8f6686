----------------------------- MODULE SourceBatch -----------------------------
(***************************************************************************)
(* The same sources as replay_events folds them: one mutable accumulator   *)
(* whose maps are changed in place and whose private indexes stand for     *)
(* scans.  A rule's cursors and a reader source's members live in the      *)
(* indexes only, the records keep what they were created with, and freeze  *)
(* puts them together at the end.  An index entry a handler looks for and  *)
(* does not find is corruption of the whole fold.                          *)
(***************************************************************************)
EXTENDS SourceFold

VARIABLES
  cursorIndex,    \* _exemption_rule_cursor_index
  memberIndex,    \* _reader_source_membership_index
  overrideIndex   \* _active_override_subject_index

indexes == <<cursorIndex, memberIndex, overrideIndex>>

batchVars == <<vars, indexes>>

BatchInit ==
  /\ Init
  /\ cursorIndex = Empty
  /\ memberIndex = Empty
  /\ overrideIndex = Empty

(* Events whose handlers touch no index. *)
Plain ==
  /\ \/ Succeed
     \/ \E users \in Groups : AddSources(users)
     \/ \E key \in knownExemptions : WithdrawExemption(key)
  /\ UNCHANGED indexes

-----------------------------------------------------------------------------
(* Exemption rules. *)

BatchConfigureRule ==
  /\ ConfigureRule
  /\ cursorIndex' = With(cursorIndex, Event, Empty)
  /\ UNCHANGED <<memberIndex, overrideIndex>>

DropCursors(r) == Without(cursorIndex, {r})

RecordedCursors(r) == DOMAIN rules[r].cursors

(* _exemption_rule_cursors: who the rule ever materialized. *)
Materialized(r) == DOMAIN cursorIndex[r]

TakesRuleWithdrawal(r) ==
  project = "active" /\ (rules[r].active => r \in DOMAIN cursorIndex)

BatchWithdrawRule(r) ==
  /\ TakesRuleWithdrawal(r)
  /\ IF rules[r].active
     THEN /\ rules' = [rules EXCEPT ![r] = [active |-> FALSE, cursors |-> Empty]]
          /\ exemptions' = Without(exemptions, {r} \X Materialized(r))
     ELSE UNCHANGED <<rules, exemptions>>
  /\ cursorIndex' = DropCursors(r)
  /\ UNCHANGED <<project, last, knownExemptions, sequence, readerVars, grants,
                 memberIndex, overrideIndex>>

Advance(r, u, result) == [cursorIndex EXCEPT ![r] = With(@, u, Event)]

TakesMaterialization(r, u, result) ==
  /\ project = "active" \/ result = "withdraw"
  /\ rules[r].active
  /\ r \in DOMAIN cursorIndex
  /\ (<<r, u>> \in DOMAIN exemptions) <=> (result = "withdraw")

BatchMaterialize(r, u, result) ==
  LET key == <<r, u>> IN
  /\ TakesMaterialization(r, u, result)
  /\ Store
  /\ cursorIndex' = Advance(r, u, result)
  /\ IF result = "add"
     THEN /\ exemptions' = With(exemptions, key, NextSequence(u))
          /\ knownExemptions' = Tombstones({key})
          /\ sequence' = [sequence EXCEPT ![u] = @ + 1]
     ELSE /\ exemptions' = Without(exemptions, {key})
          /\ UNCHANGED <<knownExemptions, sequence>>
  /\ UNCHANGED <<project, rules, readerVars, grants, memberIndex, overrideIndex>>

-----------------------------------------------------------------------------
(* Readers. *)

BatchAddReaders(kind, users) ==
  /\ AddReaders(kind, users)
  /\ memberIndex' = With(memberIndex, Event,
                        [subjects |-> [u \in users |-> Event], cursors |-> Empty])
  /\ UNCHANGED <<cursorIndex, overrideIndex>>

LeaveMembers(source, members) ==
  IF Remains(source, members)
  THEN [memberIndex EXCEPT ![source].subjects = members]
  ELSE Without(memberIndex, {source})

TakesReaderWithdrawal(source, u) ==
  /\ <<source, u>> \in knownReaders
  /\ source \in DOMAIN readers => source \in DOMAIN memberIndex

BatchWithdrawReader(source, u) ==
  LET members == Without(memberIndex[source].subjects, {u}) IN
  /\ TakesReaderWithdrawal(source, u)
  /\ IF /\ source \in DOMAIN readers
        /\ u \in DOMAIN memberIndex[source].subjects
     THEN /\ memberIndex' = LeaveMembers(source, members)
          /\ readers' = IF Remains(source, members)
                        THEN readers ELSE Without(readers, {source})
     ELSE UNCHANGED <<memberIndex, readers>>
  /\ UNCHANGED <<project, last, readerRules, knownReaders, exemptionVars, grants,
                 cursorIndex, overrideIndex>>

BatchConfigureReaderRule ==
  /\ ConfigureReaderRule
  /\ memberIndex' = With(memberIndex, Event, [subjects |-> Empty, cursors |-> Empty])
  /\ UNCHANGED <<cursorIndex, overrideIndex>>

BatchWithdrawReaderRule(r) ==
  /\ WithdrawReaderRule(r)
  /\ memberIndex' = Without(memberIndex, {r})
  /\ UNCHANGED <<cursorIndex, overrideIndex>>

TakesReaderMaterialization(r, u, result) ==
  /\ project = "active" \/ result = "withdraw"
  /\ readerRules[r]
  /\ r \in DOMAIN readers
  /\ r \in DOMAIN memberIndex
  /\ (u \in DOMAIN memberIndex[r].subjects) <=> (result = "withdraw")

BatchMaterializeReader(r, u, result) ==
  /\ TakesReaderMaterialization(r, u, result)
  /\ Store
  /\ memberIndex' =
       [memberIndex EXCEPT
          ![r].cursors = With(@, u, Event),
          ![r].subjects = IF result = "add" THEN With(@, u, Event)
                                            ELSE Without(@, {u})]
  /\ knownReaders' = knownReaders \union {<<r, u>>}
  /\ UNCHANGED <<project, readers, readerRules, exemptionVars, grants,
                 cursorIndex, overrideIndex>>

-----------------------------------------------------------------------------
(* Overrides. *)

Subjects(g) == {grants[g].head} \X grants[g].users

TakesGrant(head, users) ==
  project = "active" /\ \A u \in users : <<head, u>> \notin DOMAIN overrideIndex

BatchGrant(head, users) ==
  /\ TakesGrant(head, users)
  /\ Store
  /\ grants' = With(grants, Event, [head |-> head, users |-> users, active |-> TRUE])
  /\ overrideIndex' = Joined(overrideIndex, [subject \in {head} \X users |-> Event])
  /\ UNCHANGED <<project, exemptionVars, readerVars, cursorIndex, memberIndex>>

ReleaseSubjects(g) == Without(overrideIndex, Subjects(g))

BatchWithdrawGrant(g) ==
  /\ WithdrawGrant(g)
  /\ overrideIndex' = ReleaseSubjects(g)
  /\ UNCHANGED <<cursorIndex, memberIndex>>

BatchNext ==
  \/ Plain
  \/ BatchConfigureRule
  \/ \E r \in DOMAIN rules : BatchWithdrawRule(r)
  \/ \E r \in DOMAIN rules, u \in User, result \in {"add", "withdraw"} :
       BatchMaterialize(r, u, result)
  \/ \E u \in User : BatchAddReaders("individual", {u})
  \/ \E users \in Groups : BatchAddReaders("snapshot", users)
  \/ \E key \in knownReaders : BatchWithdrawReader(key[1], key[2])
  \/ BatchConfigureReaderRule
  \/ \E r \in DOMAIN readerRules : BatchWithdrawReaderRule(r)
  \/ \E r \in DOMAIN readerRules, u \in User, result \in {"add", "withdraw"} :
       BatchMaterializeReader(r, u, result)
  \/ \E head \in Head, users \in Groups : BatchGrant(head, users)
  \/ \E g \in DOMAIN grants : BatchWithdrawGrant(g)

BatchSpec == BatchInit /\ [][BatchNext]_batchVars

-----------------------------------------------------------------------------
(* freeze: the immutable state a batch stands for. *)

FrozenRules ==
  [r \in DOMAIN rules |->
     [rules[r] EXCEPT !.cursors = IF r \in DOMAIN cursorIndex THEN cursorIndex[r] ELSE Empty]]

FrozenReaders ==
  [s \in DOMAIN readers |->
     [kind |-> readers[s].kind, subjects |-> memberIndex[s].subjects,
      cursors |-> memberIndex[s].cursors]]

-----------------------------------------------------------------------------
(* The shape of the accumulator; what the indexes hold, the records do not. *)
TypeOK ==
  /\ project \in {"active", "succeeded"}
  /\ last \in 0..MaxEvents
  /\ knownExemptions \subseteq (1..MaxEvents) \X User
  /\ DOMAIN exemptions \subseteq knownExemptions
  /\ sequence \in [User -> 0..MaxEvents]
  /\ \A key \in DOMAIN exemptions : exemptions[key] \in 0..MaxEvents
  /\ \A r \in DOMAIN rules : rules[r] = [active |-> rules[r].active, cursors |-> Empty]
  /\ knownReaders \subseteq (1..MaxEvents) \X User
  /\ \A s \in DOMAIN memberIndex : {s} \X DOMAIN memberIndex[s].subjects \subseteq knownReaders
  /\ readerRules \in [DOMAIN readerRules -> BOOLEAN]
  /\ \A g \in DOMAIN grants : grants[g].head \in Head /\ grants[g].users \subseteq User

(* "Full replay and incremental apply_event must produce identical states" *)
(* (m1-conformance-kernel.md): whatever a batch does, some event of the    *)
(* incremental fold does to the state the batch would freeze to.           *)
Fold == INSTANCE SourceFold WITH rules <- FrozenRules, readers <- FrozenReaders

BatchIsFold == Fold!Spec

(* And the batch accepts every event the fold accepts: an index has an     *)
(* entry exactly where the handlers will look for one, so no valid history *)
(* is refused as corrupt, or raises, only because it was folded in bulk.   *)
IndexesComplete ==
  /\ DOMAIN cursorIndex = {r \in DOMAIN rules : rules[r].active}
  /\ DOMAIN memberIndex = DOMAIN readers
  /\ DOMAIN overrideIndex = {subject \in Head \X User : IsOverridden(subject[1], subject[2])}

(* A rule accounts for everyone it exempts: a source of a rule is of an    *)
(* active rule that holds a cursor for the user (the derived projection    *)
(* refuses one without), so withdrawing the rule leaves nobody exempt.     *)
RulesOwnExemptions ==
  \A key \in DOMAIN exemptions :
    key[1] \in DOMAIN rules =>
      rules[key[1]].active /\ key[2] \in DOMAIN cursorIndex[key[1]]

(* What the derived projection demands of reader sources: there is one for *)
(* each active rule, each member of it is there by the latest event its    *)
(* cursor names, and a source of no rule is not left without members.      *)
ReadersProjectable ==
  /\ \A r \in DOMAIN readerRules : readerRules[r] <=> r \in DOMAIN readers
  /\ \A s \in DOMAIN readers :
       LET members == memberIndex[s].subjects
           cursors == memberIndex[s].cursors
       IN IF readers[s].kind = "continuous_team"
          THEN \A u \in DOMAIN members : u \in DOMAIN cursors /\ cursors[u] = members[u]
          ELSE members # Empty /\ cursors = Empty

(* Of the sources that exempt one user no two have one number: the derived *)
(* projection shows the one with the greatest, and every fold, whatever    *)
(* was withdrawn in between, must show the same.                           *)
SequencesDistinct ==
  \A u \in User : \A key \in ActiveSources(u) :
    /\ exemptions[key] < sequence[u]
    /\ \A other \in ActiveSources(u) \ {key} : exemptions[key] # exemptions[other]

(* No user has two overrides in force of one head: the coverage projection *)
(* refuses a state in which two grants claim one subject.                  *)
OneOverrideOwner ==
  \A g, h \in DOMAIN grants :
    g # h /\ grants[g].active /\ grants[h].active /\ grants[g].head = grants[h].head
      => grants[g].users \intersect grants[h].users = {}
=============================================================================
