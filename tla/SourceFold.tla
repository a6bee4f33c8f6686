----------------------------- MODULE SourceFold -----------------------------
(***************************************************************************)
(* Who is exempt, who reads the records and who is overridden: the sources *)
(* of authority as apply_event folds them, one event at a time, into an    *)
(* immutable state.  Each action is one event replay accepts.              *)
(*                                                                         *)
(* An event is named by its number among the events whose identity is      *)
(* stored; 0 is none.  Withdrawals store nothing of themselves but that    *)
(* they happened.  The predecessor a materialization must repeat is the    *)
(* cursor the state holds, so it is implied.  Teams, grounds and           *)
(* instruments do not take part in any decision and are left out.          *)
(***************************************************************************)
EXTENDS Lifecycle, Naturals, FiniteSets, Functions

CONSTANTS
  User,
  Head,       \* <<repository, pull request, tree>> an override is for
  MaxEvents   \* bound: events whose identity is stored

ASSUME EventsAreNumbered == MaxEvents \in Nat

VARIABLES
  last,             \* the number of the last stored event
  exemptions,       \* exemption_source_records: <<source, user>> -> sequence
  rules,            \* exemption_rules
  knownExemptions,  \* known_exemption_sources
  sequence,         \* exemption_sequence_next
  readers,          \* reader_source_records
  readerRules,      \* reader_rules: whether each is active
  knownReaders,     \* known_reader_memberships
  grants            \* override_grants

exemptionVars == <<exemptions, rules, knownExemptions, sequence>>

readerVars == <<readers, readerRules, knownReaders>>

vars == <<project, last, exemptionVars, readerVars, grants>>

Empty == <<>>

Init ==
  /\ project = "active"
  /\ last = 0
  /\ exemptions = Empty
  /\ rules = Empty
  /\ knownExemptions = {}
  /\ sequence = [u \in User |-> 0]
  /\ readers = Empty
  /\ readerRules = Empty
  /\ knownReaders = {}
  /\ grants = Empty

Succeed ==
  /\ Succeeds
  /\ UNCHANGED <<last, exemptionVars, readerVars, grants>>

(* The next stored event. *)
Event == last + 1

Store ==
  /\ last < MaxEvents
  /\ last' = Event

Without(map, keys) == Restrict(map, DOMAIN map \ keys)

With(map, key, value) ==
  [k \in DOMAIN map \union {key} |-> IF k = key THEN value ELSE map[k]]

Joined(map, more) ==
  [k \in DOMAIN map \union DOMAIN more |-> IF k \in DOMAIN more THEN more[k] ELSE map[k]]

ActiveSources(u) == {key \in DOMAIN exemptions : key[2] = u}

(* exemption_sequence_next: sources of one user are numbered for ever. *)
NextSequence(u) == sequence[u]

(* known_exemption_sources: every source there ever was. *)
Tombstones(keys) == knownExemptions \union keys

-----------------------------------------------------------------------------
(* Exemptions. *)

(* One source of one event for each of a set of users. *)
AddSources(users) ==
  LET keys == {<<Event, u>> : u \in users} IN
  /\ project = "active"
  /\ Store
  /\ exemptions' = Joined(exemptions, [key \in keys |-> NextSequence(key[2])])
  /\ knownExemptions' = Tombstones(keys)
  /\ sequence' = [u \in User |-> IF u \in users THEN sequence[u] + 1 ELSE sequence[u]]
  /\ UNCHANGED <<project, rules, readerVars, grants>>

TakesWithdrawal(key) == project = "active" /\ key \in knownExemptions

WithdrawExemption(key) ==
  /\ TakesWithdrawal(key)
  /\ exemptions' = Without(exemptions, {key})
  /\ UNCHANGED <<project, last, rules, knownExemptions, sequence, readerVars, grants>>

ConfigureRule ==
  /\ project = "active"
  /\ Store
  /\ rules' = With(rules, Event, [active |-> TRUE, cursors |-> Empty])
  /\ UNCHANGED <<project, exemptions, knownExemptions, sequence, readerVars, grants>>

SourcesLeft(r) ==
  IF rules[r].active THEN Without(exemptions, {r} \X DOMAIN rules[r].cursors) ELSE exemptions

(* The rule retires with its cursors and every source it materialized. *)
WithdrawRule(r) ==
  /\ project = "active"
  /\ exemptions' = SourcesLeft(r)
  /\ IF rules[r].active
     THEN rules' = [rules EXCEPT ![r] = [active |-> FALSE, cursors |-> Empty]]
     ELSE UNCHANGED rules
  /\ UNCHANGED <<project, last, knownExemptions, sequence, readerVars, grants>>

(* Automation observed that a team gained or lost a member. *)
Materialize(r, u, result) ==
  LET key == <<r, u>> IN
  /\ project = "active" \/ result = "withdraw"
  /\ rules[r].active
  /\ (key \in DOMAIN exemptions) <=> (result = "withdraw")
  /\ Store
  /\ rules' = [rules EXCEPT ![r].cursors = With(@, u, Event)]
  /\ IF result = "add"
     THEN /\ exemptions' = With(exemptions, key, NextSequence(u))
          /\ knownExemptions' = Tombstones({key})
          /\ sequence' = [sequence EXCEPT ![u] = @ + 1]
     ELSE /\ exemptions' = Without(exemptions, {key})
          /\ UNCHANGED <<knownExemptions, sequence>>
  /\ UNCHANGED <<project, readerVars, grants>>

-----------------------------------------------------------------------------
(* Records readers: every human operation is allowed after success. *)

AddReaders(kind, users) ==
  /\ Store
  /\ readers' = With(readers, Event,
                    [kind |-> kind, subjects |-> [u \in users |-> Event], cursors |-> Empty])
  /\ knownReaders' = knownReaders \union ({Event} \X users)
  /\ UNCHANGED <<project, readerRules, exemptionVars, grants>>

RemainsNonempty(source, members) == members # Empty

(* A source of a rule stays when its last member goes, others do not. *)
Remains(source, members) ==
  members # Empty \/ readers[source].kind = "continuous_team"

ReadersLeft(source, u) ==
  LET members == Without(readers[source].subjects, {u}) IN
  IF source \notin DOMAIN readers THEN readers
  ELSE IF u \notin DOMAIN readers[source].subjects THEN readers
  ELSE IF Remains(source, members)
  THEN [readers EXCEPT ![source].subjects = members]
  ELSE Without(readers, {source})

WithdrawReader(source, u) ==
  /\ <<source, u>> \in knownReaders
  /\ readers' = ReadersLeft(source, u)
  /\ UNCHANGED <<project, last, readerRules, knownReaders, exemptionVars, grants>>

ConfigureReaderRule ==
  /\ Store
  /\ readerRules' = With(readerRules, Event, TRUE)
  /\ readers' = With(readers, Event,
                    [kind |-> "continuous_team", subjects |-> Empty, cursors |-> Empty])
  /\ UNCHANGED <<project, knownReaders, exemptionVars, grants>>

WithdrawReaderRule(r) ==
  /\ IF readerRules[r]
     THEN /\ readerRules' = [readerRules EXCEPT ![r] = FALSE]
          /\ readers' = Without(readers, {r})
     ELSE UNCHANGED <<readerRules, readers>>
  /\ UNCHANGED <<project, last, knownReaders, exemptionVars, grants>>

MaterializeReader(r, u, result) ==
  /\ project = "active" \/ result = "withdraw"
  /\ readerRules[r]
  /\ r \in DOMAIN readers
  /\ (u \in DOMAIN readers[r].subjects) <=> (result = "withdraw")
  /\ Store
  /\ readers' =
       [readers EXCEPT
          ![r].cursors = With(@, u, Event),
          ![r].subjects = IF result = "add" THEN With(@, u, Event)
                                            ELSE Without(@, {u})]
  /\ knownReaders' = knownReaders \union {<<r, u>>}
  /\ UNCHANGED <<project, readerRules, exemptionVars, grants>>

-----------------------------------------------------------------------------
(* Overrides of one pull request head. *)

(* _active_override_owner, by a scan of every grant. *)
IsOverridden(head, u) ==
  \E g \in DOMAIN grants :
    grants[g].active /\ grants[g].head = head /\ u \in grants[g].users

Grant(head, users) ==
  /\ project = "active"
  /\ \A u \in users : ~ IsOverridden(head, u)
  /\ Store
  /\ grants' = With(grants, Event, [head |-> head, users |-> users, active |-> TRUE])
  /\ UNCHANGED <<project, exemptionVars, readerVars>>

TakesGrantWithdrawal(g) == project = "active" /\ grants[g].active

WithdrawGrant(g) ==
  /\ TakesGrantWithdrawal(g)
  /\ grants' = [grants EXCEPT ![g].active = FALSE]
  /\ UNCHANGED <<project, last, exemptionVars, readerVars>>

Groups == (SUBSET User) \ {{}}

Next ==
  \/ Succeed
  \/ \E users \in Groups : AddSources(users)
  \/ \E key \in knownExemptions : WithdrawExemption(key)
  \/ ConfigureRule
  \/ \E r \in DOMAIN rules : WithdrawRule(r)
  \/ \E r \in DOMAIN rules, u \in User, result \in {"add", "withdraw"} :
       Materialize(r, u, result)
  \/ \E u \in User : AddReaders("individual", {u})
  \/ \E users \in Groups : AddReaders("snapshot", users)
  \/ \E key \in knownReaders : WithdrawReader(key[1], key[2])
  \/ ConfigureReaderRule
  \/ \E r \in DOMAIN readerRules : WithdrawReaderRule(r)
  \/ \E r \in DOMAIN readerRules, u \in User, result \in {"add", "withdraw"} :
       MaterializeReader(r, u, result)
  \/ \E head \in Head, users \in Groups : Grant(head, users)
  \/ \E g \in DOMAIN grants : WithdrawGrant(g)

Spec == Init /\ [][Next]_vars
=============================================================================
