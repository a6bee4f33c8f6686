---------------------------- MODULE SourceProofs ----------------------------
(***************************************************************************)
(* What the bulk fold of the sources promises for any users, heads and     *)
(* number of events: every state it reaches can be projected, it does what *)
(* the incremental fold does, and no package leaves a projection stale;    *)
(* and that the facts a writer prepares an event on are those replay asks. *)
(*                                                                         *)
(* The three families share the number of the last event only, so the      *)
(* invariant has one part for each, and an event of one family keeps the   *)
(* parts of the others.  What ties each part together is where its index   *)
(* has entries: at the rules that are active, at the sources that stand,   *)
(* at the subjects some grant in force claims.                             *)
(***************************************************************************)
EXTENDS SourcePreparation, FiniteSetTheorems, TLAPS

(* Of exemptions: numbers of one user's sources lie below its counter, and *)
(* nobody is observed by a rule who was never exempt.                      *)
ExemptionsFit ==
  /\ knownExemptions \subseteq (1..last) \X User
  /\ DOMAIN exemptions \subseteq knownExemptions
  /\ sequence \in [User -> 0..last]
  /\ \A key \in DOMAIN exemptions :
       exemptions[key] \in Nat /\ exemptions[key] < sequence[key[2]]
  /\ \A key, other \in DOMAIN exemptions :
       key # other /\ key[2] = other[2] => exemptions[key] # exemptions[other]
  /\ DOMAIN rules \subseteq 1..last
  /\ \A r \in DOMAIN rules :
       /\ rules[r].active \in BOOLEAN
       /\ rules[r] = [active |-> rules[r].active, cursors |-> Empty]
  /\ DOMAIN cursorIndex = {r \in DOMAIN rules : rules[r].active}
  /\ \A r \in DOMAIN cursorIndex : \A u \in DOMAIN cursorIndex[r] :
       u \in User /\ sequence[u] > 0
  /\ RulesOwnExemptions

(* Of readers: the source of a rule that stands is a continuous one, so it *)
(* outlives its last member.                                               *)
ReadersFit ==
  /\ knownReaders \subseteq (1..last) \X User
  /\ DOMAIN readerRules \subseteq 1..last
  /\ readerRules \in [DOMAIN readerRules -> BOOLEAN]
  /\ DOMAIN readers \subseteq 1..last
  /\ DOMAIN memberIndex = DOMAIN readers
  /\ \A s \in DOMAIN memberIndex :
       /\ memberIndex[s] =
            [subjects |-> memberIndex[s].subjects, cursors |-> memberIndex[s].cursors]
       /\ \A u \in DOMAIN memberIndex[s].subjects : <<s, u>> \in knownReaders
  /\ \A r \in DOMAIN readerRules :
       r \in DOMAIN readers => readers[r].kind = "continuous_team"
  /\ ReadersProjectable

(* Of overrides: the index holds the subjects in force, each of one grant. *)
GrantsFit ==
  /\ DOMAIN grants \subseteq 1..last
  /\ \A g \in DOMAIN grants :
       /\ grants[g] = [head |-> grants[g].head, users |-> grants[g].users,
                       active |-> grants[g].active]
       /\ grants[g].head \in Head
       /\ grants[g].users \subseteq User
       /\ grants[g].active \in BOOLEAN
  /\ DOMAIN overrideIndex = {subject \in Head \X User : IsOverridden(subject[1], subject[2])}
  /\ OneOverrideOwner

SourceInv ==
  /\ project \in {"active", "succeeded"}
  /\ last \in 0..MaxEvents
  /\ ExemptionsFit
  /\ ReadersFit
  /\ GrantsFit

-----------------------------------------------------------------------------
(* Maps. *)

LEMMA EmptyIs == DOMAIN Empty = {}
  BY DEF Empty

(* What freeze makes of a rule. *)
LEMMA FrozenRuleIs ==
  ASSUME NEW r \in DOMAIN rules,
         rules[r] = [active |-> rules[r].active, cursors |-> Empty]
  PROVE  FrozenRules[r] =
           [active |-> rules[r].active,
            cursors |-> IF r \in DOMAIN cursorIndex THEN cursorIndex[r] ELSE Empty]
<1>1. PICK a : rules[r] = [active |-> a, cursors |-> Empty]
  OBVIOUS
<1> QED
  BY <1>1 DEF FrozenRules

-----------------------------------------------------------------------------
(* The other families. *)

LEMMA ExemptionsKeep ==
  ASSUME ExemptionsFit, last \in Nat, last' \in Nat, last <= last',
         UNCHANGED <<exemptionVars, cursorIndex>>
  PROVE  ExemptionsFit'
  BY DEF ExemptionsFit, exemptionVars, RulesOwnExemptions

LEMMA ReadersKeep ==
  ASSUME ReadersFit, last \in Nat, last' \in Nat, last <= last',
         UNCHANGED <<readerVars, memberIndex>>
  PROVE  ReadersFit'
  BY DEF ReadersFit, readerVars, ReadersProjectable

LEMMA GrantsKeep ==
  ASSUME GrantsFit, last \in Nat, last' \in Nat, last <= last',
         UNCHANGED <<grants, overrideIndex>>
  PROVE  GrantsFit'
  BY DEF GrantsFit, IsOverridden, OneOverrideOwner

LEMMA StoreCounts ==
  ASSUME last \in 0..MaxEvents, Store
  PROVE  /\ last \in Nat /\ Event \in Nat /\ Event \in 1..last'
         /\ last' \in 0..MaxEvents /\ last <= last' /\ last' = Event
         /\ \A S : S \subseteq 1..last => Event \notin S /\ S \subseteq 1..last'
         /\ \A S : S \subseteq (1..last) \X User => S \subseteq (1..last') \X User
         /\ \A S : S \subseteq (1..last) \X User => \A u : <<Event, u>> \notin S
  BY EventsAreNumbered DEF Store, Event

(* The empty accumulator. *)
LEMMA SourceStarts == BatchInit => SourceInv
<1> SUFFICES ASSUME BatchInit PROVE SourceInv
  OBVIOUS
<1>1. ExemptionsFit
  BY EmptyIs DEF BatchInit, Init, ExemptionsFit, RulesOwnExemptions
<1>2. ReadersFit
  BY EmptyIs DEF BatchInit, Init, ReadersFit, ReadersProjectable
<1>3. GrantsFit
  BY EmptyIs DEF BatchInit, Init, GrantsFit, IsOverridden, OneOverrideOwner
<1> QED
  BY <1>1, <1>2, <1>3, EventsAreNumbered DEF SourceInv, BatchInit, Init

-----------------------------------------------------------------------------
(* Exemptions. *)

LEMMA AddSourcesKeeps ==
  ASSUME SourceInv, NEW users \in Groups, AddSources(users), UNCHANGED indexes
  PROVE  SourceInv'
<1> DEFINE keys == {<<Event, u>> : u \in users}
           more == [key \in keys |-> NextSequence(key[2])]
<1>1. last \in 0..MaxEvents /\ Store
  BY DEF SourceInv, AddSources
<1>2. ReadersFit' /\ GrantsFit'
  BY <1>1, StoreCounts, ReadersKeep, GrantsKeep DEF SourceInv, AddSources, indexes
<1>3. /\ exemptions' = Joined(exemptions, more)
      /\ knownExemptions' = knownExemptions \union keys
      /\ sequence' = [u \in User |-> IF u \in users THEN sequence[u] + 1 ELSE sequence[u]]
      /\ UNCHANGED <<rules, cursorIndex>>
  BY DEF AddSources, Tombstones, indexes
<1>4. users \subseteq User
  BY DEF Groups
<1>5. DOMAIN exemptions \intersect keys = {}
  BY <1>1, StoreCounts DEF SourceInv, ExemptionsFit
<1>6. keys \subseteq (1..last') \X User
  BY <1>1, <1>4, StoreCounts
<1>7. /\ DOMAIN exemptions' = DOMAIN exemptions \union keys
      /\ \A key \in DOMAIN exemptions : exemptions'[key] = exemptions[key]
      /\ \A key \in keys : exemptions'[key] = sequence[key[2]]
  <2> HIDE DEF keys
  <2>1. DOMAIN more = keys /\ \A key \in keys : more[key] = sequence[key[2]]
    BY DEF NextSequence
  <2> HIDE DEF more
  <2> QED
    BY <1>3, <1>5, <2>1 DEF Joined
<1> HIDE DEF keys, more
<1>8. ExemptionsFit'
  <2> USE <1>1, StoreCounts, <1>3, <1>4, <1>5, <1>6, <1>7
  <2>1. /\ knownExemptions' \subseteq (1..last') \X User
        /\ DOMAIN exemptions' \subseteq knownExemptions'
    BY DEF SourceInv, ExemptionsFit
  <2>2. sequence' \in [User -> 0..last']
    BY DEF SourceInv, ExemptionsFit, Store, Event
  <2>3. \A u \in User : sequence[u] \in Nat /\ sequence'[u] \in Nat /\ sequence[u] <= sequence'[u]
    BY DEF SourceInv, ExemptionsFit
  <2>4. \A key \in keys : key[2] \in users /\ key[1] = Event /\ key = <<Event, key[2]>>
    BY DEF keys
  <2>5. \A key \in DOMAIN exemptions : key[2] \in User
    BY DEF SourceInv, ExemptionsFit
  <2>6. \A key \in DOMAIN exemptions' :
          exemptions'[key] \in Nat /\ exemptions'[key] < sequence'[key[2]]
    BY <2>3, <2>4, <2>5 DEF SourceInv, ExemptionsFit
  <2>7. \A key, other \in DOMAIN exemptions' :
          key # other /\ key[2] = other[2] => exemptions'[key] # exemptions'[other]
    <3> SUFFICES ASSUME NEW key \in DOMAIN exemptions', NEW other \in DOMAIN exemptions',
                        key # other, key[2] = other[2]
                 PROVE  exemptions'[key] # exemptions'[other]
      OBVIOUS
    <3>1. ~ (key \in keys /\ other \in keys)
      BY <2>4
    <3> QED
      BY <3>1, <2>3, <2>4, <2>5 DEF SourceInv, ExemptionsFit
  <2>8. DOMAIN rules \subseteq 1..last' /\ Event \notin DOMAIN rules
    BY DEF SourceInv, ExemptionsFit
  <2>9. RulesOwnExemptions'
    BY <2>4, <2>8 DEF SourceInv, ExemptionsFit, RulesOwnExemptions
  <2>10. \A r \in DOMAIN cursorIndex' : \A u \in DOMAIN cursorIndex'[r] :
           u \in User /\ sequence'[u] > 0
    BY <2>3 DEF SourceInv, ExemptionsFit
  <2>11. /\ \A r \in DOMAIN rules' :
              /\ rules'[r].active \in BOOLEAN
              /\ rules'[r] = [active |-> rules'[r].active, cursors |-> Empty]
         /\ DOMAIN cursorIndex' = {r \in DOMAIN rules' : rules'[r].active}
    BY DEF SourceInv, ExemptionsFit
  <2> QED
    BY <2>1, <2>2, <2>6, <2>7, <2>8, <2>9, <2>10, <2>11 DEF ExemptionsFit
<1> QED
  BY <1>1, <1>2, <1>8, StoreCounts DEF SourceInv, AddSources
LEMMA WithdrawExemptionKeeps ==
  ASSUME SourceInv, NEW key, WithdrawExemption(key), UNCHANGED indexes
  PROVE  SourceInv'
<1>1. last \in Nat /\ last' = last
  BY EventsAreNumbered DEF SourceInv, WithdrawExemption
<1>2. ReadersFit' /\ GrantsFit'
  BY <1>1, ReadersKeep, GrantsKeep DEF SourceInv, WithdrawExemption, indexes
<1>3. /\ DOMAIN exemptions' = DOMAIN exemptions \ {key}
      /\ \A other \in DOMAIN exemptions' : exemptions'[other] = exemptions[other]
  BY DEF WithdrawExemption, Without, Restrict
<1>4. UNCHANGED <<rules, knownExemptions, sequence, cursorIndex>>
  BY DEF WithdrawExemption, indexes
<1>5. ExemptionsFit'
  <2>1. /\ knownExemptions' \subseteq (1..last') \X User
        /\ DOMAIN exemptions' \subseteq knownExemptions'
        /\ sequence' \in [User -> 0..last']
        /\ DOMAIN rules' \subseteq 1..last'
        /\ RulesOwnExemptions'
    BY <1>1, <1>3, <1>4 DEF SourceInv, ExemptionsFit, RulesOwnExemptions
  <2>2. /\ \A other \in DOMAIN exemptions' :
             exemptions'[other] \in Nat /\ exemptions'[other] < sequence'[other[2]]
        /\ \A one, other \in DOMAIN exemptions' :
             one # other /\ one[2] = other[2] => exemptions'[one] # exemptions'[other]
    BY <1>3, <1>4 DEF SourceInv, ExemptionsFit
  <2> QED
    BY <1>4, <2>1, <2>2 DEF SourceInv, ExemptionsFit
<1> QED
  BY <1>1, <1>2, <1>5 DEF SourceInv, WithdrawExemption

LEMMA ConfigureRuleKeeps ==
  ASSUME SourceInv, BatchConfigureRule
  PROVE  SourceInv'
<1>1. last \in 0..MaxEvents /\ Store
  BY DEF SourceInv, BatchConfigureRule, ConfigureRule
<1>2. ReadersFit' /\ GrantsFit'
  BY <1>1, StoreCounts, ReadersKeep, GrantsKeep
     DEF SourceInv, BatchConfigureRule, ConfigureRule
<1>3. /\ rules' = With(rules, Event, [active |-> TRUE, cursors |-> Empty])
      /\ cursorIndex' = With(cursorIndex, Event, Empty)
      /\ UNCHANGED <<exemptions, knownExemptions, sequence>>
  BY DEF BatchConfigureRule, ConfigureRule
<1>4. Event \notin DOMAIN rules /\ Event \notin DOMAIN cursorIndex
  BY <1>1, StoreCounts DEF SourceInv, ExemptionsFit
<1>5. /\ DOMAIN rules' = DOMAIN rules \union {Event}
      /\ rules'[Event] = [active |-> TRUE, cursors |-> Empty]
      /\ \A r \in DOMAIN rules : rules'[r] = rules[r]
      /\ DOMAIN cursorIndex' = DOMAIN cursorIndex \union {Event}
      /\ cursorIndex'[Event] = Empty
      /\ \A r \in DOMAIN cursorIndex : cursorIndex'[r] = cursorIndex[r]
  BY <1>3, <1>4 DEF With
<1>6. UNCHANGED <<exemptions, knownExemptions, sequence>>
  BY <1>3
<1>7. rules'[Event].active /\ rules'[Event].active \in BOOLEAN
  BY <1>5
<1>8. ExemptionsFit'
  <2> USE <1>1, StoreCounts, <1>4, <1>5, <1>6, <1>7
  <2>1. /\ knownExemptions' \subseteq (1..last') \X User
        /\ sequence' \in [User -> 0..last']
        /\ DOMAIN rules' \subseteq 1..last'
    BY DEF SourceInv, ExemptionsFit
  <2>2. \A r \in DOMAIN rules' :
          /\ rules'[r].active \in BOOLEAN
          /\ rules'[r] = [active |-> rules'[r].active, cursors |-> Empty]
    BY DEF SourceInv, ExemptionsFit
  <2>6. DOMAIN cursorIndex' = {r \in DOMAIN rules' : rules'[r].active}
    <3>1. DOMAIN cursorIndex = {r \in DOMAIN rules : rules[r].active}
      BY DEF SourceInv, ExemptionsFit
    <3> QED
      BY <1>5, <3>1
  <2>7. /\ DOMAIN exemptions' \subseteq knownExemptions'
        /\ \A key \in DOMAIN exemptions' :
             exemptions'[key] \in Nat /\ exemptions'[key] < sequence'[key[2]]
        /\ \A key, other \in DOMAIN exemptions' :
             key # other /\ key[2] = other[2] => exemptions'[key] # exemptions'[other]
    BY DEF SourceInv, ExemptionsFit
  <2>3. \A r \in DOMAIN cursorIndex' : \A u \in DOMAIN cursorIndex'[r] :
          u \in User /\ sequence'[u] > 0
    BY EmptyIs DEF SourceInv, ExemptionsFit
  <2>4. \A key \in DOMAIN exemptions : key[1] # Event
    BY DEF SourceInv, ExemptionsFit
  <2>5. RulesOwnExemptions'
    BY <2>4 DEF SourceInv, ExemptionsFit, RulesOwnExemptions
  <2> QED
    BY <2>1, <2>2, <2>3, <2>5, <2>6, <2>7 DEF ExemptionsFit
<1> QED
  BY <1>1, <1>2, <1>8, StoreCounts DEF SourceInv, BatchConfigureRule, ConfigureRule

LEMMA WithdrawRuleKeeps ==
  ASSUME SourceInv, NEW r \in DOMAIN rules, BatchWithdrawRule(r)
  PROVE  SourceInv'
<1>1. last \in Nat /\ last' = last
  BY EventsAreNumbered DEF SourceInv, BatchWithdrawRule
<1>2. ReadersFit' /\ GrantsFit'
  BY <1>1, ReadersKeep, GrantsKeep DEF SourceInv, BatchWithdrawRule
<1>3. /\ DOMAIN cursorIndex' = DOMAIN cursorIndex \ {r}
      /\ \A s \in DOMAIN cursorIndex' : cursorIndex'[s] = cursorIndex[s]
      /\ UNCHANGED <<knownExemptions, sequence>>
  BY DEF BatchWithdrawRule, DropCursors, Without, Restrict
<1>4. CASE ~ rules[r].active
  <2>1. UNCHANGED <<rules, exemptions>>
    BY <1>4 DEF BatchWithdrawRule
  <2>2. ExemptionsFit'
    BY <1>1, <1>3, <1>4, <2>1 DEF SourceInv, ExemptionsFit, RulesOwnExemptions
  <2> QED
    BY <1>1, <1>2, <2>2 DEF SourceInv, BatchWithdrawRule
<1>5. CASE rules[r].active
  <2>1. /\ r \in DOMAIN cursorIndex
        /\ rules' = [rules EXCEPT ![r] = [active |-> FALSE, cursors |-> Empty]]
        /\ exemptions' = Without(exemptions, {r} \X DOMAIN cursorIndex[r])
    BY <1>5 DEF BatchWithdrawRule, TakesRuleWithdrawal, Materialized
  <2>2. /\ DOMAIN exemptions' = DOMAIN exemptions \ ({r} \X DOMAIN cursorIndex[r])
        /\ \A key \in DOMAIN exemptions' : exemptions'[key] = exemptions[key]
    BY <2>1 DEF Without, Restrict
  <2>3. /\ \A s \in DOMAIN rules' :
             /\ rules'[s].active \in BOOLEAN
             /\ rules'[s] = [active |-> rules'[s].active, cursors |-> Empty]
        /\ DOMAIN cursorIndex' = {s \in DOMAIN rules' : rules'[s].active}
        /\ DOMAIN rules' = DOMAIN rules
    BY <1>3, <2>1 DEF SourceInv, ExemptionsFit
  <2>4. \A key \in DOMAIN exemptions' : key[1] # r
    BY <1>5, <2>2 DEF SourceInv, ExemptionsFit, RulesOwnExemptions
  <2>5. RulesOwnExemptions'
    BY <1>3, <2>1, <2>2, <2>4 DEF SourceInv, ExemptionsFit, RulesOwnExemptions
  <2>6. ExemptionsFit'
    BY <1>1, <1>3, <2>2, <2>3, <2>5 DEF SourceInv, ExemptionsFit
  <2> QED
    BY <1>1, <1>2, <2>6 DEF SourceInv, BatchWithdrawRule
<1> QED
  BY <1>4, <1>5
LEMMA MaterializeKeeps ==
  ASSUME SourceInv, NEW r \in DOMAIN rules, NEW u \in User, NEW result \in Result,
         BatchMaterialize(r, u, result)
  PROVE  SourceInv'
<1> DEFINE key == <<r, u>>
<1>1. last \in 0..MaxEvents /\ Store
  BY DEF SourceInv, BatchMaterialize
<1>2. ReadersFit' /\ GrantsFit'
  BY <1>1, StoreCounts, ReadersKeep, GrantsKeep DEF SourceInv, BatchMaterialize
<1>3. /\ rules[r].active /\ r \in DOMAIN cursorIndex /\ rules' = rules
      /\ cursorIndex' = [cursorIndex EXCEPT ![r] = With(@, u, Event)]
  BY DEF BatchMaterialize, TakesMaterialization, Advance
<1>4. /\ DOMAIN cursorIndex' = DOMAIN cursorIndex
      /\ DOMAIN cursorIndex'[r] = DOMAIN cursorIndex[r] \union {u}
      /\ \A s \in DOMAIN cursorIndex : s # r => cursorIndex'[s] = cursorIndex[s]
  BY <1>3 DEF With
<1>5. /\ DOMAIN rules' \subseteq 1..last'
      /\ \A s \in DOMAIN rules' :
           /\ rules'[s].active \in BOOLEAN
           /\ rules'[s] = [active |-> rules'[s].active, cursors |-> Empty]
      /\ DOMAIN cursorIndex' = {s \in DOMAIN rules' : rules'[s].active}
  BY <1>1, <1>3, <1>4, StoreCounts DEF SourceInv, ExemptionsFit
<1>6. CASE result = "add"
  <2>1. /\ key \notin DOMAIN exemptions
        /\ exemptions' = With(exemptions, key, sequence[u])
        /\ knownExemptions' = knownExemptions \union {key}
        /\ sequence' = [sequence EXCEPT ![u] = @ + 1]
    BY <1>6 DEF BatchMaterialize, TakesMaterialization, Tombstones, NextSequence
  <2>2. /\ DOMAIN exemptions' = DOMAIN exemptions \union {key}
        /\ exemptions'[key] = sequence[u]
        /\ \A other \in DOMAIN exemptions : exemptions'[other] = exemptions[other]
    BY <2>1 DEF With
  <2>3. /\ sequence \in [User -> 0..last]
        /\ \A v \in User : sequence[v] \in Nat /\ sequence'[v] \in Nat
                           /\ sequence[v] <= sequence'[v]
        /\ sequence'[u] = sequence[u] + 1
        /\ sequence' \in [User -> 0..last']
    <3>1. sequence \in [User -> 0..last]
      BY DEF SourceInv, ExemptionsFit
    <3> QED
      BY <1>1, <2>1, <3>1, StoreCounts DEF Event
  <2>4. \A other \in DOMAIN exemptions :
          other[2] \in User /\ exemptions[other] \in Nat /\ exemptions[other] < sequence[other[2]]
    BY DEF SourceInv, ExemptionsFit
  <2>5. key[1] = r /\ key[2] = u /\ key \in (1..last') \X User
    BY <1>3, <1>5
  <2> HIDE DEF key
  <2>6. /\ knownExemptions' \subseteq (1..last') \X User
        /\ DOMAIN exemptions' \subseteq knownExemptions'
    BY <1>1, <2>1, <2>2, <2>5, StoreCounts DEF SourceInv, ExemptionsFit
  <2>7. \A other \in DOMAIN exemptions' :
          exemptions'[other] \in Nat /\ exemptions'[other] < sequence'[other[2]]
    BY <2>2, <2>3, <2>4, <2>5
  <2>8. \A one, other \in DOMAIN exemptions' :
          one # other /\ one[2] = other[2] => exemptions'[one] # exemptions'[other]
    BY <2>2, <2>3, <2>4, <2>5 DEF SourceInv, ExemptionsFit
  <2>9. \A s \in DOMAIN cursorIndex' : \A v \in DOMAIN cursorIndex'[s] :
          v \in User /\ sequence'[v] > 0
    <3>1. \A s \in DOMAIN cursorIndex : \A v \in DOMAIN cursorIndex[s] :
            v \in User /\ sequence[v] > 0
      BY DEF SourceInv, ExemptionsFit
    <3> QED
      BY <1>4, <2>3, <3>1
  <2>10. RulesOwnExemptions'
    BY <1>3, <1>4, <2>2, <2>5 DEF SourceInv, ExemptionsFit, RulesOwnExemptions
  <2>11. ExemptionsFit'
    BY <1>5, <2>3, <2>6, <2>7, <2>8, <2>9, <2>10 DEF ExemptionsFit
  <2> QED
    BY <1>1, <1>2, <2>11, StoreCounts DEF SourceInv, BatchMaterialize
<1>7. CASE result = "withdraw"
  <2>1. /\ key \in DOMAIN exemptions
        /\ exemptions' = Without(exemptions, {key})
        /\ UNCHANGED <<knownExemptions, sequence>>
    BY <1>7 DEF BatchMaterialize, TakesMaterialization
  <2>2. /\ DOMAIN exemptions' = DOMAIN exemptions \ {key}
        /\ \A other \in DOMAIN exemptions' : exemptions'[other] = exemptions[other]
    BY <2>1 DEF Without, Restrict
  <2>3. key[1] = r /\ key[2] = u
    OBVIOUS
  <2> HIDE DEF key
  <2>4. /\ knownExemptions' \subseteq (1..last') \X User
        /\ DOMAIN exemptions' \subseteq knownExemptions'
        /\ sequence' \in [User -> 0..last']
    BY <1>1, <2>1, <2>2, StoreCounts DEF SourceInv, ExemptionsFit
  <2>5. /\ \A other \in DOMAIN exemptions' :
             exemptions'[other] \in Nat /\ exemptions'[other] < sequence'[other[2]]
        /\ \A one, other \in DOMAIN exemptions' :
             one # other /\ one[2] = other[2] => exemptions'[one] # exemptions'[other]
    <3>1. sequence' = sequence
      BY <2>1
    <3> QED
      BY <2>2, <3>1 DEF SourceInv, ExemptionsFit
  <2>6. \A s \in DOMAIN cursorIndex' : \A v \in DOMAIN cursorIndex'[s] :
          v \in User /\ sequence'[v] > 0
    <3>1. /\ \A s \in DOMAIN cursorIndex : \A v \in DOMAIN cursorIndex[s] :
               v \in User /\ sequence[v] > 0
          /\ exemptions[key] \in Nat /\ exemptions[key] < sequence[u]
          /\ sequence[u] \in Nat
      BY <2>1, <2>3 DEF SourceInv, ExemptionsFit
    <3> QED
      BY <1>4, <2>1, <3>1
  <2>7. RulesOwnExemptions'
    BY <1>3, <1>4, <2>2 DEF SourceInv, ExemptionsFit, RulesOwnExemptions
  <2>8. ExemptionsFit'
    BY <1>5, <2>4, <2>5, <2>6, <2>7 DEF ExemptionsFit
  <2> QED
    BY <1>1, <1>2, <2>8, StoreCounts DEF SourceInv, BatchMaterialize
<1> QED
  BY <1>6, <1>7 DEF Result

-----------------------------------------------------------------------------
(* Readers. *)

(* A new source, alone or of a rule. *)
LEMMA NewSourceKeeps ==
  ASSUME last \in 0..MaxEvents, Store, ReadersFit,
         NEW kind, NEW members,
         readers' = With(readers, Event,
                         [kind |-> kind, subjects |-> members, cursors |-> Empty]),
         memberIndex' = With(memberIndex, Event, [subjects |-> members, cursors |-> Empty])
  PROVE  /\ DOMAIN readers' = DOMAIN readers \union {Event}
         /\ Event \notin DOMAIN readers /\ Event \notin DOMAIN readerRules
         /\ readers'[Event].kind = kind
         /\ \A s \in DOMAIN readers :
              readers'[s] = readers[s] /\ memberIndex'[s] = memberIndex[s]
         /\ DOMAIN memberIndex' = DOMAIN readers'
         /\ memberIndex'[Event] = [subjects |-> members, cursors |-> Empty]
         /\ DOMAIN readers' \subseteq 1..last'
         /\ DOMAIN readerRules \subseteq 1..last'
<1>1. /\ DOMAIN memberIndex = DOMAIN readers
      /\ Event \notin DOMAIN readers /\ Event \notin DOMAIN readerRules
      /\ Event \in 1..last' /\ DOMAIN readers \subseteq 1..last'
      /\ DOMAIN readerRules \subseteq 1..last'
  BY StoreCounts DEF ReadersFit
<1> QED
  BY <1>1 DEF With

LEMMA AddReadersKeeps ==
  ASSUME SourceInv, NEW kind \in {"individual", "snapshot"}, NEW users \in Groups,
         BatchAddReaders(kind, users)
  PROVE  SourceInv'
<1> DEFINE members == [u \in users |-> Event]
<1>1. last \in 0..MaxEvents /\ Store /\ ReadersFit
  BY DEF SourceInv, BatchAddReaders, AddReaders
<1>2. ExemptionsFit' /\ GrantsFit'
  BY <1>1, StoreCounts, ExemptionsKeep, GrantsKeep DEF SourceInv, BatchAddReaders, AddReaders
<1>3. /\ readers' = With(readers, Event, [kind |-> kind, subjects |-> members, cursors |-> Empty])
      /\ memberIndex' = With(memberIndex, Event, [subjects |-> members, cursors |-> Empty])
      /\ knownReaders' = knownReaders \union ({Event} \X users)
      /\ readerRules' = readerRules
  BY DEF BatchAddReaders, AddReaders
<1>4. DOMAIN members = users /\ users \subseteq User /\ members # Empty
  <2>1. DOMAIN members = users
    OBVIOUS
  <2> HIDE DEF members
  <2>2. users \subseteq User /\ users # {}
    BY DEF Groups
  <2>3. ASSUME members = Empty PROVE FALSE
    BY <2>1, <2>2, <2>3, EmptyIs
  <2> QED
    BY <2>1, <2>2, <2>3
<1> HIDE DEF members
<1>5. /\ DOMAIN readers' = DOMAIN readers \union {Event}
      /\ Event \notin DOMAIN readers /\ Event \notin DOMAIN readerRules
      /\ readers'[Event].kind = kind
      /\ \A s \in DOMAIN readers :
           readers'[s] = readers[s] /\ memberIndex'[s] = memberIndex[s]
      /\ DOMAIN memberIndex' = DOMAIN readers'
      /\ memberIndex'[Event] = [subjects |-> members, cursors |-> Empty]
      /\ DOMAIN readers' \subseteq 1..last'
      /\ DOMAIN readerRules \subseteq 1..last'
  BY <1>1, <1>3, NewSourceKeeps
<1>6. knownReaders' \subseteq (1..last') \X User
  BY <1>1, <1>3, <1>4, StoreCounts DEF ReadersFit
<1>7. \A s \in DOMAIN memberIndex' :
       /\ memberIndex'[s] =
            [subjects |-> memberIndex'[s].subjects, cursors |-> memberIndex'[s].cursors]
       /\ \A u \in DOMAIN memberIndex'[s].subjects : <<s, u>> \in knownReaders'
  BY <1>1, <1>3, <1>4, <1>5 DEF ReadersFit
<1>8. ReadersProjectable'
  BY <1>1, <1>3, <1>4, <1>5 DEF ReadersFit, ReadersProjectable
<1>9. ReadersFit'
  BY <1>1, <1>3, <1>5, <1>6, <1>7, <1>8 DEF ReadersFit
<1> QED
  BY <1>1, <1>2, <1>9, StoreCounts DEF SourceInv, BatchAddReaders, AddReaders

LEMMA ConfigureReaderRuleKeeps ==
  ASSUME SourceInv, BatchConfigureReaderRule
  PROVE  SourceInv'
<1>1. last \in 0..MaxEvents /\ Store /\ ReadersFit
  BY DEF SourceInv, BatchConfigureReaderRule, ConfigureReaderRule
<1>2. ExemptionsFit' /\ GrantsFit'
  BY <1>1, StoreCounts, ExemptionsKeep, GrantsKeep
     DEF SourceInv, BatchConfigureReaderRule, ConfigureReaderRule
<1>3. /\ readers' = With(readers, Event,
                         [kind |-> "continuous_team", subjects |-> Empty, cursors |-> Empty])
      /\ memberIndex' = With(memberIndex, Event, [subjects |-> Empty, cursors |-> Empty])
      /\ readerRules' = With(readerRules, Event, TRUE)
      /\ knownReaders' = knownReaders
  BY DEF BatchConfigureReaderRule, ConfigureReaderRule
<1>4. /\ DOMAIN readers' = DOMAIN readers \union {Event}
      /\ Event \notin DOMAIN readers /\ Event \notin DOMAIN readerRules
      /\ readers'[Event].kind = "continuous_team"
      /\ \A s \in DOMAIN readers :
           readers'[s] = readers[s] /\ memberIndex'[s] = memberIndex[s]
      /\ DOMAIN memberIndex' = DOMAIN readers'
      /\ memberIndex'[Event] = [subjects |-> Empty, cursors |-> Empty]
      /\ DOMAIN readers' \subseteq 1..last'
      /\ DOMAIN readerRules \subseteq 1..last'
  BY <1>1, <1>3, NewSourceKeeps
<1>5. /\ DOMAIN readerRules' = DOMAIN readerRules \union {Event}
      /\ readerRules'[Event]
      /\ \A r \in DOMAIN readerRules : readerRules'[r] = readerRules[r]
      /\ readerRules' \in [DOMAIN readerRules' -> BOOLEAN]
      /\ DOMAIN readerRules' \subseteq 1..last'
  <2>1. readerRules \in [DOMAIN readerRules -> BOOLEAN] /\ Event \in 1..last'
    BY <1>1, StoreCounts DEF ReadersFit
  <2> QED
    BY <1>3, <1>4, <2>1 DEF With
<1>6. knownReaders' \subseteq (1..last') \X User
  BY <1>1, <1>3, StoreCounts DEF ReadersFit
<1>7. \A s \in DOMAIN memberIndex' :
       /\ memberIndex'[s] =
            [subjects |-> memberIndex'[s].subjects, cursors |-> memberIndex'[s].cursors]
       /\ \A u \in DOMAIN memberIndex'[s].subjects : <<s, u>> \in knownReaders'
  BY <1>1, <1>3, <1>4, EmptyIs DEF ReadersFit
<1>8. /\ ReadersProjectable'
      /\ \A r \in DOMAIN readerRules' :
           r \in DOMAIN readers' => readers'[r].kind = "continuous_team"
  BY <1>1, <1>4, <1>5, EmptyIs DEF ReadersFit, ReadersProjectable
<1>9. ReadersFit'
  BY <1>4, <1>5, <1>6, <1>7, <1>8 DEF ReadersFit
<1> QED
  BY <1>1, <1>2, <1>9, StoreCounts DEF SourceInv, BatchConfigureReaderRule, ConfigureReaderRule
LEMMA WithdrawReaderRuleKeeps ==
  ASSUME SourceInv, NEW r \in DOMAIN readerRules, BatchWithdrawReaderRule(r)
  PROVE  SourceInv'
<1>1. last \in Nat /\ last' = last /\ ReadersFit
  BY EventsAreNumbered DEF SourceInv, BatchWithdrawReaderRule, WithdrawReaderRule
<1>2. ExemptionsFit' /\ GrantsFit'
  BY <1>1, ExemptionsKeep, GrantsKeep DEF SourceInv, BatchWithdrawReaderRule, WithdrawReaderRule
<1>3. /\ DOMAIN memberIndex' = DOMAIN memberIndex \ {r}
      /\ \A s \in DOMAIN memberIndex' : memberIndex'[s] = memberIndex[s]
      /\ knownReaders' = knownReaders
  BY DEF BatchWithdrawReaderRule, WithdrawReaderRule, Without, Restrict
<1>4. /\ readerRules' = [readerRules EXCEPT ![r] = FALSE]
      /\ DOMAIN readers' = DOMAIN readers \ {r}
      /\ \A s \in DOMAIN readers' : readers'[s] = readers[s]
  <2>1. CASE readerRules[r]
    BY <2>1 DEF BatchWithdrawReaderRule, WithdrawReaderRule, Without, Restrict
  <2>2. CASE ~ readerRules[r]
    <3>1. UNCHANGED <<readerRules, readers>>
      BY <2>2 DEF BatchWithdrawReaderRule, WithdrawReaderRule
    <3>2. r \notin DOMAIN readers /\ readerRules \in [DOMAIN readerRules -> BOOLEAN]
      BY <1>1, <2>2 DEF ReadersFit, ReadersProjectable
    <3>3. readerRules[r] = FALSE
      BY <2>2, <3>2
    <3> QED
      BY <3>1, <3>2, <3>3
  <2> QED
    BY <2>1, <2>2
<1>5. /\ readerRules' \in [DOMAIN readerRules' -> BOOLEAN]
      /\ DOMAIN readerRules' = DOMAIN readerRules
      /\ ~ readerRules'[r]
      /\ \A s \in DOMAIN readerRules : s # r => readerRules'[s] = readerRules[s]
  BY <1>1, <1>4 DEF ReadersFit
<1>6. ReadersProjectable'
  BY <1>1, <1>3, <1>4, <1>5 DEF ReadersFit, ReadersProjectable
<1>7. ReadersFit'
  BY <1>1, <1>3, <1>4, <1>5, <1>6 DEF ReadersFit
<1> QED
  BY <1>1, <1>2, <1>7 DEF SourceInv, BatchWithdrawReaderRule, WithdrawReaderRule

LEMMA WithdrawReaderKeeps ==
  ASSUME SourceInv, NEW source, NEW u, BatchWithdrawReader(source, u)
  PROVE  SourceInv'
<1> DEFINE members == Without(memberIndex[source].subjects, {u})
<1>1. /\ last \in Nat /\ last' = last /\ ReadersFit
      /\ UNCHANGED <<readerRules, knownReaders>>
  BY EventsAreNumbered DEF SourceInv, BatchWithdrawReader
<1>2. ExemptionsFit' /\ GrantsFit'
  BY <1>1, ExemptionsKeep, GrantsKeep DEF SourceInv, BatchWithdrawReader
<1>3. CASE ~ (source \in DOMAIN readers /\ u \in DOMAIN memberIndex[source].subjects)
  <2>1. UNCHANGED <<readerVars, memberIndex>>
    BY <1>1, <1>3 DEF BatchWithdrawReader, readerVars
  <2>2. ReadersFit'
    BY <1>1, <2>1, ReadersKeep
  <2> QED
    BY <1>1, <1>2, <2>2 DEF SourceInv, BatchWithdrawReader
<1>4. CASE source \in DOMAIN readers /\ u \in DOMAIN memberIndex[source].subjects
  <2>1. /\ memberIndex' = LeaveMembers(source, members)
        /\ readers' = IF Remains(source, members) THEN readers ELSE Without(readers, {source})
        /\ DOMAIN members = DOMAIN memberIndex[source].subjects \ {u}
        /\ \A v \in DOMAIN members : members[v] = memberIndex[source].subjects[v]
        /\ source \in DOMAIN memberIndex
    BY <1>1, <1>4 DEF BatchWithdrawReader, Without, Restrict, ReadersFit
  <2> HIDE DEF members
  <2>2. CASE Remains(source, members)
    <3>1. /\ readers' = readers
          /\ DOMAIN memberIndex' = DOMAIN memberIndex
          /\ \A s \in DOMAIN memberIndex : s # source => memberIndex'[s] = memberIndex[s]
          /\ memberIndex'[source] =
               [subjects |-> members, cursors |-> memberIndex[source].cursors]
          /\ members # Empty \/ readers[source].kind = "continuous_team"
      BY <1>1, <2>1, <2>2 DEF LeaveMembers, Remains, ReadersFit
    <3>5. /\ memberIndex'[source].subjects = members
          /\ memberIndex'[source].cursors = memberIndex[source].cursors
      BY <3>1
    <3>6. ASSUME NEW s \in DOMAIN readers'
          PROVE  IF readers'[s].kind = "continuous_team"
                 THEN \A v \in DOMAIN memberIndex'[s].subjects :
                        /\ v \in DOMAIN memberIndex'[s].cursors
                        /\ memberIndex'[s].cursors[v] = memberIndex'[s].subjects[v]
                 ELSE memberIndex'[s].subjects # Empty /\ memberIndex'[s].cursors = Empty
      <4>1. CASE s = source
        BY <1>1, <2>1, <3>1, <3>5, <4>1 DEF ReadersFit, ReadersProjectable
      <4>2. CASE s # source
        BY <1>1, <3>1, <4>2 DEF ReadersFit, ReadersProjectable
      <4> QED
        BY <4>1, <4>2
    <3>2. ReadersProjectable'
      BY <1>1, <3>1, <3>6 DEF ReadersFit, ReadersProjectable
    <3>3. \A s \in DOMAIN memberIndex' :
            /\ memberIndex'[s] =
                 [subjects |-> memberIndex'[s].subjects, cursors |-> memberIndex'[s].cursors]
            /\ \A v \in DOMAIN memberIndex'[s].subjects : <<s, v>> \in knownReaders'
      BY <1>1, <2>1, <3>1 DEF ReadersFit
    <3>4. ReadersFit'
      BY <1>1, <3>1, <3>2, <3>3 DEF ReadersFit
    <3> QED
      BY <1>1, <1>2, <3>4 DEF SourceInv, BatchWithdrawReader
  <2>3. CASE ~ Remains(source, members)
    <3>1. /\ DOMAIN readers' = DOMAIN readers \ {source}
          /\ \A s \in DOMAIN readers' : readers'[s] = readers[s]
          /\ DOMAIN memberIndex' = DOMAIN memberIndex \ {source}
          /\ \A s \in DOMAIN memberIndex' : memberIndex'[s] = memberIndex[s]
          /\ source \notin DOMAIN readerRules
      BY <1>1, <1>4, <2>1, <2>3 DEF LeaveMembers, Remains, ReadersFit, Without, Restrict
    <3>2. ReadersProjectable'
      BY <1>1, <3>1 DEF ReadersFit, ReadersProjectable
    <3>3. ReadersFit'
      BY <1>1, <3>1, <3>2 DEF ReadersFit
    <3> QED
      BY <1>1, <1>2, <3>3 DEF SourceInv, BatchWithdrawReader
  <2> QED
    BY <2>2, <2>3
<1> QED
  BY <1>3, <1>4

LEMMA MaterializeReaderKeeps ==
  ASSUME SourceInv, NEW r \in DOMAIN readerRules, NEW u \in User, NEW result \in Result,
         BatchMaterializeReader(r, u, result)
  PROVE  SourceInv'
<1> DEFINE old == memberIndex[r].subjects
           members == IF result = "add" THEN With(old, u, Event) ELSE Without(old, {u})
           cursors == With(memberIndex[r].cursors, u, Event)
<1>1. /\ last \in 0..MaxEvents /\ Store /\ ReadersFit
      /\ UNCHANGED <<readers, readerRules>>
      /\ r \in DOMAIN readers /\ r \in DOMAIN memberIndex
      /\ knownReaders' = knownReaders \union {<<r, u>>}
      /\ memberIndex' = [memberIndex EXCEPT ![r].cursors = cursors, ![r].subjects = members]
  BY DEF SourceInv, BatchMaterializeReader, TakesReaderMaterialization
<1>2. ExemptionsFit' /\ GrantsFit'
  BY <1>1, StoreCounts, ExemptionsKeep, GrantsKeep DEF SourceInv, BatchMaterializeReader
<1>3. /\ DOMAIN cursors = DOMAIN memberIndex[r].cursors \union {u}
      /\ cursors[u] = Event
      /\ \A v \in DOMAIN cursors : v # u => cursors[v] = memberIndex[r].cursors[v]
  BY DEF With
<1>4. /\ DOMAIN members \subseteq DOMAIN old \union {u}
      /\ u \in DOMAIN members => members[u] = Event
      /\ \A v \in DOMAIN members : v # u => members[v] = old[v]
  BY DEF With, Without, Restrict, Result
<1> HIDE DEF members, cursors
<1>5. /\ DOMAIN memberIndex' = DOMAIN memberIndex
      /\ \A s \in DOMAIN memberIndex : s # r => memberIndex'[s] = memberIndex[s]
      /\ memberIndex'[r] = [subjects |-> members, cursors |-> cursors]
  <2>1. PICK a, b : memberIndex[r] = [subjects |-> a, cursors |-> b]
    BY <1>1 DEF ReadersFit
  <2> QED
    BY <1>1, <2>1
<1>6. readers[r].kind = "continuous_team"
  BY <1>1 DEF ReadersFit
<1>7. knownReaders' \subseteq (1..last') \X User
  BY <1>1, StoreCounts DEF ReadersFit
<1>8. \A s \in DOMAIN memberIndex' :
       /\ memberIndex'[s] =
            [subjects |-> memberIndex'[s].subjects, cursors |-> memberIndex'[s].cursors]
       /\ \A v \in DOMAIN memberIndex'[s].subjects : <<s, v>> \in knownReaders'
  BY <1>1, <1>4, <1>5 DEF ReadersFit
<1>9. ReadersProjectable'
  BY <1>1, <1>3, <1>4, <1>5, <1>6 DEF ReadersFit, ReadersProjectable
<1>10. ReadersFit'
  BY <1>1, <1>5, <1>7, <1>8, <1>9, StoreCounts DEF ReadersFit
<1> QED
  BY <1>1, <1>2, <1>10, StoreCounts DEF SourceInv, BatchMaterializeReader

-----------------------------------------------------------------------------
(* Overrides. *)

LEMMA GrantKeeps ==
  ASSUME SourceInv, NEW head \in Head, NEW users \in Groups, BatchGrant(head, users)
  PROVE  SourceInv'
<1> DEFINE more == [subject \in {head} \X users |-> Event]
<1>1. last \in 0..MaxEvents /\ Store /\ GrantsFit
  BY DEF SourceInv, BatchGrant
<1>2. ExemptionsFit' /\ ReadersFit'
  BY <1>1, StoreCounts, ExemptionsKeep, ReadersKeep DEF SourceInv, BatchGrant
<1>3. /\ grants' = With(grants, Event, [head |-> head, users |-> users, active |-> TRUE])
      /\ overrideIndex' = Joined(overrideIndex, more)
      /\ \A u \in users : <<head, u>> \notin DOMAIN overrideIndex
      /\ users \subseteq User
  BY DEF BatchGrant, TakesGrant, Groups
<1>4. /\ DOMAIN grants' = DOMAIN grants \union {Event}
      /\ Event \notin DOMAIN grants
      /\ grants'[Event] = [head |-> head, users |-> users, active |-> TRUE]
      /\ \A g \in DOMAIN grants : grants'[g] = grants[g]
      /\ DOMAIN grants' \subseteq 1..last'
  <2>1. Event \notin DOMAIN grants /\ Event \in 1..last' /\ DOMAIN grants \subseteq 1..last'
    BY <1>1, StoreCounts DEF GrantsFit
  <2> QED
    BY <1>3, <2>1 DEF With
<1>5. DOMAIN overrideIndex' = DOMAIN overrideIndex \union ({head} \X users)
  BY <1>3 DEF Joined
<1>6. /\ grants'[Event].head = head /\ grants'[Event].users = users
      /\ grants'[Event].active /\ grants'[Event].active \in BOOLEAN
  BY <1>4
<1>7. \A g \in DOMAIN grants' :
       /\ grants'[g] = [head |-> grants'[g].head, users |-> grants'[g].users,
                        active |-> grants'[g].active]
       /\ grants'[g].head \in Head
       /\ grants'[g].users \subseteq User
       /\ grants'[g].active \in BOOLEAN
  <2> TAKE g \in DOMAIN grants'
  <2>1. CASE g = Event
    BY <1>3, <1>4, <1>6, <2>1
  <2>2. CASE g # Event
    BY <1>1, <1>4, <2>2 DEF GrantsFit
  <2> QED
    BY <2>1, <2>2
<1>8. \A h \in Head, u \in User :
        IsOverridden(h, u)' <=> IsOverridden(h, u) \/ (h = head /\ u \in users)
  BY <1>4, <1>6 DEF IsOverridden
<1>9. DOMAIN overrideIndex' =
        {subject \in Head \X User : IsOverridden(subject[1], subject[2])'}
  <2>1. DOMAIN overrideIndex = {subject \in Head \X User : IsOverridden(subject[1], subject[2])}
    BY <1>1 DEF GrantsFit
  <2>2. {head} \X users \subseteq Head \X User
    BY <1>3
  <2>3. ASSUME NEW subject \in Head \X User
        PROVE  subject \in {head} \X users <=> subject[1] = head /\ subject[2] \in users
    OBVIOUS
  <2> QED
    BY <1>5, <1>8, <2>1, <2>2, <2>3
<1>10. \A u \in users : ~ IsOverridden(head, u)
  BY <1>1, <1>3 DEF GrantsFit
<1>11. OneOverrideOwner'
  BY <1>1, <1>4, <1>6, <1>10 DEF GrantsFit, OneOverrideOwner, IsOverridden
<1>12. GrantsFit'
  BY <1>4, <1>7, <1>9, <1>11 DEF GrantsFit
<1> QED
  BY <1>1, <1>2, <1>12, StoreCounts DEF SourceInv, BatchGrant

LEMMA WithdrawGrantKeeps ==
  ASSUME SourceInv, NEW g \in DOMAIN grants, BatchWithdrawGrant(g)
  PROVE  SourceInv'
<1>1. last \in Nat /\ last' = last /\ GrantsFit
  BY EventsAreNumbered DEF SourceInv, BatchWithdrawGrant, WithdrawGrant
<1>2. ExemptionsFit' /\ ReadersFit'
  BY <1>1, ExemptionsKeep, ReadersKeep DEF SourceInv, BatchWithdrawGrant, WithdrawGrant
<1>3. /\ grants[g].active
      /\ grants' = [grants EXCEPT ![g].active = FALSE]
      /\ DOMAIN overrideIndex' = DOMAIN overrideIndex \ ({grants[g].head} \X grants[g].users)
  BY DEF BatchWithdrawGrant, WithdrawGrant, TakesGrantWithdrawal, ReleaseSubjects, Subjects,
         Without, Restrict
<1>4. /\ DOMAIN grants' = DOMAIN grants
      /\ grants'[g] = [head |-> grants[g].head, users |-> grants[g].users, active |-> FALSE]
      /\ \A h \in DOMAIN grants : h # g => grants'[h] = grants[h]
  <2>1. PICK a, b, c : grants[g] = [head |-> a, users |-> b, active |-> c]
    BY <1>1 DEF GrantsFit
  <2> QED
    BY <1>3, <2>1
<1>5. /\ grants'[g].head = grants[g].head /\ grants'[g].users = grants[g].users
      /\ ~ grants'[g].active /\ grants'[g].active \in BOOLEAN
  BY <1>4
<1>6. \A h \in DOMAIN grants' :
       /\ grants'[h] = [head |-> grants'[h].head, users |-> grants'[h].users,
                        active |-> grants'[h].active]
       /\ grants'[h].head \in Head
       /\ grants'[h].users \subseteq User
       /\ grants'[h].active \in BOOLEAN
  BY <1>1, <1>4, <1>5 DEF GrantsFit
<1>7. \A h \in Head, u \in User :
        IsOverridden(h, u)' <=>
          IsOverridden(h, u) /\ ~ (h = grants[g].head /\ u \in grants[g].users)
  BY <1>1, <1>3, <1>4, <1>5 DEF GrantsFit, IsOverridden, OneOverrideOwner
<1>8. DOMAIN overrideIndex' =
        {subject \in Head \X User : IsOverridden(subject[1], subject[2])'}
  BY <1>1, <1>3, <1>7 DEF GrantsFit
<1>9. OneOverrideOwner'
  BY <1>1, <1>4, <1>5 DEF GrantsFit, OneOverrideOwner
<1>10. GrantsFit'
  BY <1>1, <1>4, <1>6, <1>8, <1>9 DEF GrantsFit
<1> QED
  BY <1>1, <1>2, <1>10 DEF SourceInv, BatchWithdrawGrant, WithdrawGrant
-----------------------------------------------------------------------------
(* Every event. *)

LEMMA SucceedKeeps ==
  ASSUME SourceInv, Succeed, UNCHANGED indexes
  PROVE  SourceInv'
<1>1. last \in Nat /\ last' = last
  BY EventsAreNumbered DEF SourceInv, Succeed
<1>2. ExemptionsFit' /\ ReadersFit' /\ GrantsFit'
  BY <1>1, ExemptionsKeep, ReadersKeep, GrantsKeep DEF SourceInv, Succeed, indexes
<1> QED
  BY <1>1, <1>2 DEF SourceInv, Succeed, Succeeds

LEMMA SourceNext ==
  ASSUME SourceInv, BatchNext
  PROVE  SourceInv'
<1>1. CASE Plain
  BY <1>1, SucceedKeeps, AddSourcesKeeps, WithdrawExemptionKeeps DEF Plain
<1>2. CASE BatchConfigureRule
  BY <1>2, ConfigureRuleKeeps
<1>3. CASE \E r \in DOMAIN rules : BatchWithdrawRule(r)
  BY <1>3, WithdrawRuleKeeps
<1>4. CASE \E r \in DOMAIN rules, u \in User, result \in {"add", "withdraw"} :
             BatchMaterialize(r, u, result)
  BY <1>4, MaterializeKeeps DEF Result
<1>5. CASE \E u \in User : BatchAddReaders("individual", {u})
  <2>1. \A u \in User : {u} \in Groups
    BY DEF Groups
  <2> QED
    BY <1>5, <2>1, AddReadersKeeps
<1>6. CASE \E users \in Groups : BatchAddReaders("snapshot", users)
  BY <1>6, AddReadersKeeps
<1>7. CASE \E key \in knownReaders : BatchWithdrawReader(key[1], key[2])
  BY <1>7, WithdrawReaderKeeps
<1>8. CASE BatchConfigureReaderRule
  BY <1>8, ConfigureReaderRuleKeeps
<1>9. CASE \E r \in DOMAIN readerRules : BatchWithdrawReaderRule(r)
  BY <1>9, WithdrawReaderRuleKeeps
<1>10. CASE \E r \in DOMAIN readerRules, u \in User, result \in {"add", "withdraw"} :
              BatchMaterializeReader(r, u, result)
  BY <1>10, MaterializeReaderKeeps DEF Result
<1>11. CASE \E head \in Head, users \in Groups : BatchGrant(head, users)
  BY <1>11, GrantKeeps
<1>12. CASE \E g \in DOMAIN grants : BatchWithdrawGrant(g)
  BY <1>12, WithdrawGrantKeeps
<1> QED
  BY <1>1, <1>2, <1>3, <1>4, <1>5, <1>6, <1>7, <1>8, <1>9, <1>10, <1>11, <1>12 DEF BatchNext

LEMMA SourceStutters ==
  ASSUME SourceInv, UNCHANGED batchVars
  PROVE  SourceInv'
<1>1. last \in Nat /\ last' = last
  BY EventsAreNumbered DEF SourceInv, batchVars, vars
<1>2. ExemptionsFit' /\ ReadersFit' /\ GrantsFit'
  BY <1>1, ExemptionsKeep, ReadersKeep, GrantsKeep DEF SourceInv, batchVars, vars, indexes
<1> QED
  BY <1>1, <1>2 DEF SourceInv, batchVars, vars

(* What is prepared is a step of the batch. *)
LEMMA PreparedIsBatch ==
  ASSUME PreparedNext
  PROVE  BatchNext
<1>1. CASE PreparedSuccess
  BY <1>1 DEF PreparedSuccess, BatchNext, Plain
<1>2. CASE \E users \in Groups : PreparedAdd(users)
  BY <1>2 DEF PreparedAdd, BatchNext, Plain
<1>3. CASE \E source \in DOMAIN origins, u \in User : PreparedWithdrawExemption(source, u)
  BY <1>3 DEF PreparedWithdrawExemption, BatchNext, Plain, WithdrawExemption, TakesWithdrawal
<1>4. CASE PreparedConfigureRule
  BY <1>4 DEF PreparedConfigureRule, BatchNext
<1>5. CASE \E r \in DOMAIN rules : PreparedWithdrawRule(r)
  BY <1>5 DEF PreparedWithdrawRule, BatchNext
<1>6. CASE \E r \in DOMAIN rules, u \in User, result \in Result, prior \in 0..last :
             PreparedMaterialize(r, u, result, prior)
  BY <1>6 DEF PreparedMaterialize, BatchNext, Result
<1>7. CASE \/ \E u \in User : PreparedAddReaders("individual", {u})
           \/ \E users \in Groups : PreparedAddReaders("snapshot", users)
  BY <1>7 DEF PreparedAddReaders, BatchNext
<1>8. CASE \E source \in DOMAIN origins, u \in User : PreparedWithdrawReader(source, u)
  <2>1. PICK source \in DOMAIN origins, u \in User : BatchWithdrawReader(source, u)
    BY <1>8 DEF PreparedWithdrawReader
  <2> DEFINE key == <<source, u>>
  <2>2. key \in knownReaders /\ key[1] = source /\ key[2] = u
    BY <2>1 DEF BatchWithdrawReader, TakesReaderWithdrawal
  <2> QED
    BY <2>1, <2>2 DEF BatchNext
<1>9. CASE PreparedConfigureReaderRule
  BY <1>9 DEF PreparedConfigureReaderRule, BatchNext
<1>10. CASE \E r \in DOMAIN readerRules : PreparedWithdrawReaderRule(r)
  BY <1>10 DEF PreparedWithdrawReaderRule, BatchNext
<1>11. CASE \E r \in DOMAIN readerRules, u \in User, result \in Result, prior \in 0..last :
              PreparedMaterializeReader(r, u, result, prior)
  BY <1>11 DEF PreparedMaterializeReader, BatchNext, Result
<1>12. CASE \E head \in Head, users \in Groups : PreparedGrant(head, users)
  BY <1>12 DEF PreparedGrant, BatchNext
<1>13. CASE \E g \in DOMAIN grants : PreparedWithdrawGrant(g)
  BY <1>13 DEF PreparedWithdrawGrant, BatchNext
<1> QED
  BY <1>1, <1>2, <1>3, <1>4, <1>5, <1>6, <1>7, <1>8, <1>9, <1>10, <1>11, <1>12, <1>13
     DEF PreparedNext, ExemptionNext, ReaderNext, OverrideNext

(* What the families leave of each other. *)
LEMMA StillOfExemptions ==
  /\ ExemptionNext => UNCHANGED <<readerVars, memberIndex, grants, overrideIndex>>
  /\ (\E users \in Groups : PreparedAdd(users)) => UNCHANGED <<rules, cursorIndex>>
  /\ (\E source \in DOMAIN origins, u \in User : PreparedWithdrawExemption(source, u)) =>
       UNCHANGED <<rules, cursorIndex>>
  /\ (\E r \in DOMAIN rules, u \in User, result \in Result, prior \in 0..last :
        PreparedMaterialize(r, u, result, prior)) => UNCHANGED rules
<1>1. \A users \in Groups : PreparedAdd(users) =>
        UNCHANGED <<readerVars, memberIndex, grants, overrideIndex, rules, cursorIndex>>
  BY DEF PreparedAdd, AddSources, indexes
<1>2. \A source \in DOMAIN origins, u \in User : PreparedWithdrawExemption(source, u) =>
        UNCHANGED <<readerVars, memberIndex, grants, overrideIndex, rules, cursorIndex>>
  BY DEF PreparedWithdrawExemption, WithdrawExemption, indexes
<1>3. PreparedConfigureRule => UNCHANGED <<readerVars, memberIndex, grants, overrideIndex>>
  BY DEF PreparedConfigureRule, BatchConfigureRule, ConfigureRule
<1>4. \A r \in DOMAIN rules : PreparedWithdrawRule(r) =>
        UNCHANGED <<readerVars, memberIndex, grants, overrideIndex>>
  BY DEF PreparedWithdrawRule, BatchWithdrawRule
<1>5. \A r \in DOMAIN rules, u \in User, result \in Result, prior \in 0..last :
        PreparedMaterialize(r, u, result, prior) =>
          UNCHANGED <<readerVars, memberIndex, grants, overrideIndex, rules>>
  BY DEF PreparedMaterialize, BatchMaterialize
<1> QED
  BY <1>1, <1>2, <1>3, <1>4, <1>5 DEF ExemptionNext

LEMMA StillOfReaders ==
  /\ ReaderNext => UNCHANGED <<exemptionVars, cursorIndex, grants, overrideIndex>>
  /\ (\E r \in DOMAIN readerRules, u \in User, result \in Result, prior \in 0..last :
        PreparedMaterializeReader(r, u, result, prior)) => UNCHANGED readers
<1>1. \A kind, users : PreparedAddReaders(kind, users) =>
        UNCHANGED <<exemptionVars, cursorIndex, grants, overrideIndex>>
  BY DEF PreparedAddReaders, BatchAddReaders, AddReaders
<1>2. \A source \in DOMAIN origins, u \in User : PreparedWithdrawReader(source, u) =>
        UNCHANGED <<exemptionVars, cursorIndex, grants, overrideIndex>>
  BY DEF PreparedWithdrawReader, BatchWithdrawReader
<1>3. PreparedConfigureReaderRule =>
        UNCHANGED <<exemptionVars, cursorIndex, grants, overrideIndex>>
  BY DEF PreparedConfigureReaderRule, BatchConfigureReaderRule, ConfigureReaderRule
<1>4. \A r \in DOMAIN readerRules : PreparedWithdrawReaderRule(r) =>
        UNCHANGED <<exemptionVars, cursorIndex, grants, overrideIndex>>
  BY DEF PreparedWithdrawReaderRule, BatchWithdrawReaderRule, WithdrawReaderRule
<1>5. \A r \in DOMAIN readerRules, u \in User, result \in Result, prior \in 0..last :
        PreparedMaterializeReader(r, u, result, prior) =>
          UNCHANGED <<exemptionVars, cursorIndex, grants, overrideIndex, readers>>
  BY DEF PreparedMaterializeReader, BatchMaterializeReader
<1> QED
  BY <1>1, <1>2, <1>3, <1>4, <1>5 DEF ReaderNext

LEMMA StillOfOthers ==
  /\ PreparedSuccess => UNCHANGED <<exemptionVars, readerVars, cursorIndex, memberIndex>>
  /\ OverrideNext => UNCHANGED <<exemptionVars, readerVars, cursorIndex, memberIndex>>
  /\ ReaderNext => UNCHANGED <<exemptionVars, cursorIndex>>
<1>1. PreparedSuccess => UNCHANGED <<exemptionVars, readerVars, cursorIndex, memberIndex>>
  BY DEF PreparedSuccess, Succeed, indexes
<1>2. \A head \in Head, users \in Groups : PreparedGrant(head, users) =>
        UNCHANGED <<exemptionVars, readerVars, cursorIndex, memberIndex>>
  BY DEF PreparedGrant, BatchGrant
<1>3. \A g \in DOMAIN grants : PreparedWithdrawGrant(g) =>
        UNCHANGED <<exemptionVars, readerVars, cursorIndex, memberIndex>>
  BY DEF PreparedWithdrawGrant, BatchWithdrawGrant, WithdrawGrant
<1> QED
  BY <1>1, <1>2, <1>3, StillOfReaders DEF OverrideNext

-----------------------------------------------------------------------------
(* The limits of the profile. *)

Limits ==
  /\ Cardinality(Standing) <= MaxRules
  /\ Cardinality(ActiveReaderRules) <= MaxReaderRules

LEMMA ContinuousOnes ==
  ActiveReaderRules = {s \in DOMAIN readers : readers[s].kind = "continuous_team"}
  BY DEF ActiveReaderRules, FrozenReaders

LEMMA SmallSets ==
  ASSUME SourceInv
  PROVE  IsFiniteSet(Standing) /\ IsFiniteSet(ActiveReaderRules)
<1>1. IsFiniteSet(1..last)
  BY FS_Interval, EventsAreNumbered DEF SourceInv
<1>2. Standing \subseteq 1..last /\ ActiveReaderRules \subseteq 1..last
  BY ContinuousOnes DEF SourceInv, ExemptionsFit, ReadersFit, Standing
<1> QED
  BY <1>1, <1>2, FS_Subset

LEMMA SameOrFewer ==
  ASSUME NEW S, NEW T, IsFiniteSet(S), T \subseteq S
  PROVE  Cardinality(T) \in Nat /\ Cardinality(S) \in Nat /\ Cardinality(T) <= Cardinality(S)
  BY FS_Subset, FS_CardinalityType

LEMMA OneMore ==
  ASSUME NEW S, NEW T, NEW e, IsFiniteSet(S), T \subseteq S \union {e}
  PROVE  /\ Cardinality(T) \in Nat /\ Cardinality(S) \in Nat
         /\ Cardinality(T) <= Cardinality(S) + 1
<1>1. /\ IsFiniteSet(S \union {e})
      /\ Cardinality(S) \in Nat
      /\ Cardinality(S \union {e}) <= Cardinality(S) + 1
  BY FS_AddElement, FS_CardinalityType
<1>2. Cardinality(T) \in Nat /\ Cardinality(S \union {e}) \in Nat
      /\ Cardinality(T) <= Cardinality(S \union {e})
  BY <1>1, SameOrFewer
<1> QED
  BY <1>1, <1>2

LEMMA StandingBounded ==
  ASSUME SourceInv, Limits, PreparedNext
  PROVE  Cardinality(Standing') <= MaxRules
<1>1. CASE PreparedConfigureRule
  <2>1. /\ rules' = With(rules, Event, [active |-> TRUE, cursors |-> Empty])
        /\ Cardinality(Standing) < MaxRules
    BY <1>1 DEF PreparedConfigureRule, BatchConfigureRule, ConfigureRule, CanConfigureRule
  <2>2. /\ DOMAIN rules' = DOMAIN rules \union {Event}
        /\ \A r \in DOMAIN rules : r # Event => rules'[r] = rules[r]
    BY <2>1 DEF With
  <2>3. Standing' \subseteq Standing \union {Event}
    BY <2>2 DEF Standing
  <2>4. /\ Cardinality(Standing') \in Nat /\ Cardinality(Standing) \in Nat
        /\ Cardinality(Standing') <= Cardinality(Standing) + 1
    <3> DEFINE new == Standing'
    <3>1. IsFiniteSet(Standing) /\ new \subseteq Standing \union {Event}
      BY <2>3, SmallSets
    <3> HIDE DEF new
    <3>2. /\ Cardinality(new) \in Nat /\ Cardinality(Standing) \in Nat
          /\ Cardinality(new) <= Cardinality(Standing) + 1
      BY ONLY <3>1, OneMore
    <3> QED
      BY <3>2 DEF new
  <2> QED
    BY <2>1, <2>4, ProfileLimits
<1>2. CASE \E r \in DOMAIN rules : PreparedWithdrawRule(r)
  <2>1. PICK r \in DOMAIN rules : BatchWithdrawRule(r)
    BY <1>2 DEF PreparedWithdrawRule
  <2>2. Standing' \subseteq Standing
    <3>1. CASE rules[r].active
      BY <2>1, <3>1 DEF BatchWithdrawRule, Standing
    <3>2. CASE ~ rules[r].active
      BY <2>1, <3>2 DEF BatchWithdrawRule, Standing
    <3> QED
      BY <3>1, <3>2
  <2> QED
    BY <2>2, SmallSets, SameOrFewer, ProfileLimits DEF Limits
<1>3. CASE UNCHANGED rules
  BY <1>3 DEF Standing, Limits
<1>4. \/ PreparedConfigureRule
      \/ \E r \in DOMAIN rules : PreparedWithdrawRule(r)
      \/ UNCHANGED rules
  BY StillOfOthers, StillOfExemptions DEF PreparedNext, ExemptionNext, exemptionVars
<1> QED
  BY <1>1, <1>2, <1>3, <1>4

LEMMA ReaderRulesBounded ==
  ASSUME SourceInv, Limits, PreparedNext
  PROVE  Cardinality(ActiveReaderRules') <= MaxReaderRules
<1> DEFINE Continuous == {s \in DOMAIN readers : readers[s].kind = "continuous_team"}
<1>0. ActiveReaderRules = Continuous /\ ActiveReaderRules' = Continuous'
  BY DEF ActiveReaderRules, FrozenReaders
<1>1. CASE PreparedConfigureReaderRule
  <2>1. Continuous' \subseteq Continuous \union {Event}
    BY <1>1 DEF PreparedConfigureReaderRule, BatchConfigureReaderRule, ConfigureReaderRule, With
  <2>2. Cardinality(ActiveReaderRules) < MaxReaderRules
    BY <1>1 DEF PreparedConfigureReaderRule, CanConfigureReaderRule
  <2> DEFINE new == ActiveReaderRules'
  <2>3. IsFiniteSet(ActiveReaderRules) /\ new \subseteq ActiveReaderRules \union {Event}
    BY <1>0, <2>1, SmallSets
  <2> HIDE DEF new
  <2>4. /\ Cardinality(new) \in Nat /\ Cardinality(ActiveReaderRules) \in Nat
        /\ Cardinality(new) <= Cardinality(ActiveReaderRules) + 1
    BY ONLY <2>3, OneMore
  <2> QED
    BY <2>2, <2>4, ProfileLimits DEF new
<1>2. CASE Continuous' \subseteq Continuous
  <2> HIDE DEF Continuous
  <2> QED
    BY <1>0, <1>2, SmallSets, SameOrFewer, ProfileLimits DEF Limits
<1>3. CASE \/ \E u \in User : PreparedAddReaders("individual", {u})
           \/ \E users \in Groups : PreparedAddReaders("snapshot", users)
  <2>1. PICK kind, users : kind # "continuous_team" /\ AddReaders(kind, users)
    BY <1>3 DEF PreparedAddReaders, BatchAddReaders
  <2>2. Continuous' \subseteq Continuous
    BY <2>1 DEF AddReaders, With
  <2> QED
    BY <2>2, <1>2
<1>4. CASE \E source \in DOMAIN origins, u \in User : PreparedWithdrawReader(source, u)
  <2>1. PICK source, u : BatchWithdrawReader(source, u)
    BY <1>4 DEF PreparedWithdrawReader
  <2>2. readers' = readers \/ readers' = Without(readers, {source})
    BY <2>1 DEF BatchWithdrawReader
  <2>3. Continuous' \subseteq Continuous
    BY <2>2 DEF Without, Restrict
  <2> QED
    BY <2>3, <1>2
<1>5. CASE \E r \in DOMAIN readerRules : PreparedWithdrawReaderRule(r)
  <2>1. PICK r : readers' = readers \/ readers' = Without(readers, {r})
    BY <1>5 DEF PreparedWithdrawReaderRule, BatchWithdrawReaderRule, WithdrawReaderRule
  <2>2. Continuous' \subseteq Continuous
    BY <2>1 DEF Without, Restrict
  <2> QED
    BY <2>2, <1>2
<1>6. CASE UNCHANGED readers
  BY <1>2, <1>6
<1>7. \/ PreparedConfigureReaderRule
      \/ \E u \in User : PreparedAddReaders("individual", {u})
      \/ \E users \in Groups : PreparedAddReaders("snapshot", users)
      \/ \E source \in DOMAIN origins, u \in User : PreparedWithdrawReader(source, u)
      \/ \E r \in DOMAIN readerRules : PreparedWithdrawReaderRule(r)
      \/ UNCHANGED readers
  BY StillOfOthers, StillOfExemptions, StillOfReaders
     DEF PreparedNext, ReaderNext, readerVars
<1> QED
  BY <1>1, <1>3, <1>4, <1>5, <1>6, <1>7
(* The invariant says all that the projections demand. *)
LEMMA ProjectableFollows ==
  ASSUME SourceInv, Limits
  PROVE  Projectable
<1>1. \A key \in DOMAIN exemptions :
        /\ key \in knownExemptions /\ key[1] \in 1..last /\ key[2] \in User
        /\ key = <<key[1], key[2]>>
        /\ exemptions[key] \in Nat /\ exemptions[key] < sequence[key[2]]
        /\ sequence[key[2]] \in 0..last
  BY DEF SourceInv, ExemptionsFit
<1>2. TypeOK
  <2>1. last \in Nat /\ MaxEvents \in Nat /\ last <= MaxEvents
    BY EventsAreNumbered DEF SourceInv
  <2>2. /\ knownExemptions \subseteq (1..MaxEvents) \X User
        /\ sequence \in [User -> 0..MaxEvents]
        /\ knownReaders \subseteq (1..MaxEvents) \X User
    <3>1. 1..last \subseteq 1..MaxEvents /\ 0..last \subseteq 0..MaxEvents
      BY <2>1
    <3> QED
      BY <3>1 DEF SourceInv, ExemptionsFit, ReadersFit
  <2>3. \A key \in DOMAIN exemptions : exemptions[key] \in 0..MaxEvents
    BY <1>1, <2>1
  <2>4. \A s \in DOMAIN memberIndex :
          {s} \X DOMAIN memberIndex[s].subjects \subseteq knownReaders
    BY DEF SourceInv, ReadersFit
  <2> QED
    BY <2>2, <2>3, <2>4 DEF TypeOK, SourceInv, ExemptionsFit, ReadersFit, GrantsFit
<1>3. IndexesComplete /\ RulesOwnExemptions /\ ReadersProjectable /\ OneOverrideOwner
  BY DEF SourceInv, ExemptionsFit, ReadersFit, GrantsFit, IndexesComplete
<1>4. SequencesDistinct
  BY <1>1 DEF SourceInv, ExemptionsFit, SequencesDistinct, ActiveSources
<1>5. DOMAIN StatusDetail = DOMAIN DerivedIndex
  BY DEF DerivedIndex
<1>6. ASSUME NEW u \in User \ DOMAIN StatusDetail
      PROVE  Sources(u) = {} /\ \A r \in DOMAIN FrozenRules : u \notin DOMAIN FrozenRules[r].cursors
  <2>1. sequence[u] = 0
    BY <1>6 DEF StatusDetail, SourceInv, ExemptionsFit
  <2>2. \A key \in DOMAIN exemptions : key[2] # u
    BY <1>1, <2>1
  <2>3. \A r \in DOMAIN cursorIndex : u \notin DOMAIN cursorIndex[r]
    BY <2>1 DEF SourceInv, ExemptionsFit
  <2>4. \A r \in DOMAIN rules : rules[r] = [active |-> rules[r].active, cursors |-> Empty]
    BY DEF SourceInv, ExemptionsFit
  <2>5. ASSUME NEW r \in DOMAIN FrozenRules PROVE u \notin DOMAIN FrozenRules[r].cursors
    <3>1. r \in DOMAIN rules
      BY DEF FrozenRules
    <3>2. FrozenRules[r].cursors = IF r \in DOMAIN cursorIndex THEN cursorIndex[r] ELSE Empty
      <4>1. FrozenRules[r] =
              [active |-> rules[r].active,
               cursors |-> IF r \in DOMAIN cursorIndex THEN cursorIndex[r] ELSE Empty]
        BY <2>4, <3>1, FrozenRuleIs
      <4> QED
        BY <4>1
    <3> QED
      BY <2>3, <3>2, EmptyIs
  <2> QED
    BY <2>2, <2>5 DEF Sources, ActiveSources
<1> QED
  BY <1>2, <1>3, <1>4, <1>5, <1>6 DEF Projectable, Limits

LEMMA PreparedStarts == PreparedInit => SourceInv /\ Limits
<1> SUFFICES ASSUME PreparedInit PROVE SourceInv /\ Limits
  OBVIOUS
<1>1. SourceInv
  BY SourceStarts DEF PreparedInit
<1>2. Standing = {} /\ ActiveReaderRules = {}
  BY EmptyIs, ContinuousOnes DEF PreparedInit, BatchInit, Init, Standing
<1> QED
  BY <1>1, <1>2, FS_EmptySet, ProfileLimits DEF Limits

LEMMA PreparedKeeps ==
  SourceInv /\ Limits /\ [PreparedNext]_preparedVars => (SourceInv /\ Limits)'
<1> SUFFICES ASSUME SourceInv, Limits, [PreparedNext]_preparedVars
             PROVE  (SourceInv /\ Limits)'
  OBVIOUS
<1>1. CASE PreparedNext
  BY <1>1, PreparedIsBatch, SourceNext, StandingBounded, ReaderRulesBounded DEF Limits
<1>2. CASE UNCHANGED preparedVars
  <2>1. UNCHANGED batchVars /\ UNCHANGED <<rules, readers>>
    BY <1>2 DEF preparedVars, batchVars, vars, exemptionVars, readerVars
  <2>2. Standing' = Standing /\ ActiveReaderRules' = ActiveReaderRules
    BY <2>1 DEF Standing, ActiveReaderRules, FrozenReaders
  <2> QED
    BY <2>1, <2>2, SourceStutters DEF Limits
<1> QED
  BY <1>1, <1>2

(* Every state a history of prepared events reaches can be projected:      *)
(* materialize_derived and the coverage projection refuse none of it, and  *)
(* no handler of the bulk fold looks for an index entry that is not there. *)
THEOREM ReachedIsProjectable == PreparedSpec => []Projectable
<1>1. SourceInv /\ Limits => Projectable
  BY ProjectableFollows
<1> QED
  BY <1>1, PreparedStarts, PreparedKeeps, PTL DEF PreparedSpec
-----------------------------------------------------------------------------
(* The batch is the fold. *)

LEMMA FrozenStays ==
  /\ UNCHANGED <<rules, cursorIndex>> => FrozenRules' = FrozenRules
  /\ UNCHANGED <<readers, memberIndex>> => FrozenReaders' = FrozenReaders
  BY DEF FrozenRules, FrozenReaders

LEMMA SameOperators ==
  /\ Fold!Event = Event
  /\ Fold!Store <=> Store
  /\ Fold!Empty = Empty
  /\ \A map, keys : Fold!Without(map, keys) = Without(map, keys)
  /\ \A map, key, value : Fold!With(map, key, value) = With(map, key, value)
  /\ \A map, more : Fold!Joined(map, more) = Joined(map, more)
  /\ \A keys : Fold!Tombstones(keys) = Tombstones(keys)
  /\ \A u : Fold!NextSequence(u) = NextSequence(u)
  /\ Fold!Groups = Groups
  /\ \A head, u : Fold!IsOverridden(head, u) <=> IsOverridden(head, u)
<1>1. Fold!Event = Event /\ (Fold!Store <=> Store) /\ Fold!Empty = Empty /\ Fold!Groups = Groups
  BY DEF Fold!Event, Event, Fold!Store, Store, Fold!Empty, Empty, Fold!Groups, Groups
<1>2. \A map, keys : Fold!Without(map, keys) = Without(map, keys)
  BY DEF Fold!Without, Without, Fold!Restrict, Restrict
<1>3. \A map, key, value : Fold!With(map, key, value) = With(map, key, value)
  BY DEF Fold!With, With
<1>4. \A map, more : Fold!Joined(map, more) = Joined(map, more)
  BY DEF Fold!Joined, Joined
<1>5. /\ \A keys : Fold!Tombstones(keys) = Tombstones(keys)
      /\ \A u : Fold!NextSequence(u) = NextSequence(u)
  BY DEF Fold!Tombstones, Tombstones, Fold!NextSequence, NextSequence
<1>6. \A head, u : Fold!IsOverridden(head, u) <=> IsOverridden(head, u)
  BY DEF Fold!IsOverridden, IsOverridden
<1> QED
  BY <1>1, <1>2, <1>3, <1>4, <1>5, <1>6

LEMMA FrozenGains ==
  ASSUME NEW s, NEW kind, NEW members, NEW cursors, DOMAIN memberIndex = DOMAIN readers,
         readers' = With(readers, s, [kind |-> kind, subjects |-> members, cursors |-> cursors]),
         memberIndex' = With(memberIndex, s, [subjects |-> members, cursors |-> cursors])
  PROVE  FrozenReaders' =
           With(FrozenReaders, s, [kind |-> kind, subjects |-> members, cursors |-> cursors])
<1>1. /\ DOMAIN readers' = DOMAIN readers \union {s}
      /\ readers'[s].kind = kind
      /\ memberIndex'[s].subjects = members /\ memberIndex'[s].cursors = cursors
      /\ \A other \in DOMAIN readers : other # s =>
           readers'[other] = readers[other] /\ memberIndex'[other] = memberIndex[other]
  BY DEF With
<1>2. FrozenReaders'[s] = [kind |-> kind, subjects |-> members, cursors |-> cursors]
  BY <1>1 DEF FrozenReaders
<1>3. \A other \in DOMAIN readers : other # s => FrozenReaders'[other] = FrozenReaders[other]
  BY <1>1 DEF FrozenReaders
<1>4. /\ FrozenReaders' = [other \in DOMAIN readers' |-> FrozenReaders'[other]]
      /\ DOMAIN FrozenReaders = DOMAIN readers
  BY DEF FrozenReaders
<1> QED
  BY <1>1, <1>2, <1>3, <1>4 DEF With

LEMMA FrozenLoses ==
  ASSUME NEW s, DOMAIN memberIndex = DOMAIN readers,
         readers' = Without(readers, {s}), memberIndex' = Without(memberIndex, {s})
  PROVE  FrozenReaders' = Without(FrozenReaders, {s})
<1>1. /\ DOMAIN readers' = DOMAIN readers \ {s}
      /\ \A other \in DOMAIN readers' :
           readers'[other] = readers[other] /\ memberIndex'[other] = memberIndex[other]
  BY DEF Without, Restrict
<1>2. \A other \in DOMAIN readers' : FrozenReaders'[other] = FrozenReaders[other]
  BY <1>1 DEF FrozenReaders
<1>3. /\ FrozenReaders' = [other \in DOMAIN readers' |-> FrozenReaders'[other]]
      /\ DOMAIN FrozenReaders = DOMAIN readers
  BY DEF FrozenReaders
<1> QED
  BY <1>1, <1>2, <1>3 DEF Without, Restrict

LEMMA FoldStarts == BatchInit => Fold!Init
<1> SUFFICES ASSUME BatchInit PROVE Fold!Init
  OBVIOUS
<1>1. rules = Empty /\ readers = Empty
  BY DEF BatchInit, Init
<1>2. FrozenRules = Empty /\ FrozenReaders = Empty
  BY <1>1 DEF FrozenRules, FrozenReaders, Empty
<1> QED
  BY <1>2, SameOperators DEF BatchInit, Init, Fold!Init

LEMMA FoldPlain ==
  ASSUME Plain
  PROVE  Fold!Next
<1>1. UNCHANGED indexes
  BY DEF Plain
<1>2. CASE Succeed
  <2>1. FrozenRules' = FrozenRules /\ FrozenReaders' = FrozenReaders
    BY <1>1, <1>2, FrozenStays DEF Succeed, exemptionVars, readerVars, indexes
  <2>2. Fold!Succeed
    BY <1>2, <2>1 DEF Succeed, Succeeds, Fold!Succeed, Fold!Succeeds, exemptionVars,
                      readerVars, Fold!exemptionVars, Fold!readerVars
  <2> QED
    BY <2>2 DEF Fold!Next
<1>3. CASE \E users \in Groups : AddSources(users)
  <2>1. PICK users \in Groups : AddSources(users)
    BY <1>3
  <2>2. FrozenRules' = FrozenRules /\ FrozenReaders' = FrozenReaders
    BY <1>1, <2>1, FrozenStays DEF AddSources, readerVars, indexes
  <2>3. Fold!AddSources(users)
    BY <2>1, <2>2, SameOperators
       DEF AddSources, Fold!AddSources, readerVars, Fold!readerVars, NextSequence,
           Fold!NextSequence, Event, Fold!Event, Joined, Fold!Joined, Tombstones, Fold!Tombstones
  <2> QED
    BY <2>3, SameOperators DEF Fold!Next
<1>4. CASE \E key \in knownExemptions : WithdrawExemption(key)
  <2>1. PICK key \in knownExemptions : WithdrawExemption(key)
    BY <1>4
  <2>2. FrozenRules' = FrozenRules /\ FrozenReaders' = FrozenReaders
    BY <1>1, <2>1, FrozenStays DEF WithdrawExemption, readerVars, indexes
  <2>3. Fold!WithdrawExemption(key)
    BY <2>1, <2>2, SameOperators
       DEF WithdrawExemption, TakesWithdrawal, Fold!WithdrawExemption, Fold!TakesWithdrawal,
           readerVars, Fold!readerVars
  <2> QED
    BY <2>3 DEF Fold!Next
<1> QED
  BY <1>2, <1>3, <1>4 DEF Plain

LEMMA FoldConfigureRule ==
  ASSUME SourceInv, BatchConfigureRule
  PROVE  Fold!ConfigureRule
<1>1. /\ rules' = With(rules, Event, [active |-> TRUE, cursors |-> Empty])
      /\ cursorIndex' = With(cursorIndex, Event, Empty)
      /\ Store /\ UNCHANGED <<readers, memberIndex>>
  BY DEF BatchConfigureRule, ConfigureRule, readerVars
<1>2. FrozenRules' = With(FrozenRules, Event, [active |-> TRUE, cursors |-> Empty])
  <2>1. /\ DOMAIN rules' = DOMAIN rules \union {Event}
        /\ rules'[Event] = [active |-> TRUE, cursors |-> Empty]
        /\ \A r \in DOMAIN rules : r # Event => rules'[r] = rules[r]
        /\ DOMAIN cursorIndex' = DOMAIN cursorIndex \union {Event}
        /\ cursorIndex'[Event] = Empty
        /\ \A r \in DOMAIN cursorIndex : r # Event => cursorIndex'[r] = cursorIndex[r]
    BY <1>1 DEF With
  <2>2. FrozenRules'[Event] = [active |-> TRUE, cursors |-> Empty]
    <3>1. /\ Event \in DOMAIN rules'
          /\ Event \in DOMAIN cursorIndex' /\ cursorIndex'[Event] = Empty
      BY <2>1, Zenon
    <3>2. FrozenRules'[Event] = [rules'[Event] EXCEPT !.cursors = Empty]
      BY ONLY <3>1 DEF FrozenRules
    <3>3. PICK a : a = TRUE /\ rules'[Event] = [active |-> a, cursors |-> Empty]
      BY <2>1, Zenon
    <3>4. rules'[Event] = [active |-> a, cursors |-> Empty]
      BY ONLY <3>3, Zenon
    <3>5. FrozenRules'[Event] = [active |-> a, cursors |-> Empty]
      BY ONLY <3>2, <3>4
    <3> QED
      BY ONLY <3>3, <3>5, Zenon
  <2>3. \A r \in DOMAIN rules : r # Event => FrozenRules'[r] = FrozenRules[r]
    BY <2>1 DEF FrozenRules
  <2>4. /\ FrozenRules' = [r \in DOMAIN rules' |-> FrozenRules'[r]]
        /\ DOMAIN FrozenRules = DOMAIN rules
    BY DEF FrozenRules
  <2> QED
    BY <2>1, <2>2, <2>3, <2>4 DEF With
<1> QED
  BY <1>1, <1>2, FrozenStays, SameOperators
     DEF BatchConfigureRule, ConfigureRule, Fold!ConfigureRule, readerVars, Fold!readerVars

LEMMA FoldWithdrawRule ==
  ASSUME SourceInv, NEW r \in DOMAIN rules, BatchWithdrawRule(r)
  PROVE  Fold!WithdrawRule(r)
<1>1. /\ DOMAIN cursorIndex' = DOMAIN cursorIndex \ {r}
      /\ \A s \in DOMAIN cursorIndex' : cursorIndex'[s] = cursorIndex[s]
  BY DEF BatchWithdrawRule, DropCursors, Without, Restrict
<1>2. FrozenReaders' = FrozenReaders
  BY FrozenStays DEF BatchWithdrawRule, readerVars
<1>3. FrozenRules[r] =
        [active |-> rules[r].active,
         cursors |-> IF r \in DOMAIN cursorIndex THEN cursorIndex[r] ELSE Empty]
  BY FrozenRuleIs DEF SourceInv, ExemptionsFit
<1>4. FrozenRules[r].active = rules[r].active /\ DOMAIN FrozenRules = DOMAIN rules
  BY <1>3 DEF FrozenRules
<1>5. CASE rules[r].active
  <2>1. /\ r \in DOMAIN cursorIndex
        /\ rules' = [rules EXCEPT ![r] = [active |-> FALSE, cursors |-> Empty]]
        /\ exemptions' = Without(exemptions, {r} \X DOMAIN cursorIndex[r])
    BY <1>5 DEF BatchWithdrawRule, TakesRuleWithdrawal, Materialized
  <2>2. FrozenRules[r].cursors = cursorIndex[r]
    BY <1>3, <2>1
  <2>3. FrozenRules'[r] = [active |-> FALSE, cursors |-> Empty]
    BY <1>1, <2>1 DEF FrozenRules
  <2>4. \A s \in DOMAIN rules : s # r => FrozenRules'[s] = FrozenRules[s]
    BY <1>1, <2>1 DEF FrozenRules
  <2>5. FrozenRules' = [s \in DOMAIN rules |-> FrozenRules'[s]]
    BY <2>1 DEF FrozenRules
  <2>6. FrozenRules' = [FrozenRules EXCEPT ![r] = [active |-> FALSE, cursors |-> Empty]]
    BY <1>4, <2>3, <2>4, <2>5
  <2> QED
    BY <1>2, <1>4, <1>5, <2>1, <2>2, <2>6, SameOperators
       DEF BatchWithdrawRule, TakesRuleWithdrawal, Fold!WithdrawRule, Fold!SourcesLeft,
           readerVars, Fold!readerVars
<1>6. CASE ~ rules[r].active
  <2>1. UNCHANGED <<rules, exemptions>> /\ r \notin DOMAIN cursorIndex
    BY <1>6 DEF BatchWithdrawRule, SourceInv, ExemptionsFit
  <2>2. FrozenRules' = FrozenRules
    BY <1>1, <2>1 DEF FrozenRules
  <2> QED
    BY <1>2, <1>4, <1>6, <2>1, <2>2
       DEF BatchWithdrawRule, TakesRuleWithdrawal, Fold!WithdrawRule, Fold!SourcesLeft,
           readerVars, Fold!readerVars
<1> QED
  BY <1>5, <1>6

LEMMA FoldMaterialize ==
  ASSUME SourceInv, NEW r \in DOMAIN rules, NEW u \in User, NEW result \in Result,
         BatchMaterialize(r, u, result)
  PROVE  Fold!Materialize(r, u, result)
<1>1. /\ r \in DOMAIN cursorIndex /\ rules' = rules /\ rules[r].active
      /\ cursorIndex' = [cursorIndex EXCEPT ![r] = With(@, u, Event)]
  BY DEF BatchMaterialize, TakesMaterialization, Advance
<1>2. FrozenReaders' = FrozenReaders
  BY FrozenStays DEF BatchMaterialize, readerVars
<1>3. PICK a : rules[r] = [active |-> a, cursors |-> Empty]
  BY DEF SourceInv, ExemptionsFit
<1>4. /\ FrozenRules[r] = [active |-> a, cursors |-> cursorIndex[r]]
      /\ FrozenRules'[r] = [active |-> a, cursors |-> With(cursorIndex[r], u, Event)]
      /\ \A s \in DOMAIN rules : s # r => FrozenRules'[s] = FrozenRules[s]
      /\ FrozenRules' = [s \in DOMAIN rules |-> FrozenRules'[s]]
      /\ DOMAIN FrozenRules = DOMAIN rules
  <2>1. /\ DOMAIN cursorIndex' = DOMAIN cursorIndex
        /\ cursorIndex'[r] = With(cursorIndex[r], u, Event)
        /\ \A s \in DOMAIN rules : s # r => cursorIndex'[s] = cursorIndex[s]
    BY <1>1
  <2>2. /\ FrozenRules[r] = [rules[r] EXCEPT !.cursors = cursorIndex[r]]
        /\ FrozenRules'[r] = [rules[r] EXCEPT !.cursors = cursorIndex'[r]]
    BY <1>1, <2>1 DEF FrozenRules
  <2>3. /\ FrozenRules[r] = [active |-> a, cursors |-> cursorIndex[r]]
        /\ FrozenRules'[r] = [active |-> a, cursors |-> With(cursorIndex[r], u, Event)]
    BY <1>3, <2>1, <2>2
  <2>4. \A s \in DOMAIN rules : s # r => FrozenRules'[s] = FrozenRules[s]
    BY <1>1, <2>1 DEF FrozenRules
  <2>5. /\ FrozenRules' = [s \in DOMAIN rules |-> FrozenRules'[s]]
        /\ DOMAIN FrozenRules = DOMAIN rules
    BY <1>1 DEF FrozenRules
  <2> QED
    BY <2>3, <2>4, <2>5
<1>5. FrozenRules' = [FrozenRules EXCEPT ![r].cursors = With(@, u, Event)]
  BY <1>4
<1>6. FrozenRules[r].active
  BY <1>1, <1>3, <1>4
<1>7. CASE result = "add"
  <2>1. /\ exemptions' = With(exemptions, <<r, u>>, NextSequence(u))
        /\ knownExemptions' = Tombstones({<<r, u>>})
        /\ sequence' = [sequence EXCEPT ![u] = @ + 1]
        /\ Store
        /\ project = "active" \/ result = "withdraw"
        /\ <<r, u>> \in DOMAIN exemptions <=> result = "withdraw"
        /\ UNCHANGED <<project, readerRules, knownReaders, grants>>
    BY <1>7 DEF BatchMaterialize, TakesMaterialization, readerVars
  <2>2. /\ exemptions' = Fold!With(exemptions, <<r, u>>, Fold!NextSequence(u))
        /\ knownExemptions' = Fold!Tombstones({<<r, u>>})
    BY <2>1, SameOperators
  <2>3. FrozenRules' = [FrozenRules EXCEPT ![r].cursors = Fold!With(@, u, Fold!Event)]
    BY <1>5, SameOperators
  <2> QED
    BY <1>2, <1>6, <1>7, <2>1, <2>2, <2>3, SameOperators DEF Fold!Materialize, Fold!readerVars
<1>8. CASE result = "withdraw"
  BY <1>2, <1>5, <1>6, <1>8, SameOperators
     DEF BatchMaterialize, TakesMaterialization, Fold!Materialize, readerVars, Fold!readerVars
<1> QED
  BY <1>7, <1>8 DEF Result
LEMMA FoldAddReaders ==
  ASSUME SourceInv, NEW kind, NEW users, BatchAddReaders(kind, users)
  PROVE  Fold!AddReaders(kind, users)
<1> DEFINE members == [u \in users |-> Event]
<1>1. /\ readers' = With(readers, Event, [kind |-> kind, subjects |-> members, cursors |-> Empty])
      /\ memberIndex' = With(memberIndex, Event, [subjects |-> members, cursors |-> Empty])
      /\ knownReaders' = knownReaders \union ({Event} \X users)
      /\ Store
      /\ UNCHANGED <<project, readerRules, exemptions, rules, knownExemptions, sequence, grants,
                     cursorIndex>>
  BY DEF BatchAddReaders, AddReaders, exemptionVars
<1>2. FrozenReaders' =
        With(FrozenReaders, Event, [kind |-> kind, subjects |-> members, cursors |-> Empty])
  <2> HIDE DEF members
  <2> QED
    BY <1>1, FrozenGains DEF SourceInv, ReadersFit
<1>3. FrozenRules' = FrozenRules
  BY <1>1, FrozenStays
<1> QED
  BY <1>1, <1>2, <1>3, SameOperators DEF Fold!AddReaders, Fold!exemptionVars

LEMMA FoldConfigureReaderRule ==
  ASSUME SourceInv, BatchConfigureReaderRule
  PROVE  Fold!ConfigureReaderRule
<1>1. /\ readers' = With(readers, Event,
                         [kind |-> "continuous_team", subjects |-> Empty, cursors |-> Empty])
      /\ memberIndex' = With(memberIndex, Event, [subjects |-> Empty, cursors |-> Empty])
      /\ readerRules' = With(readerRules, Event, TRUE)
      /\ Store
      /\ UNCHANGED <<project, knownReaders, exemptions, rules, knownExemptions, sequence, grants,
                     cursorIndex>>
  BY DEF BatchConfigureReaderRule, ConfigureReaderRule, exemptionVars
<1>2. FrozenReaders' =
        With(FrozenReaders, Event,
             [kind |-> "continuous_team", subjects |-> Empty, cursors |-> Empty])
  BY <1>1, FrozenGains DEF SourceInv, ReadersFit
<1>3. FrozenRules' = FrozenRules
  BY <1>1, FrozenStays
<1> QED
  BY <1>1, <1>2, <1>3, SameOperators DEF Fold!ConfigureReaderRule, Fold!exemptionVars

LEMMA FoldWithdrawReaderRule ==
  ASSUME SourceInv, NEW r \in DOMAIN readerRules, BatchWithdrawReaderRule(r)
  PROVE  Fold!WithdrawReaderRule(r)
<1>1. /\ memberIndex' = Without(memberIndex, {r})
      /\ UNCHANGED <<project, last, knownReaders, exemptions, rules, knownExemptions, sequence,
                     grants, cursorIndex>>
  BY DEF BatchWithdrawReaderRule, WithdrawReaderRule, exemptionVars
<1>2. FrozenRules' = FrozenRules
  BY <1>1, FrozenStays
<1>3. CASE readerRules[r]
  <2>1. readerRules' = [readerRules EXCEPT ![r] = FALSE] /\ readers' = Without(readers, {r})
    BY <1>3 DEF BatchWithdrawReaderRule, WithdrawReaderRule
  <2>2. FrozenReaders' = Without(FrozenReaders, {r})
    BY <1>1, <2>1, FrozenLoses DEF SourceInv, ReadersFit
  <2> QED
    BY <1>1, <1>2, <1>3, <2>1, <2>2, SameOperators DEF Fold!WithdrawReaderRule, Fold!exemptionVars
<1>4. CASE ~ readerRules[r]
  <2>1. UNCHANGED <<readerRules, readers>> /\ r \notin DOMAIN readers
    BY <1>4 DEF BatchWithdrawReaderRule, WithdrawReaderRule, SourceInv, ReadersFit,
                ReadersProjectable
  <2>2. FrozenReaders' = FrozenReaders
    BY <1>1, <2>1 DEF FrozenReaders, SourceInv, ReadersFit, Without, Restrict
  <2> QED
    BY <1>1, <1>2, <1>4, <2>1, <2>2 DEF Fold!WithdrawReaderRule, Fold!exemptionVars
<1> QED
  BY <1>3, <1>4

LEMMA FoldWithdrawReader ==
  ASSUME SourceInv, NEW source, NEW u, BatchWithdrawReader(source, u)
  PROVE  Fold!WithdrawReader(source, u)
<1> DEFINE members == Without(memberIndex[source].subjects, {u})
<1>1. /\ <<source, u>> \in knownReaders
      /\ UNCHANGED <<project, last, readerRules, knownReaders, exemptions, rules,
                     knownExemptions, sequence, grants, cursorIndex>>
      /\ DOMAIN memberIndex = DOMAIN readers
  BY DEF BatchWithdrawReader, TakesReaderWithdrawal, exemptionVars, SourceInv, ReadersFit
<1>2. FrozenRules' = FrozenRules
  BY <1>1, FrozenStays
<1>3. /\ DOMAIN FrozenReaders = DOMAIN readers
      /\ source \in DOMAIN readers =>
           /\ FrozenReaders[source] =
                [kind |-> readers[source].kind, subjects |-> memberIndex[source].subjects,
                 cursors |-> memberIndex[source].cursors]
           /\ FrozenReaders[source].kind = readers[source].kind
           /\ FrozenReaders[source].subjects = memberIndex[source].subjects
  BY DEF FrozenReaders
<1>4. CASE ~ (source \in DOMAIN readers /\ u \in DOMAIN memberIndex[source].subjects)
  <2>1. UNCHANGED <<readers, memberIndex>>
    BY <1>4 DEF BatchWithdrawReader
  <2>2. FrozenReaders' = FrozenReaders
    BY <2>1, FrozenStays
  <2> QED
    BY <1>1, <1>2, <1>3, <1>4, <2>2 DEF Fold!WithdrawReader, Fold!ReadersLeft, Fold!exemptionVars
<1>5. CASE source \in DOMAIN readers /\ u \in DOMAIN memberIndex[source].subjects
  <2>1. /\ memberIndex' = LeaveMembers(source, members)
        /\ readers' = IF Remains(source, members) THEN readers ELSE Without(readers, {source})
        /\ Fold!Without(FrozenReaders[source].subjects, {u}) = members
    BY <1>3, <1>5, SameOperators DEF BatchWithdrawReader
  <2> HIDE DEF members
  <2>2. Fold!Remains(source, members) <=> Remains(source, members)
    BY <1>3, <1>5, SameOperators DEF Fold!Remains, Remains
  <2>3. CASE Remains(source, members)
    <3>1. readers' = readers /\ memberIndex' = [memberIndex EXCEPT ![source].subjects = members]
      BY <2>1, <2>3 DEF LeaveMembers
    <3>2. PICK a, b : memberIndex[source] = [subjects |-> a, cursors |-> b]
      BY <1>1, <1>5 DEF SourceInv, ReadersFit
    <3>3. /\ memberIndex'[source] = [subjects |-> members, cursors |-> b]
          /\ \A s \in DOMAIN readers : s # source => memberIndex'[s] = memberIndex[s]
      BY <1>1, <1>5, <3>1, <3>2
    <3>4. /\ FrozenReaders'[source] =
               [kind |-> readers[source].kind, subjects |-> members, cursors |-> b]
          /\ FrozenReaders[source] =
               [kind |-> readers[source].kind, subjects |-> a, cursors |-> b]
          /\ \A s \in DOMAIN readers : s # source => FrozenReaders'[s] = FrozenReaders[s]
          /\ FrozenReaders' = [s \in DOMAIN readers |-> FrozenReaders'[s]]
      BY <1>5, <3>1, <3>2, <3>3 DEF FrozenReaders
    <3>5. FrozenReaders' = [FrozenReaders EXCEPT ![source].subjects = members]
      BY <1>3, <3>4
    <3> QED
      BY <1>1, <1>2, <1>3, <1>5, <2>1, <2>2, <2>3, <3>5
         DEF Fold!WithdrawReader, Fold!ReadersLeft, Fold!exemptionVars
  <2>4. CASE ~ Remains(source, members)
    <3>1. readers' = Without(readers, {source}) /\ memberIndex' = Without(memberIndex, {source})
      BY <2>1, <2>4 DEF LeaveMembers
    <3>2. FrozenReaders' = Without(FrozenReaders, {source})
      BY <1>1, <3>1, FrozenLoses
    <3> QED
      BY <1>1, <1>2, <1>3, <1>5, <2>1, <2>2, <2>4, <3>2, SameOperators
         DEF Fold!WithdrawReader, Fold!ReadersLeft, Fold!exemptionVars
  <2> QED
    BY <2>3, <2>4
<1> QED
  BY <1>4, <1>5

LEMMA FoldMaterializeReader ==
  ASSUME SourceInv, NEW r \in DOMAIN readerRules, NEW u \in User, NEW result \in Result,
         BatchMaterializeReader(r, u, result)
  PROVE  Fold!MaterializeReader(r, u, result)
<1> DEFINE old == memberIndex[r].subjects
           members == IF result = "add" THEN With(old, u, Event) ELSE Without(old, {u})
           cursors == With(memberIndex[r].cursors, u, Event)
<1>1. /\ r \in DOMAIN readers /\ readerRules[r] /\ Store
      /\ project = "active" \/ result = "withdraw"
      /\ u \in DOMAIN old <=> result = "withdraw"
      /\ knownReaders' = knownReaders \union {<<r, u>>}
      /\ UNCHANGED <<project, readers, readerRules, exemptions, rules, knownExemptions,
                     sequence, grants, cursorIndex>>
      /\ memberIndex' = [memberIndex EXCEPT ![r].cursors = cursors, ![r].subjects = members]
      /\ DOMAIN memberIndex = DOMAIN readers
  BY DEF BatchMaterializeReader, TakesReaderMaterialization, exemptionVars, SourceInv, ReadersFit
<1>2. FrozenRules' = FrozenRules
  BY <1>1, FrozenStays
<1>3. PICK a, b : memberIndex[r] = [subjects |-> a, cursors |-> b]
  BY <1>1 DEF SourceInv, ReadersFit
<1>4. a = memberIndex[r].subjects /\ b = memberIndex[r].cursors
  BY <1>3
<1>5. /\ cursors = Fold!With(b, u, Fold!Event)
      /\ members = IF result = "add" THEN Fold!With(a, u, Fold!Event) ELSE Fold!Without(a, {u})
  BY <1>4, SameOperators
<1> HIDE DEF members, cursors
<1>6. /\ memberIndex'[r] = [subjects |-> members, cursors |-> cursors]
      /\ \A s \in DOMAIN readers : s # r => memberIndex'[s] = memberIndex[s]
  BY <1>1, <1>3
<1>7. /\ FrozenReaders'[r] =
           [kind |-> readers[r].kind, subjects |-> members, cursors |-> cursors]
      /\ FrozenReaders[r] = [kind |-> readers[r].kind, subjects |-> a, cursors |-> b]
      /\ \A s \in DOMAIN readers : s # r => FrozenReaders'[s] = FrozenReaders[s]
      /\ FrozenReaders' = [s \in DOMAIN readers |-> FrozenReaders'[s]]
      /\ DOMAIN FrozenReaders = DOMAIN readers
  <2>1. /\ memberIndex[r].subjects = a /\ memberIndex[r].cursors = b
        /\ memberIndex'[r].subjects = members /\ memberIndex'[r].cursors = cursors
        /\ readers' = readers /\ r \in DOMAIN readers
    BY <1>1, <1>3, <1>6
  <2>2. /\ FrozenReaders'[r] =
             [kind |-> readers[r].kind, subjects |-> members, cursors |-> cursors]
        /\ FrozenReaders[r] = [kind |-> readers[r].kind, subjects |-> a, cursors |-> b]
    BY ONLY <2>1 DEF FrozenReaders
  <2>3. \A s \in DOMAIN readers : s # r => FrozenReaders'[s] = FrozenReaders[s]
    BY <1>6, <2>1 DEF FrozenReaders
  <2>4. /\ FrozenReaders' = [s \in DOMAIN readers |-> FrozenReaders'[s]]
        /\ DOMAIN FrozenReaders = DOMAIN readers
    BY <2>1 DEF FrozenReaders
  <2> QED
    BY <2>2, <2>3, <2>4
<1>8. FrozenReaders' = [FrozenReaders EXCEPT ![r].cursors = cursors, ![r].subjects = members]
  <2>1. r \in DOMAIN readers
    BY <1>1
  <2>2. PICK record, kind :
          record = FrozenReaders[r] /\ record = [kind |-> kind, subjects |-> a, cursors |-> b]
                                   /\ kind = readers[r].kind
    BY <1>7
  <2> DEFINE once == [record EXCEPT !.cursors = cursors]
             twice == [once EXCEPT !.subjects = members]
  <2>3. once = [kind |-> kind, subjects |-> a, cursors |-> cursors]
    BY ONLY <2>2
  <2>4. twice = [kind |-> kind, subjects |-> members, cursors |-> cursors]
    <3> HIDE DEF once
    <3> QED
      BY ONLY <2>3 DEF twice
  <2> HIDE DEF once, twice
  <2>5. FrozenReaders'[r] = twice
    BY <1>7, <2>2, <2>4
  <2>6. FrozenReaders' = [FrozenReaders EXCEPT ![r] = twice]
    BY ONLY <1>7, <2>1, <2>5
  <2>7. twice = [[FrozenReaders[r] EXCEPT !.cursors = cursors] EXCEPT !.subjects = members]
    BY <2>2 DEF twice, once
  <2> QED
    BY ONLY <1>7, <2>1, <2>6, <2>7
<1>9. FrozenReaders[r].subjects = a /\ FrozenReaders[r].cursors = b
  BY <1>7
<1>10. FrozenReaders' =
        [FrozenReaders EXCEPT
           ![r].cursors = Fold!With(@, u, Fold!Event),
           ![r].subjects = IF result = "add" THEN Fold!With(@, u, Fold!Event)
                                             ELSE Fold!Without(@, {u})]
  BY <1>5, <1>8, <1>9
<1> QED
  BY <1>1, <1>2, <1>4, <1>7, <1>9, <1>10, SameOperators
     DEF Fold!MaterializeReader, Fold!exemptionVars

LEMMA FoldGrant ==
  ASSUME SourceInv, NEW head \in Head, NEW users \in Groups, BatchGrant(head, users)
  PROVE  Fold!Grant(head, users)
<1>1. FrozenRules' = FrozenRules /\ FrozenReaders' = FrozenReaders
  BY FrozenStays DEF BatchGrant, exemptionVars, readerVars
<1>2. \A u \in users : ~ IsOverridden(head, u)
  BY DEF BatchGrant, TakesGrant, SourceInv, GrantsFit, Groups
<1> QED
  BY <1>1, <1>2, SameOperators
     DEF BatchGrant, TakesGrant, Fold!Grant, exemptionVars, readerVars, Fold!exemptionVars,
         Fold!readerVars

LEMMA FoldWithdrawGrant ==
  ASSUME SourceInv, NEW g \in DOMAIN grants, BatchWithdrawGrant(g)
  PROVE  Fold!WithdrawGrant(g)
<1>1. FrozenRules' = FrozenRules /\ FrozenReaders' = FrozenReaders
  BY FrozenStays DEF BatchWithdrawGrant, WithdrawGrant, exemptionVars, readerVars
<1> QED
  BY <1>1
     DEF BatchWithdrawGrant, WithdrawGrant, TakesGrantWithdrawal, Fold!WithdrawGrant,
         Fold!TakesGrantWithdrawal, exemptionVars, readerVars, Fold!exemptionVars, Fold!readerVars
LEMMA FoldNext ==
  ASSUME SourceInv, BatchNext
  PROVE  Fold!Next
<1>1. CASE Plain
  BY <1>1, FoldPlain
<1>2. CASE BatchConfigureRule
  BY <1>2, FoldConfigureRule DEF Fold!Next
<1>3. DOMAIN FrozenRules = DOMAIN rules
  BY DEF FrozenRules
<1>4. CASE \E r \in DOMAIN rules : BatchWithdrawRule(r)
  BY <1>3, <1>4, FoldWithdrawRule DEF Fold!Next
<1>5. CASE \E r \in DOMAIN rules, u \in User, result \in {"add", "withdraw"} :
             BatchMaterialize(r, u, result)
  BY <1>3, <1>5, FoldMaterialize DEF Fold!Next, Result
<1>6. CASE \E u \in User : BatchAddReaders("individual", {u})
  BY <1>6, FoldAddReaders DEF Fold!Next
<1>7. CASE \E users \in Groups : BatchAddReaders("snapshot", users)
  BY <1>7, FoldAddReaders, SameOperators DEF Fold!Next
<1>8. CASE \E key \in knownReaders : BatchWithdrawReader(key[1], key[2])
  BY <1>8, FoldWithdrawReader DEF Fold!Next
<1>9. CASE BatchConfigureReaderRule
  BY <1>9, FoldConfigureReaderRule DEF Fold!Next
<1>10. CASE \E r \in DOMAIN readerRules : BatchWithdrawReaderRule(r)
  BY <1>10, FoldWithdrawReaderRule DEF Fold!Next
<1>11. CASE \E r \in DOMAIN readerRules, u \in User, result \in {"add", "withdraw"} :
              BatchMaterializeReader(r, u, result)
  BY <1>11, FoldMaterializeReader DEF Fold!Next, Result
<1>12. CASE \E head \in Head, users \in Groups : BatchGrant(head, users)
  BY <1>12, FoldGrant, SameOperators DEF Fold!Next
<1>13. CASE \E g \in DOMAIN grants : BatchWithdrawGrant(g)
  BY <1>13, FoldWithdrawGrant DEF Fold!Next
<1> QED
  BY <1>1, <1>2, <1>4, <1>5, <1>6, <1>7, <1>8, <1>9, <1>10, <1>11, <1>12, <1>13 DEF BatchNext

LEMMA SourceKeeps == SourceInv /\ [BatchNext]_batchVars => SourceInv'
  BY SourceNext, SourceStutters

LEMMA FoldSteps == SourceInv /\ [BatchNext]_batchVars => [Fold!Next]_(Fold!vars)
<1> SUFFICES ASSUME SourceInv, [BatchNext]_batchVars PROVE [Fold!Next]_(Fold!vars)
  OBVIOUS
<1>1. CASE BatchNext
  BY <1>1, FoldNext
<1>2. CASE UNCHANGED batchVars
  <2>1. /\ UNCHANGED <<rules, cursorIndex, readers, memberIndex>>
        /\ UNCHANGED <<project, last, exemptions, knownExemptions, sequence, readerRules,
                       knownReaders, grants>>
    BY <1>2 DEF batchVars, vars, indexes, exemptionVars, readerVars
  <2>2. FrozenRules' = FrozenRules /\ FrozenReaders' = FrozenReaders
    BY <2>1, FrozenStays
  <2> QED
    BY <2>1, <2>2 DEF Fold!vars, Fold!exemptionVars, Fold!readerVars
<1> QED
  BY <1>1, <1>2

(* Full replay and incremental replay are one: whatever replay_events does *)
(* in place to its accumulator, apply_event does to the state the          *)
(* accumulator freezes to, from the empty history on and for any users,    *)
(* heads and number of events.                                             *)
THEOREM BulkIsIncremental == BatchSpec => BatchIsFold
  BY SourceStarts, SourceKeeps, FoldStarts, FoldSteps, PTL DEF BatchSpec, BatchIsFold, Fold!Spec

(* So of what is prepared: replayed in bulk or event by event, it comes to *)
(* the same state.                                                         *)
COROLLARY PreparedReplaysAlike == PreparedSpec => BatchIsFold
<1>1. PreparedInit => BatchInit
  BY DEF PreparedInit
<1>2. [PreparedNext]_preparedVars => [BatchNext]_batchVars
  BY PreparedIsBatch DEF preparedVars
<1> QED
  BY <1>1, <1>2, BulkIsIncremental, PTL DEF PreparedSpec, BatchSpec

-----------------------------------------------------------------------------
(* The classes a package advances. *)

Ever == {u \in User : sequence[u] > 0}

LEMMA IndexIs == DerivedIndex = [u \in Ever |-> Sources(u) # {}]
<1>1. DOMAIN StatusDetail = Ever
  BY DEF StatusDetail, Ever
<1>2. ASSUME NEW u \in Ever PROVE IsExempt(StatusDetail[u]) <=> Sources(u) # {}
  <2>1. StatusDetail[u].sources = [s \in Sources(u) |-> exemptions[<<s, u>>]]
    BY <1>2 DEF StatusDetail, StatusRow, Ever
  <2>2. [s \in Sources(u) |-> exemptions[<<s, u>>]] # Empty <=> Sources(u) # {}
    BY DEF Empty
  <2> QED
    BY <2>1, <2>2 DEF IsExempt
<1>3. \A u \in Ever : IsExempt(StatusDetail[u]) = (Sources(u) # {})
  BY <1>2 DEF IsExempt
<1> QED
  BY <1>1, <1>3, Zenon DEF DerivedIndex

LEMMA IndexStays == UNCHANGED <<exemptions, sequence>> => DerivedIndex' = DerivedIndex
<1> SUFFICES ASSUME UNCHANGED <<exemptions, sequence>> PROVE DerivedIndex' = DerivedIndex
  OBVIOUS
<1> QED
  BY DEF DerivedIndex, IsExempt, StatusDetail, StatusRow, Sources, ActiveSources

LEMMA DetailStays ==
  UNCHANGED <<exemptions, sequence, rules, cursorIndex>> =>
    StatusDetail' = StatusDetail /\ Standing' = Standing
  BY DEF StatusDetail, StatusRow, Sources, ActiveSources, Standing, FrozenRules

LEMMA ContentsAre ==
  /\ Contents["derived_index"] = DerivedIndex
  /\ Contents["status_detail"] = <<StatusDetail, Standing>>
  /\ Contents["reader_authority"] = FrozenReaders
  BY DEF Contents

LEMMA WhatIsAffected ==
  ASSUME NEW source, NEW u
  PROVE  /\ \A type \in {"exemption", "exemption_source_withdrawn", "exemption_materialized"} :
              AffectedClasses(type, source, u) = {"derived_index", "status_detail"}
         /\ AffectedClasses("exemption_rule_configured", source, u) = {"status_detail"}
         /\ AffectedClasses("exemption_rule_withdrawn", source, u) = RetirementTouches(source)
         /\ \A type \in {"records_reader_authorized", "records_reader_rule_configured",
                         "records_reader_materialized"} :
              AffectedClasses(type, source, u) = {"reader_authority"}
         /\ AffectedClasses("records_reader_withdrawn", source, u) =
              ForgettingTouches(source, u)
         /\ AffectedClasses("records_reader_rule_withdrawn", source, u) =
              RuleForgettingTouches(source)
  BY DEF AffectedClasses
(* A withdrawn rule moves the index only if it was somebody's only source. *)
LEMMA IndexOutlivesRule ==
  ASSUME SourceInv, NEW r \in DOMAIN rules, BatchWithdrawRule(r),
         ~ \E u \in User : Sources(u) = {r}
  PROVE  DerivedIndex' = DerivedIndex
<1>1. (DerivedIndex = [u \in Ever |-> Sources(u) # {}])'
  BY IndexIs, PTL
<1>2. sequence' = sequence /\ Ever' = Ever
  BY DEF BatchWithdrawRule, Ever
<1>3. \A key \in DOMAIN exemptions' : key \in DOMAIN exemptions
  BY DEF BatchWithdrawRule, Without, Restrict
<1>4. \A key \in DOMAIN exemptions : key[1] # r => key \in DOMAIN exemptions'
  BY DEF BatchWithdrawRule, Without, Restrict
<1>5. ASSUME NEW u \in User PROVE (Sources(u) # {})' <=> Sources(u) # {}
  <2>1. ASSUME Sources(u) # {} PROVE Sources(u)' # {}
    <3>1. PICK s \in Sources(u) : s # r
      BY <2>1
    <3>2. PICK key \in DOMAIN exemptions : key[2] = u /\ key[1] = s
      BY <3>1 DEF Sources, ActiveSources
    <3>3. key \in DOMAIN exemptions'
      BY <1>4, <3>1, <3>2
    <3> QED
      BY <3>2, <3>3 DEF Sources, ActiveSources
  <2>2. ASSUME Sources(u)' # {} PROVE Sources(u) # {}
    BY <1>3, <2>2 DEF Sources, ActiveSources
  <2> QED
    BY <2>1, <2>2
<1>6. \A u \in Ever : (Sources(u)' # {}) = (Sources(u) # {})
  BY <1>5 DEF Ever
<1>7. DerivedIndex' = [u \in Ever |-> Sources(u)' # {}]
  BY <1>1, <1>2
<1> QED
  BY <1>6, <1>7, IndexIs, Zenon

LEMMA ExemptionsCovered ==
  ASSUME SourceInv, ExemptionNext, NEW c \in Class, Contents'[c] # Contents[c]
  PROVE  c \in advanced'
<1>1. Contents'["reader_authority"] = Contents["reader_authority"]
  BY StillOfExemptions, FrozenStays DEF Contents, readerVars
<1>2. c \in {"derived_index", "status_detail"}
  BY <1>1 DEF Class
<1>3. CASE \/ \E users \in Groups : PreparedAdd(users)
           \/ \E source \in DOMAIN origins, u \in User : PreparedWithdrawExemption(source, u)
           \/ \E r \in DOMAIN rules, u \in User, result \in Result, prior \in 0..last :
                PreparedMaterialize(r, u, result, prior)
  <2>1. /\ \A users : PreparedAdd(users) => \E source, u : Lands("exemption", source, u)
        /\ \A source, u : PreparedWithdrawExemption(source, u) =>
             Lands("exemption_source_withdrawn", source, u)
        /\ \A r, u, result, prior : PreparedMaterialize(r, u, result, prior) =>
             \E source, v : Lands("exemption_materialized", source, v)
    BY DEF PreparedAdd, PreparedWithdrawExemption, PreparedMaterialize
  <2>2. \A source, u : \/ Lands("exemption", source, u)
                        \/ Lands("exemption_source_withdrawn", source, u)
                        \/ Lands("exemption_materialized", source, u)
                        => advanced' = {"derived_index", "status_detail"}
    BY WhatIsAffected DEF Lands
  <2> QED
    BY <1>2, <1>3, <2>1, <2>2
<1>4. CASE PreparedConfigureRule
  <2>1. /\ UNCHANGED <<exemptions, sequence>>
        /\ Lands("exemption_rule_configured", 0, 0)
    BY <1>4 DEF PreparedConfigureRule, BatchConfigureRule, ConfigureRule
  <2>2. DerivedIndex' = DerivedIndex
    BY <2>1, IndexStays
  <2>3. c # "derived_index"
    BY <2>2 DEF Contents
  <2> QED
    BY <1>2, <2>1, <2>3, WhatIsAffected DEF Lands
<1>5. CASE \E r \in DOMAIN rules : PreparedWithdrawRule(r)
  <2>1. PICK r \in DOMAIN rules : PreparedWithdrawRule(r)
    BY <1>5
  <2>2. advanced' = RetirementTouches(r) /\ BatchWithdrawRule(r)
    BY <2>1, WhatIsAffected DEF PreparedWithdrawRule, Lands
  <2>3. CASE \E u \in User : Sources(u) = {r}
    BY <1>2, <2>2, <2>3 DEF RetirementTouches
  <2>4. CASE ~ \E u \in User : Sources(u) = {r}
    <3>1. DerivedIndex' = DerivedIndex
      BY <2>2, <2>4, IndexOutlivesRule
    <3>2. c # "derived_index"
      BY <3>1 DEF Contents
    <3> QED
      BY <1>2, <2>2, <2>4, <3>2 DEF RetirementTouches
  <2> QED
    BY <2>3, <2>4
<1> QED
  BY <1>3, <1>4, <1>5 DEF ExemptionNext

LEMMA ReadersCovered ==
  ASSUME SourceInv, ReaderNext, NEW c \in Class, Contents'[c] # Contents[c]
  PROVE  c \in advanced'
<1>1. /\ Contents'["derived_index"] = Contents["derived_index"]
      /\ Contents'["status_detail"] = Contents["status_detail"]
  <2>1. UNCHANGED <<exemptions, sequence, rules, cursorIndex>>
    BY StillOfReaders DEF exemptionVars
  <2> QED
    BY <2>1, IndexStays, DetailStays DEF Contents
<1>2. c = "reader_authority" /\ FrozenReaders' # FrozenReaders
  BY <1>1 DEF Class, Contents
<1>3. CASE \/ \E u \in User : PreparedAddReaders("individual", {u})
           \/ \E users \in Groups : PreparedAddReaders("snapshot", users)
           \/ PreparedConfigureReaderRule
           \/ \E r \in DOMAIN readerRules, u \in User, result \in Result, prior \in 0..last :
                PreparedMaterializeReader(r, u, result, prior)
  <2>1. /\ \A kind, users : PreparedAddReaders(kind, users) =>
             \E source, u : Lands("records_reader_authorized", source, u)
        /\ PreparedConfigureReaderRule =>
             \E source, u : Lands("records_reader_rule_configured", source, u)
        /\ \A r, u, result, prior : PreparedMaterializeReader(r, u, result, prior) =>
             \E source, v : Lands("records_reader_materialized", source, v)
    BY DEF PreparedAddReaders, PreparedConfigureReaderRule, PreparedMaterializeReader
  <2>2. \A source, u : \/ Lands("records_reader_authorized", source, u)
                        \/ Lands("records_reader_rule_configured", source, u)
                        \/ Lands("records_reader_materialized", source, u)
                        => advanced' = {"reader_authority"}
    BY WhatIsAffected DEF Lands
  <2> QED
    BY <1>2, <1>3, <2>1, <2>2
<1>4. CASE \E source \in DOMAIN origins, u \in User : PreparedWithdrawReader(source, u)
  <2>1. PICK source \in DOMAIN origins, u \in User : PreparedWithdrawReader(source, u)
    BY <1>4
  <2>2. advanced' = ForgettingTouches(source, u) /\ BatchWithdrawReader(source, u)
    BY <2>1, WhatIsAffected DEF PreparedWithdrawReader, Lands
  <2>3. source \in DOMAIN readers /\ u \in DOMAIN memberIndex[source].subjects
    <3>1. SUFFICES ASSUME ~ (source \in DOMAIN readers
                             /\ u \in DOMAIN memberIndex[source].subjects)
                   PROVE  UNCHANGED <<readers, memberIndex>>
      BY <1>2, FrozenStays
    <3> QED
      BY <2>2, <3>1 DEF BatchWithdrawReader
  <2>4. /\ DOMAIN FrozenReaders = DOMAIN readers
        /\ FrozenReaders[source].subjects = memberIndex[source].subjects
    BY <2>3 DEF FrozenReaders
  <2>5. source \in AuthoritiesOf(u)
    BY <2>3, <2>4 DEF AuthoritiesOf
  <2> QED
    BY <1>2, <2>2, <2>5 DEF ForgettingTouches
<1>5. CASE \E r \in DOMAIN readerRules : PreparedWithdrawReaderRule(r)
  <2>1. PICK r \in DOMAIN readerRules : PreparedWithdrawReaderRule(r)
    BY <1>5
  <2>2. /\ advanced' = RuleForgettingTouches(r) /\ WithdrawReaderRule(r)
        /\ memberIndex' = Without(memberIndex, {r})
    BY <2>1, WhatIsAffected DEF PreparedWithdrawReaderRule, BatchWithdrawReaderRule, Lands
  <2>3. CASE r \in DOMAIN readers
    BY <1>2, <2>2, <2>3 DEF RuleForgettingTouches, FrozenReaders
  <2>4. CASE r \notin DOMAIN readers
    <3>1. ~ readerRules[r] /\ DOMAIN memberIndex = DOMAIN readers
      BY <2>4 DEF SourceInv, ReadersFit, ReadersProjectable
    <3>2. readers' = readers
      BY <2>2, <3>1 DEF WithdrawReaderRule
    <3>3. \A s \in DOMAIN readers : memberIndex'[s] = memberIndex[s]
      BY <2>2, <2>4, <3>1 DEF Without, Restrict
    <3>4. FrozenReaders' = FrozenReaders
      BY <3>2, <3>3 DEF FrozenReaders
    <3> QED
      BY <1>2, <3>4
  <2> QED
    BY <2>3, <2>4
<1> QED
  BY <1>3, <1>4, <1>5 DEF ReaderNext

LEMMA StepsCovered ==
  SourceInv /\ [PreparedNext]_preparedVars =>
    [\A c \in Class : Contents'[c] # Contents[c] => c \in advanced']_preparedVars
<1> SUFFICES ASSUME SourceInv, PreparedNext, NEW c \in Class, Contents'[c] # Contents[c]
             PROVE  c \in advanced'
  OBVIOUS
<1>1. CASE ExemptionNext
  BY <1>1, ExemptionsCovered
<1>2. CASE ReaderNext
  BY <1>2, ReadersCovered
<1>3. CASE PreparedSuccess \/ OverrideNext
  <2>1. UNCHANGED <<exemptions, sequence, rules, cursorIndex, readers, memberIndex>>
    BY <1>3, StillOfOthers DEF exemptionVars, readerVars
  <2>2. Contents' = Contents
    BY <2>1, IndexStays, DetailStays, FrozenStays DEF Contents
  <2> QED
    BY <2>2
<1> QED
  BY <1>1, <1>2, <1>3 DEF PreparedNext

(* No projection goes stale unseen: an event that changes the private      *)
(* contents of a class has a package that advances the class, for any      *)
(* number of rules, sources and users, so what publication does not        *)
(* rebuild is as it was.                                                   *)
THEOREM ChangesAreAdvanced == PreparedSpec => GenerationsCover
<1>1. SourceInv /\ Limits /\ [PreparedNext]_preparedVars =>
        [\A c \in Class : Contents'[c] # Contents[c] => c \in advanced']_preparedVars
  BY StepsCovered
<1> QED
  BY <1>1, PreparedStarts, PreparedKeeps, PTL DEF PreparedSpec, GenerationsCover
-----------------------------------------------------------------------------
(* Preparation and replay. *)

Exempting(s, u) == Established(s, u, "exemption", "exemption_rule_configured")

Reading(s, u) ==
  Established(s, u, "records_reader_authorized", "records_reader_rule_configured")

(* What a withdrawal must find established is what replay has a tombstone  *)
(* of: the source was made by its event, or by a rule that first added the *)
(* user.  Whoever has a cursor was first added, since what a rule takes    *)
(* away it once gave.                                                      *)
OriginsFit ==
  /\ DOMAIN origins \subseteq 1..last
  /\ firstAdds \subseteq (1..last) \X User
  /\ DOMAIN rules = {s \in DOMAIN origins : IsRule(s, "exemption_rule_configured")}
  /\ DOMAIN readerRules = {s \in DOMAIN origins : IsRule(s, "records_reader_rule_configured")}
  /\ \A s \in 1..last, u \in User :
       /\ <<s, u>> \in knownExemptions <=> Exempting(s, u)
       /\ <<s, u>> \in knownReaders <=> Reading(s, u)
  /\ \A r \in DOMAIN cursorIndex : \A u \in DOMAIN cursorIndex[r] : <<r, u>> \in firstAdds
  /\ \A s \in DOMAIN memberIndex : \A u \in DOMAIN memberIndex[s].cursors :
       <<s, u>> \in firstAdds

LEMMA OriginsStart == PreparedInit => OriginsFit
  BY EmptyIs DEF PreparedInit, BatchInit, Init, OriginsFit, IsRule

(* Events that make no source and observe nobody.                          *)
LEMMA OriginsStay ==
  ASSUME SourceInv, OriginsFit, last' \in Nat, last <= last',
         UNCHANGED <<origins, firstAdds, knownExemptions, knownReaders>>,
         DOMAIN rules' = DOMAIN rules, DOMAIN readerRules' = DOMAIN readerRules,
         \A r \in DOMAIN cursorIndex' :
           r \in DOMAIN cursorIndex /\ cursorIndex'[r] = cursorIndex[r],
         \A s \in DOMAIN memberIndex' :
           s \in DOMAIN memberIndex /\ memberIndex'[s].cursors = memberIndex[s].cursors
  PROVE  OriginsFit'
<1>1. last \in Nat
  BY EventsAreNumbered DEF SourceInv
<1>2. /\ DOMAIN origins' \subseteq 1..last'
      /\ firstAdds' \subseteq (1..last') \X User
  BY <1>1 DEF OriginsFit
<1>3. /\ \A s, u : Exempting(s, u)' <=> Exempting(s, u)
      /\ \A s, u : Reading(s, u)' <=> Reading(s, u)
      /\ \A s, type : IsRule(s, type)' <=> IsRule(s, type)
  BY DEF Exempting, Reading, Established, IsRule
<1>4. ASSUME NEW s \in 1..last', NEW u \in User
      PROVE  /\ <<s, u>> \in knownExemptions' <=> Exempting(s, u)'
             /\ <<s, u>> \in knownReaders' <=> Reading(s, u)'
  <2>1. CASE s \in 1..last
    BY <1>3, <2>1 DEF OriginsFit
  <2>2. CASE s \notin 1..last
    <3>1. <<s, u>> \notin knownExemptions /\ <<s, u>> \notin knownReaders
      BY <2>2 DEF SourceInv, ExemptionsFit, ReadersFit
    <3>2. ~ Exempting(s, u) /\ ~ Reading(s, u)
      BY <2>2 DEF OriginsFit, Exempting, Reading, Established
    <3> QED
      BY <1>3, <3>1, <3>2
  <2> QED
    BY <2>1, <2>2
<1> QED
  BY <1>2, <1>3, <1>4 DEF OriginsFit

(* A new source has its event and nobody with a cursor.                    *)
LEMMA OriginsGain ==
  ASSUME SourceInv, OriginsFit, Store, NEW type, NEW users \in SUBSET User,
         Originates(type, users),
         DOMAIN rules' =
           DOMAIN rules \union (IF type = "exemption_rule_configured" THEN {Event} ELSE {}),
         DOMAIN readerRules' =
           DOMAIN readerRules
             \union (IF type = "records_reader_rule_configured" THEN {Event} ELSE {}),
         type \in {"exemption_rule_configured", "records_reader_rule_configured"} => users = {},
         \A s, u : <<s, u>> \in knownExemptions' <=>
           <<s, u>> \in knownExemptions \/ (type = "exemption" /\ s = Event /\ u \in users),
         \A s, u : <<s, u>> \in knownReaders' <=>
           <<s, u>> \in knownReaders
             \/ (type = "records_reader_authorized" /\ s = Event /\ u \in users),
         \A r \in DOMAIN cursorIndex' :
           \/ r \in DOMAIN cursorIndex /\ cursorIndex'[r] = cursorIndex[r]
           \/ DOMAIN cursorIndex'[r] = {},
         \A s \in DOMAIN memberIndex' :
           \/ s \in DOMAIN memberIndex /\ memberIndex'[s] = memberIndex[s]
           \/ DOMAIN memberIndex'[s].cursors = {}
  PROVE  OriginsFit'
<1>0. PICK e : e = Event
  OBVIOUS
<1>1. last \in Nat /\ last' = last + 1 /\ e = last + 1
  BY <1>0, EventsAreNumbered DEF SourceInv, Store, Event
<1>2. e \notin 1..last /\ 1..last' = (1..last) \union {e}
  BY <1>1
<1>3. /\ DOMAIN origins' = DOMAIN origins \union {e}
      /\ e \notin DOMAIN origins
      /\ origins'[e].type = type /\ origins'[e].users = users
      /\ \A s \in DOMAIN origins : origins'[s] = origins[s]
      /\ firstAdds' = firstAdds
  BY <1>0, <1>2 DEF Originates, With, OriginsFit
<1>4. \A u : <<e, u>> \notin firstAdds
  BY <1>2 DEF OriginsFit
<1>5. /\ DOMAIN origins' \subseteq 1..last'
      /\ firstAdds' \subseteq (1..last') \X User
  BY <1>2, <1>3 DEF OriginsFit
<1>6. /\ \A s \in 1..last : \A u : Exempting(s, u)' <=> Exempting(s, u)
      /\ \A s \in 1..last : \A u : Reading(s, u)' <=> Reading(s, u)
      /\ \A s \in DOMAIN origins : \A t : IsRule(s, t)' <=> IsRule(s, t)
      /\ \A t : IsRule(e, t)' <=> t = type
  BY <1>2, <1>3 DEF Exempting, Reading, Established, IsRule
<1>7. /\ \A u : Exempting(e, u)' <=> type = "exemption" /\ u \in users
      /\ \A u : Reading(e, u)' <=> type = "records_reader_authorized" /\ u \in users
  BY <1>3, <1>4 DEF Exempting, Reading, Established
<1>8. /\ DOMAIN rules' = {s \in DOMAIN origins : IsRule(s, "exemption_rule_configured")}'
      /\ DOMAIN readerRules' =
           {s \in DOMAIN origins : IsRule(s, "records_reader_rule_configured")}'
  BY <1>0, <1>3, <1>6 DEF OriginsFit
<1>9. ASSUME NEW s \in 1..last', NEW u \in User
      PROVE  /\ <<s, u>> \in knownExemptions' <=> Exempting(s, u)'
             /\ <<s, u>> \in knownReaders' <=> Reading(s, u)'
  <2>1. CASE s \in 1..last
    BY <1>0, <1>2, <1>6, <2>1 DEF OriginsFit
  <2>2. CASE s = e
    <3>1. <<s, u>> \notin knownExemptions /\ <<s, u>> \notin knownReaders
      BY <1>2, <2>2 DEF SourceInv, ExemptionsFit, ReadersFit
    <3> QED
      BY <1>0, <1>7, <2>2, <3>1
  <2> QED
    BY <1>2, <2>1, <2>2
<1>10. /\ \A r \in DOMAIN cursorIndex' : \A u \in DOMAIN cursorIndex'[r] :
            <<r, u>> \in firstAdds'
       /\ \A s \in DOMAIN memberIndex' : \A u \in DOMAIN memberIndex'[s].cursors :
            <<s, u>> \in firstAdds'
  BY <1>3 DEF OriginsFit
<1> QED
  BY <1>5, <1>8, <1>9, <1>10 DEF OriginsFit

(* A user observed by a rule: from then on first added by it.              *)
LEMMA OriginsObserve ==
  ASSUME SourceInv, OriginsFit, last' \in Nat, last <= last',
         NEW r \in DOMAIN origins, NEW u \in User,
         IsRule(r, "exemption_rule_configured") \/ IsRule(r, "records_reader_rule_configured"),
         origins' = origins, firstAdds' = firstAdds \union {<<r, u>>},
         \A key : key \in knownExemptions' <=>
           key \in knownExemptions
             \/ (IsRule(r, "exemption_rule_configured") /\ key = <<r, u>>),
         \A key : key \in knownReaders' <=>
           key \in knownReaders
             \/ (IsRule(r, "records_reader_rule_configured") /\ key = <<r, u>>),
         DOMAIN rules' = DOMAIN rules, DOMAIN readerRules' = DOMAIN readerRules,
         \A s \in DOMAIN cursorIndex' :
           /\ s \in DOMAIN cursorIndex
           /\ \A v \in DOMAIN cursorIndex'[s] : v \in DOMAIN cursorIndex[s] \/ (s = r /\ v = u),
         \A s \in DOMAIN memberIndex' :
           /\ s \in DOMAIN memberIndex
           /\ \A v \in DOMAIN memberIndex'[s].cursors :
                v \in DOMAIN memberIndex[s].cursors \/ (s = r /\ v = u)
  PROVE  OriginsFit'
<1>1. last \in Nat /\ 1..last \subseteq 1..last' /\ r \in 1..last
  BY EventsAreNumbered DEF SourceInv, OriginsFit
<1>2. /\ DOMAIN origins' \subseteq 1..last'
      /\ firstAdds' \subseteq (1..last') \X User
  BY <1>1 DEF OriginsFit
<1>3. \A s, t : IsRule(s, t)' <=> IsRule(s, t)
  BY DEF IsRule
<1>4. /\ \A s, v : Exempting(s, v)' <=>
           Exempting(s, v) \/ (IsRule(r, "exemption_rule_configured") /\ s = r /\ v = u)
      /\ \A s, v : Reading(s, v)' <=>
           Reading(s, v) \/ (IsRule(r, "records_reader_rule_configured") /\ s = r /\ v = u)
  BY DEF Exempting, Reading, Established, IsRule
<1>5. ASSUME NEW s \in 1..last', NEW v \in User
      PROVE  /\ <<s, v>> \in knownExemptions' <=> Exempting(s, v)'
             /\ <<s, v>> \in knownReaders' <=> Reading(s, v)'
  <2>1. CASE s \in 1..last
    BY <1>4, <2>1 DEF OriginsFit
  <2>2. CASE s \notin 1..last
    <3>1. <<s, v>> \notin knownExemptions /\ <<s, v>> \notin knownReaders
      BY <2>2 DEF SourceInv, ExemptionsFit, ReadersFit
    <3>2. ~ Exempting(s, v) /\ ~ Reading(s, v) /\ s # r
      BY <1>1, <2>2 DEF OriginsFit, Exempting, Reading, Established
    <3> QED
      BY <1>4, <3>1, <3>2
  <2> QED
    BY <2>1, <2>2
<1>6. /\ \A s \in DOMAIN cursorIndex' : \A v \in DOMAIN cursorIndex'[s] :
           <<s, v>> \in firstAdds'
      /\ \A s \in DOMAIN memberIndex' : \A v \in DOMAIN memberIndex'[s].cursors :
           <<s, v>> \in firstAdds'
  BY DEF OriginsFit
<1> QED
  BY <1>2, <1>3, <1>5, <1>6 DEF OriginsFit

LEMMA MaterializeObserves ==
  ASSUME SourceInv, OriginsFit, NEW r \in DOMAIN rules, NEW u \in User, NEW result \in Result,
         NEW prior, PreparedMaterialize(r, u, result, prior)
  PROVE  OriginsFit'
<1> DEFINE key == <<r, u>>
<1>1. /\ TakesMaterialization(r, u, result) /\ Store
      /\ cursorIndex' = [cursorIndex EXCEPT ![r] = With(@, u, Event)]
      /\ UNCHANGED <<rules, knownReaders, readerRules, memberIndex>>
      /\ knownExemptions' =
           IF result = "add" THEN knownExemptions \union {key} ELSE knownExemptions
      /\ prior = IF u \in DOMAIN cursorIndex[r] THEN cursorIndex[r][u] ELSE 0
      /\ origins' = origins
      /\ firstAdds' =
           IF result = "add" /\ prior = 0 THEN firstAdds \union {key} ELSE firstAdds
  BY DEF PreparedMaterialize, BatchMaterialize, Advance, Tombstones, readerVars, ExemptionPrior,
         FirstAdded
<1>2. /\ r \in DOMAIN origins /\ IsRule(r, "exemption_rule_configured")
      /\ ~ IsRule(r, "records_reader_rule_configured")
      /\ r \in 1..last
  BY DEF OriginsFit, IsRule
<1>3. r \in DOMAIN cursorIndex /\ (key \in DOMAIN exemptions <=> result = "withdraw")
  BY <1>1 DEF TakesMaterialization
<1>4. result = "withdraw" => key \in knownExemptions /\ key \in firstAdds
  <2>1. result = "withdraw" => key \in knownExemptions
    BY <1>3 DEF SourceInv, ExemptionsFit
  <2>2. key \in knownExemptions => Exempting(r, u)
    BY <1>2 DEF OriginsFit
  <2>3. Exempting(r, u) => key \in firstAdds
    BY <1>2 DEF Exempting, Established, IsRule
  <2> QED
    BY <2>1, <2>2, <2>3
<1>5. prior # 0 => key \in firstAdds
  BY <1>1, <1>3 DEF OriginsFit
<1>6. result \in {"add", "withdraw"}
  BY DEF Result
<1>7. firstAdds' = firstAdds \union {key} /\ knownExemptions' = knownExemptions \union {key}
  BY <1>1, <1>4, <1>5, <1>6
<1>8. last' \in Nat /\ last <= last'
  BY <1>1, StoreCounts DEF SourceInv
<1>9. /\ DOMAIN cursorIndex' = DOMAIN cursorIndex
      /\ DOMAIN cursorIndex'[r] = DOMAIN cursorIndex[r] \union {u}
      /\ \A s \in DOMAIN cursorIndex : s # r => cursorIndex'[s] = cursorIndex[s]
  BY <1>1, <1>3 DEF With
<1> QED
  BY <1>1, <1>2, <1>7, <1>8, <1>9, OriginsObserve

LEMMA MaterializeReaderObserves ==
  ASSUME SourceInv, OriginsFit, NEW r \in DOMAIN readerRules, NEW u \in User,
         NEW result \in Result, NEW prior, PreparedMaterializeReader(r, u, result, prior)
  PROVE  OriginsFit'
<1> DEFINE key == <<r, u>>
<1>1. /\ TakesReaderMaterialization(r, u, result) /\ Store
      /\ memberIndex' =
           [memberIndex EXCEPT
              ![r].cursors = With(@, u, Event),
              ![r].subjects = IF result = "add" THEN With(@, u, Event)
                                                ELSE Without(@, {u})]
      /\ UNCHANGED <<rules, knownExemptions, readerRules, cursorIndex>>
      /\ knownReaders' = knownReaders \union {key}
      /\ prior = IF u \in DOMAIN memberIndex[r].cursors THEN memberIndex[r].cursors[u] ELSE 0
      /\ origins' = origins
      /\ firstAdds' =
           IF result = "add" /\ prior = 0 THEN firstAdds \union {key} ELSE firstAdds
  BY DEF PreparedMaterializeReader, BatchMaterializeReader, exemptionVars, ReaderPrior, FirstAdded
<1>2. /\ r \in DOMAIN origins /\ IsRule(r, "records_reader_rule_configured")
      /\ ~ IsRule(r, "exemption_rule_configured")
      /\ r \in 1..last
  BY DEF OriginsFit, IsRule
<1>3. r \in DOMAIN memberIndex /\ (u \in DOMAIN memberIndex[r].subjects <=> result = "withdraw")
  BY <1>1 DEF TakesReaderMaterialization
<1>4. result = "withdraw" => key \in firstAdds
  <2>1. result = "withdraw" => key \in knownReaders
    BY <1>3 DEF SourceInv, ReadersFit
  <2>2. key \in knownReaders => Reading(r, u)
    BY <1>2 DEF OriginsFit
  <2>3. Reading(r, u) => key \in firstAdds
    BY <1>2 DEF Reading, Established, IsRule
  <2> QED
    BY <2>1, <2>2, <2>3
<1>5. prior # 0 => key \in firstAdds
  BY <1>1, <1>3 DEF OriginsFit
<1>6. result \in {"add", "withdraw"}
  BY DEF Result
<1>7. firstAdds' = firstAdds \union {key}
  BY <1>1, <1>4, <1>5, <1>6
<1>8. last' \in Nat /\ last <= last'
  BY <1>1, StoreCounts DEF SourceInv
<1>9. \A s \in DOMAIN memberIndex' :
        /\ s \in DOMAIN memberIndex
        /\ \A v \in DOMAIN memberIndex'[s].cursors :
             v \in DOMAIN memberIndex[s].cursors \/ (s = r /\ v = u)
  <2>1. memberIndex[r] =
          [subjects |-> memberIndex[r].subjects, cursors |-> memberIndex[r].cursors]
    BY <1>3 DEF SourceInv, ReadersFit
  <2>2. /\ DOMAIN memberIndex' = DOMAIN memberIndex
        /\ memberIndex'[r].cursors = With(memberIndex[r].cursors, u, Event)
        /\ \A s \in DOMAIN memberIndex : s # r => memberIndex'[s] = memberIndex[s]
    BY <1>1, <1>3, <2>1
  <2> QED
    BY <2>2 DEF With
<1> QED
  BY <1>1, <1>2, <1>7, <1>8, <1>9, OriginsObserve

(* Events that begin a source.                                             *)
LEMMA NewSourcesOriginate ==
  ASSUME SourceInv, OriginsFit,
         \/ \E users \in Groups : PreparedAdd(users)
         \/ PreparedConfigureRule
         \/ \E u \in User : PreparedAddReaders("individual", {u})
         \/ \E users \in Groups : PreparedAddReaders("snapshot", users)
         \/ PreparedConfigureReaderRule
  PROVE  OriginsFit'
<1>1. ASSUME NEW users \in Groups, PreparedAdd(users) PROVE OriginsFit'
  <2>1. /\ Store /\ Originates("exemption", users)
        /\ knownExemptions' = knownExemptions \union {<<Event, u>> : u \in users}
        /\ UNCHANGED <<rules, readerRules, knownReaders, cursorIndex, memberIndex>>
    BY <1>1 DEF PreparedAdd, AddSources, Tombstones, readerVars, indexes
  <2>2. users \in SUBSET User
    BY DEF Groups
  <2> QED
    BY <2>1, <2>2, OriginsGain
<1>2. ASSUME PreparedConfigureRule PROVE OriginsFit'
  <2>1. /\ Store /\ Originates("exemption_rule_configured", {})
        /\ rules' = With(rules, Event, [active |-> TRUE, cursors |-> Empty])
        /\ cursorIndex' = With(cursorIndex, Event, Empty)
        /\ UNCHANGED <<knownExemptions, readerRules, knownReaders, memberIndex>>
    BY <1>2 DEF PreparedConfigureRule, BatchConfigureRule, ConfigureRule, readerVars
  <2>2. /\ DOMAIN rules' = DOMAIN rules \union {Event}
        /\ DOMAIN cursorIndex' = DOMAIN cursorIndex \union {Event}
        /\ \A r \in DOMAIN cursorIndex' :
             cursorIndex'[r] = IF r = Event THEN Empty ELSE cursorIndex[r]
    BY <2>1 DEF With
  <2> QED
    BY <2>1, <2>2, EmptyIs, OriginsGain
<1>3. ASSUME NEW kind, NEW users \in SUBSET User, PreparedAddReaders(kind, users)
      PROVE  OriginsFit'
  <2>1. /\ Store /\ Originates("records_reader_authorized", users)
        /\ knownReaders' = knownReaders \union ({Event} \X users)
        /\ memberIndex' = With(memberIndex, Event,
                              [subjects |-> [u \in users |-> Event], cursors |-> Empty])
        /\ UNCHANGED <<rules, knownExemptions, readerRules, cursorIndex>>
    BY <1>3 DEF PreparedAddReaders, BatchAddReaders, AddReaders, exemptionVars
  <2>2. \A s \in DOMAIN memberIndex' :
          \/ s \in DOMAIN memberIndex /\ memberIndex'[s] = memberIndex[s]
          \/ memberIndex'[s].cursors = Empty
    BY <2>1 DEF With
  <2> QED
    BY <2>1, <2>2, EmptyIs, OriginsGain
<1>4. ASSUME PreparedConfigureReaderRule PROVE OriginsFit'
  <2>1. /\ Store /\ Originates("records_reader_rule_configured", {})
        /\ readerRules' = With(readerRules, Event, TRUE)
        /\ memberIndex' = With(memberIndex, Event, [subjects |-> Empty, cursors |-> Empty])
        /\ UNCHANGED <<rules, knownExemptions, knownReaders, cursorIndex>>
    BY <1>4 DEF PreparedConfigureReaderRule, BatchConfigureReaderRule, ConfigureReaderRule,
                exemptionVars
  <2>2. /\ DOMAIN readerRules' = DOMAIN readerRules \union {Event}
        /\ \A s \in DOMAIN memberIndex' :
             \/ s \in DOMAIN memberIndex /\ memberIndex'[s] = memberIndex[s]
             \/ memberIndex'[s].cursors = Empty
    BY <2>1 DEF With
  <2> QED
    BY <2>1, <2>2, EmptyIs, OriginsGain
<1>5. /\ \A u \in User : {u} \in SUBSET User
      /\ \A users \in Groups : users \in SUBSET User
  BY DEF Groups
<1> QED
  BY <1>1, <1>2, <1>3, <1>4, <1>5

(* Events that end one, and those of other families.                       *)
LEMMA EndedSourcesStay ==
  ASSUME SourceInv, OriginsFit,
         \/ PreparedSuccess
         \/ \E source \in DOMAIN origins, u \in User : PreparedWithdrawExemption(source, u)
         \/ \E r \in DOMAIN rules : PreparedWithdrawRule(r)
         \/ \E source \in DOMAIN origins, u \in User : PreparedWithdrawReader(source, u)
         \/ \E r \in DOMAIN readerRules : PreparedWithdrawReaderRule(r)
         \/ OverrideNext
  PROVE  OriginsFit'
<1>1. last \in Nat
  BY EventsAreNumbered DEF SourceInv
<1>2. CASE PreparedSuccess
  BY <1>1, <1>2, OriginsStay DEF PreparedSuccess, Succeed, Keeps, exemptionVars, readerVars, indexes
<1>3. ASSUME NEW source, NEW u, PreparedWithdrawExemption(source, u) PROVE OriginsFit'
  BY <1>1, <1>3, OriginsStay
     DEF PreparedWithdrawExemption, WithdrawExemption, Keeps, readerVars, indexes
<1>4. ASSUME NEW r \in DOMAIN rules, PreparedWithdrawRule(r) PROVE OriginsFit'
  <2>1. /\ BatchWithdrawRule(r) /\ UNCHANGED <<origins, firstAdds>>
    BY <1>4 DEF PreparedWithdrawRule, Keeps
  <2>2. \A s \in DOMAIN cursorIndex' : s \in DOMAIN cursorIndex /\ cursorIndex'[s] = cursorIndex[s]
    BY <2>1 DEF BatchWithdrawRule, DropCursors, Without, Restrict
  <2>3. DOMAIN rules' = DOMAIN rules
    BY <2>1 DEF BatchWithdrawRule
  <2> QED
    BY <1>1, <2>1, <2>2, <2>3, OriginsStay DEF BatchWithdrawRule, readerVars
<1>5. ASSUME NEW source, NEW u, PreparedWithdrawReader(source, u) PROVE OriginsFit'
  <2>1. BatchWithdrawReader(source, u) /\ UNCHANGED <<origins, firstAdds>>
    BY <1>5 DEF PreparedWithdrawReader, Keeps
  <2> DEFINE members == Without(memberIndex[source].subjects, {u})
  <2>2. memberIndex' = memberIndex \/ (source \in DOMAIN memberIndex /\ memberIndex' = LeaveMembers(source, members))
    BY <2>1 DEF BatchWithdrawReader, TakesReaderWithdrawal
  <2>3. ASSUME source \in DOMAIN memberIndex
        PROVE  memberIndex[source] =
                 [subjects |-> memberIndex[source].subjects, cursors |-> memberIndex[source].cursors]
    BY <2>3 DEF SourceInv, ReadersFit
  <2> HIDE DEF members
  <2>4. \A s \in DOMAIN memberIndex' :
          s \in DOMAIN memberIndex /\ memberIndex'[s].cursors = memberIndex[s].cursors
    BY <2>2, <2>3 DEF LeaveMembers, Without, Restrict
  <2> QED
    BY <1>1, <2>1, <2>4, OriginsStay DEF BatchWithdrawReader, exemptionVars
<1>6. ASSUME NEW r \in DOMAIN readerRules, PreparedWithdrawReaderRule(r) PROVE OriginsFit'
  <2>1. /\ WithdrawReaderRule(r) /\ memberIndex' = Without(memberIndex, {r})
        /\ UNCHANGED <<origins, firstAdds, cursorIndex>>
    BY <1>6 DEF PreparedWithdrawReaderRule, BatchWithdrawReaderRule, Keeps
  <2>2. \A s \in DOMAIN memberIndex' : s \in DOMAIN memberIndex /\ memberIndex'[s] = memberIndex[s]
    BY <2>1 DEF Without, Restrict
  <2>3. DOMAIN readerRules' = DOMAIN readerRules
    BY <2>1 DEF WithdrawReaderRule
  <2> QED
    BY <1>1, <2>1, <2>2, <2>3, OriginsStay DEF WithdrawReaderRule, exemptionVars
<1>7. CASE OverrideNext
  <2>1. UNCHANGED <<origins, firstAdds>> /\ last' \in Nat /\ last <= last'
    <3>1. \A head \in Head, users \in Groups : PreparedGrant(head, users) => Keeps /\ Store
      BY DEF PreparedGrant, BatchGrant
    <3>2. \A g \in DOMAIN grants : PreparedWithdrawGrant(g) => Keeps /\ last' = last
      BY DEF PreparedWithdrawGrant, BatchWithdrawGrant, WithdrawGrant
    <3> QED
      BY <1>1, <1>7, <3>1, <3>2 DEF OverrideNext, Keeps, Store, Event
  <2>2. UNCHANGED <<exemptionVars, readerVars, cursorIndex, memberIndex>>
    BY <1>7, StillOfOthers
  <2> QED
    BY <2>1, <2>2, OriginsStay DEF exemptionVars, readerVars
<1> QED
  BY <1>2, <1>3, <1>4, <1>5, <1>6, <1>7, Zenon

LEMMA OriginsKeep ==
  SourceInv /\ OriginsFit /\ [PreparedNext]_preparedVars => OriginsFit'
<1> SUFFICES ASSUME SourceInv, OriginsFit, [PreparedNext]_preparedVars PROVE OriginsFit'
  OBVIOUS
<1>1. CASE UNCHANGED preparedVars
  BY <1>1, EventsAreNumbered, OriginsStay
     DEF SourceInv, preparedVars, batchVars, vars, exemptionVars, readerVars, indexes
<1>2. CASE \E r \in DOMAIN rules, u \in User, result \in Result, prior \in 0..last :
             PreparedMaterialize(r, u, result, prior)
  BY <1>2, MaterializeObserves
<1>3. CASE \E r \in DOMAIN readerRules, u \in User, result \in Result, prior \in 0..last :
             PreparedMaterializeReader(r, u, result, prior)
  BY <1>3, MaterializeReaderObserves
<1> QED
  BY <1>1, <1>2, <1>3, NewSourcesOriginate, EndedSourcesStay, Zenon
     DEF PreparedNext, ExemptionNext, ReaderNext

(* What the projections say, in terms of the fold.                         *)
LEMMA LifecycleReads ==
  /\ \A type \in {"exemption", "exemption_source_withdrawn", "exemption_rule_configured",
                  "exemption_rule_withdrawn", "override", "override_withdrawn"} :
       LifecyclePermits(type, FALSE) <=> project = "active"
  /\ \A type \in {"exemption_materialized", "records_reader_materialized"}, result \in Result :
       LifecyclePermits(type, result = "withdraw") <=> project = "active" \/ result = "withdraw"
  /\ \A type \in {"records_reader_authorized", "records_reader_withdrawn",
                  "records_reader_rule_configured", "records_reader_rule_withdrawn"} :
       LifecyclePermits(type, FALSE)
  BY DEF LifecyclePermits, AllowedAfterSuccess

LEMMA FrozenReads ==
  ASSUME SourceInv, NEW r \in DOMAIN rules
  PROVE  /\ FrozenRules[r].active = rules[r].active
         /\ rules[r].active => FrozenRules[r].cursors = cursorIndex[r]
<1>1. /\ rules[r] = [active |-> rules[r].active, cursors |-> Empty]
      /\ rules[r].active => r \in DOMAIN cursorIndex
  BY DEF SourceInv, ExemptionsFit
<1>2. FrozenRules[r] =
        [active |-> rules[r].active,
         cursors |-> IF r \in DOMAIN cursorIndex THEN cursorIndex[r] ELSE Empty]
  BY <1>1, FrozenRuleIs
<1>3. /\ FrozenRules[r].active = rules[r].active
      /\ FrozenRules[r].cursors = IF r \in DOMAIN cursorIndex THEN cursorIndex[r] ELSE Empty
  BY ONLY <1>2
<1> QED
  BY <1>1, <1>3

LEMMA StatusReads ==
  ASSUME SourceInv, NEW r \in DOMAIN rules, NEW u \in User
  PROVE  /\ InUnion(r, u) <=> <<r, u>> \in DOMAIN exemptions
         /\ rules[r].active => ExemptionCursor(r, u) = ExemptionPrior(r, u)
<1>1. \A key \in DOMAIN exemptions :
        /\ key \in (1..last) \X User
        /\ exemptions[key] \in Nat /\ exemptions[key] < sequence[key[2]]
        /\ sequence[key[2]] \in 0..last
  BY DEF SourceInv, ExemptionsFit
<1>2. r \in Sources(u) <=> <<r, u>> \in DOMAIN exemptions
  BY <1>1 DEF Sources, ActiveSources
<1>3. <<r, u>> \in DOMAIN exemptions => sequence[u] > 0
  <2>1. ASSUME NEW key \in DOMAIN exemptions, key = <<r, u>> PROVE sequence[u] > 0
    <3>1. key[2] = u
      BY <2>1
    <3> QED
      BY <1>1, <3>1
  <2> QED
    BY <2>1
<1>4. /\ u \in DOMAIN StatusDetail <=> sequence[u] > 0
      /\ u \in DOMAIN StatusDetail => StatusDetail[u] = StatusRow(u)
  BY DEF StatusDetail
<1>5. InUnion(r, u) <=> <<r, u>> \in DOMAIN exemptions
  BY <1>2, <1>3, <1>4 DEF InUnion, StatusRow
<1>6. ASSUME rules[r].active
      PROVE  /\ r \in Standing /\ FrozenRules[r].cursors = cursorIndex[r]
             /\ u \in DOMAIN cursorIndex[r] => sequence[u] > 0
  <2>1. u \in DOMAIN cursorIndex[r] => sequence[u] > 0
    BY <1>6 DEF SourceInv, ExemptionsFit
  <2> QED
    BY <1>6, <2>1, FrozenReads DEF Standing
<1>7. ASSUME rules[r].active PROVE ExemptionCursor(r, u) = ExemptionPrior(r, u)
  <2>1. u \in DOMAIN StatusDetail =>
          StatusDetail[u].cursors =
            [s \in {q \in Standing : u \in DOMAIN FrozenRules[q].cursors} |->
               FrozenRules[s].cursors[u]]
    BY <1>4 DEF StatusRow
  <2>2. u \in DOMAIN StatusDetail =>
          /\ r \in DOMAIN StatusDetail[u].cursors <=> u \in DOMAIN cursorIndex[r]
          /\ u \in DOMAIN cursorIndex[r] => StatusDetail[u].cursors[r] = cursorIndex[r][u]
    BY <1>6, <1>7, <2>1
  <2> QED
    BY <1>4, <1>6, <1>7, <2>2 DEF ExemptionCursor, ExemptionPrior
<1> QED
  BY <1>5, <1>6, <1>7

(* A rule's withdrawal leaves the sources that are not the rule's.         *)
LEMMA SourcesLeftAre ==
  ASSUME SourceInv, NEW r \in DOMAIN rules
  PROVE  DOMAIN Fold!SourcesLeft(r) = {key \in DOMAIN exemptions : key[1] # r}
<1>1. FrozenRules[r].active = rules[r].active
  BY FrozenReads
<1>2. \A key \in DOMAIN exemptions : key = <<key[1], key[2]>> /\ key[2] \in User
  BY DEF SourceInv, ExemptionsFit
<1>3. \A key \in DOMAIN exemptions :
        key[1] = r => rules[r].active /\ key[2] \in DOMAIN cursorIndex[r]
  BY DEF SourceInv, ExemptionsFit, RulesOwnExemptions
<1>4. CASE rules[r].active
  <2>1. FrozenRules[r].cursors = cursorIndex[r]
    BY <1>4, FrozenReads
  <2>2. DOMAIN Fold!SourcesLeft(r) = DOMAIN exemptions \ ({r} \X DOMAIN cursorIndex[r])
    BY <1>1, <1>4, <2>1, SameOperators DEF Fold!SourcesLeft, Without, Restrict
  <2>3. \A key \in DOMAIN exemptions : key \in {r} \X DOMAIN cursorIndex[r] <=> key[1] = r
    BY <1>2, <1>3
  <2> QED
    BY <2>2, <2>3
<1>5. CASE ~ rules[r].active
  BY <1>1, <1>3, <1>5 DEF Fold!SourcesLeft
<1> QED
  BY <1>4, <1>5

(* History finds the index changed exactly when the writer did.            *)
LEMMA RetirementIsTaken ==
  ASSUME SourceInv, NEW r \in DOMAIN rules
  PROVE  HistoryTakes("exemption_rule_withdrawn", r, 0, Fold!SourcesLeft(r), FrozenReaders)
<1> DEFINE left == Fold!SourcesLeft(r)
<1>1. \A key \in DOMAIN exemptions : key[2] \in User
  BY DEF SourceInv, ExemptionsFit
<1>2. DOMAIN left = {key \in DOMAIN exemptions : key[1] # r}
  BY SourcesLeftAre
<1> HIDE DEF left
<1>3. ASSUME NEW u \in User, Sources(u) = {r} PROVE ExemptUsers(exemptions) # ExemptUsers(left)
  <2>1. PICK key \in DOMAIN exemptions : key[2] = u /\ key[1] = r
    BY <1>3 DEF Sources, ActiveSources
  <2>2. \A other \in DOMAIN exemptions : other[2] = u => other[1] = r
    BY <1>3 DEF Sources, ActiveSources
  <2>3. u \in ExemptUsers(exemptions) /\ u \notin ExemptUsers(left)
    BY <1>2, <2>1, <2>2 DEF ExemptUsers
  <2> QED
    BY <2>3
<1>4. ASSUME ~ \E u \in User : Sources(u) = {r} PROVE ExemptUsers(exemptions) = ExemptUsers(left)
  <2>1. ExemptUsers(left) \subseteq ExemptUsers(exemptions)
    BY <1>2 DEF ExemptUsers
  <2>2. ASSUME NEW u \in ExemptUsers(exemptions) PROVE u \in ExemptUsers(left)
    <3>1. PICK key \in DOMAIN exemptions : key[2] = u
      BY <2>2 DEF ExemptUsers
    <3>2. key[1] \in Sources(u) /\ u \in User
      BY <1>1, <3>1 DEF Sources, ActiveSources
    <3>3. PICK s \in Sources(u) : s # r
      BY <1>4, <3>2
    <3>4. PICK other \in DOMAIN exemptions : other[2] = u /\ other[1] = s
      BY <3>3 DEF Sources, ActiveSources
    <3> QED
      BY <1>2, <3>3, <3>4 DEF ExemptUsers
  <2> QED
    BY <2>1, <2>2
<1>5. RetirementTouches(r) =
        {"status_detail"} \union
          IF ExemptUsers(exemptions) # ExemptUsers(left) THEN {"derived_index"} ELSE {}
  BY <1>3, <1>4 DEF RetirementTouches
<1> QED
  BY <1>5, WhatIsAffected DEF HistoryTakes, HistoryAccepts, left

(* The facts of exemptions, handler by handler.                            *)
LEMMA ExemptionFactsAgree ==
  ASSUME SourceInv, OriginsFit, DerivedAvailable
  PROVE  /\ CanAddSources <=> project = "active"
         /\ CanConfigureRule <=> project = "active" /\ Cardinality(Standing) < MaxRules
         /\ \A source \in DOMAIN origins, u \in User :
              CanWithdrawExemption(source, u) <=> TakesWithdrawal(<<source, u>>)
         /\ \A r \in DOMAIN rules :
              /\ CanWithdrawRule(r) <=> TakesRuleWithdrawal(r)
              /\ \A u \in User, result \in Result, prior \in 0..last :
                   CanMaterialize(r, u, result, prior) <=>
                     TakesMaterialization(r, u, result) /\ prior = ExemptionPrior(r, u)
<1>1. CanAddSources <=> project = "active"
  BY LifecycleReads DEF CanAddSources
<1>2. CanConfigureRule <=> project = "active" /\ Cardinality(Standing) < MaxRules
  BY LifecycleReads DEF CanConfigureRule
<1>3. ASSUME NEW source \in DOMAIN origins, NEW u \in User
      PROVE  CanWithdrawExemption(source, u) <=> TakesWithdrawal(<<source, u>>)
  <2>1. source \in 1..last
    BY DEF OriginsFit
  <2>2. <<source, u>> \in knownExemptions <=>
          Established(source, u, "exemption", "exemption_rule_configured")
    BY <2>1 DEF OriginsFit, Exempting
  <2> QED
    BY <2>2, LifecycleReads DEF CanWithdrawExemption, TakesWithdrawal
<1>4. ASSUME NEW r \in DOMAIN rules
      PROVE  /\ CanWithdrawRule(r) <=> TakesRuleWithdrawal(r)
             /\ \A u \in User, result \in Result, prior \in 0..last :
                  CanMaterialize(r, u, result, prior) <=>
                    TakesMaterialization(r, u, result) /\ prior = ExemptionPrior(r, u)
  <2>1. IsRule(r, "exemption_rule_configured")
    BY DEF OriginsFit
  <2>2. (rules[r].active <=> r \in DOMAIN cursorIndex) /\ (rules[r].active <=> r \in Standing)
    BY DEF SourceInv, ExemptionsFit, Standing
  <2>3. CanWithdrawRule(r) <=> TakesRuleWithdrawal(r)
    BY <2>1, <2>2, LifecycleReads DEF CanWithdrawRule, TakesRuleWithdrawal
  <2>4. ASSUME NEW u \in User, NEW result \in Result, NEW prior
        PROVE  CanMaterialize(r, u, result, prior) <=>
                 TakesMaterialization(r, u, result) /\ prior = ExemptionPrior(r, u)
    BY <2>1, <2>2, LifecycleReads, StatusReads DEF CanMaterialize, TakesMaterialization
  <2> QED
    BY <2>3, <2>4
<1> QED
  BY <1>1, <1>2, <1>3, <1>4

(* Those of readers: a rule's source stands as long as the rule.           *)
LEMMA ReaderFactsAgree ==
  ASSUME SourceInv, OriginsFit, DerivedAvailable
  PROVE  /\ CanAddReaders
         /\ CanConfigureReaderRule <=> Cardinality(ActiveReaderRules) < MaxReaderRules
         /\ \A source \in DOMAIN origins, u \in User :
              CanWithdrawReader(source, u) <=> TakesReaderWithdrawal(source, u)
         /\ \A r \in DOMAIN readerRules :
              /\ CanWithdrawReaderRule(r)
              /\ \A u \in User, result \in Result, prior \in 0..last :
                   CanMaterializeReader(r, u, result, prior) <=>
                     TakesReaderMaterialization(r, u, result) /\ prior = ReaderPrior(r, u)
<1>1. CanAddReaders
  BY LifecycleReads DEF CanAddReaders
<1>2. CanConfigureReaderRule <=> Cardinality(ActiveReaderRules) < MaxReaderRules
  BY LifecycleReads DEF CanConfigureReaderRule
<1>3. ASSUME NEW source \in DOMAIN origins, NEW u \in User
      PROVE  CanWithdrawReader(source, u) <=> TakesReaderWithdrawal(source, u)
  <2>1. source \in 1..last /\ DOMAIN memberIndex = DOMAIN readers
    BY DEF OriginsFit, SourceInv, ReadersFit
  <2>2. <<source, u>> \in knownReaders <=>
          Established(source, u, "records_reader_authorized", "records_reader_rule_configured")
    BY <2>1 DEF OriginsFit, Reading
  <2> QED
    BY <2>1, <2>2, LifecycleReads DEF CanWithdrawReader, TakesReaderWithdrawal
<1>4. ASSUME NEW r \in DOMAIN readerRules
      PROVE  /\ CanWithdrawReaderRule(r)
             /\ \A u \in User, result \in Result, prior \in 0..last :
                  CanMaterializeReader(r, u, result, prior) <=>
                    TakesReaderMaterialization(r, u, result) /\ prior = ReaderPrior(r, u)
  <2>1. IsRule(r, "records_reader_rule_configured")
    BY DEF OriginsFit
  <2>2. /\ readerRules[r] <=> r \in DOMAIN readers
        /\ r \in DOMAIN memberIndex <=> r \in DOMAIN readers
    BY DEF SourceInv, ReadersFit, ReadersProjectable
  <2>3. /\ DOMAIN FrozenReaders = DOMAIN readers
        /\ r \in DOMAIN readers =>
             /\ FrozenReaders[r].subjects = memberIndex[r].subjects
             /\ FrozenReaders[r].cursors = memberIndex[r].cursors
    BY DEF FrozenReaders
  <2>4. CanWithdrawReaderRule(r)
    BY <2>1, LifecycleReads DEF CanWithdrawReaderRule
  <2>5. ASSUME NEW u \in User, NEW result \in Result, NEW prior
        PROVE  CanMaterializeReader(r, u, result, prior) <=>
                 TakesReaderMaterialization(r, u, result) /\ prior = ReaderPrior(r, u)
    <3>1. r \in AuthoritiesOf(u) <=>
            r \in DOMAIN readers /\ u \in DOMAIN memberIndex[r].subjects
      BY <2>3 DEF AuthoritiesOf
    <3>2. r \in DOMAIN readers => ReaderCursor(r, u) = ReaderPrior(r, u)
      BY <2>3 DEF ReaderCursor, ReaderPrior
    <3>3. result = "add" \/ result = "withdraw"
      BY DEF Result
    <3> QED
      BY <2>1, <2>2, <2>3, <3>1, <3>2, <3>3, LifecycleReads
         DEF CanMaterializeReader, TakesReaderMaterialization
  <2> QED
    BY <2>4, <2>5
<1> QED
  BY <1>1, <1>2, <1>3, <1>4

LEMMA FactsAgree ==
  ASSUME SourceInv, OriginsFit, DerivedAvailable
  PROVE  PreparedIsReplayable
<1>1. \A source \in DOMAIN origins, u \in User :
        HistoryTakes("records_reader_withdrawn", source, u,
                     exemptions, Fold!ReadersLeft(source, u))
  <2> TAKE source \in DOMAIN origins, u \in User
  <2>1. source \notin AuthoritiesOf(u) => FrozenReaders = Fold!ReadersLeft(source, u)
    BY DEF AuthoritiesOf, Fold!ReadersLeft
  <2>2. ForgettingTouches(source, u) =
          IF source \in AuthoritiesOf(u) THEN {"reader_authority"} ELSE {}
    BY DEF ForgettingTouches
  <2> QED
    BY <2>1, <2>2, WhatIsAffected DEF HistoryTakes, HistoryAccepts
<1>2. \A r \in DOMAIN readerRules :
        HistoryTakes("records_reader_rule_withdrawn", r, 0, exemptions, Without(FrozenReaders, {r}))
  <2> TAKE r \in DOMAIN readerRules
  <2>1. r \notin DOMAIN FrozenReaders => ~ readerRules[r]
    BY DEF FrozenReaders, SourceInv, ReadersFit, ReadersProjectable
  <2> QED
    BY <2>1, WhatIsAffected DEF RuleForgettingTouches, HistoryTakes, HistoryAccepts
<1>3. /\ \A head \in Head, users \in Groups : TakesGrant(head, users) => CanGrant
      /\ \A g \in DOMAIN grants : CanWithdrawGrant(g) <=> TakesGrantWithdrawal(g)
  BY LifecycleReads DEF TakesGrant, CanGrant, CanWithdrawGrant, TakesGrantWithdrawal
<1>4. \A type \in PlainType : HistoryTakes(type, 0, 0, exemptions, FrozenReaders)
  BY DEF PlainType, HistoryTakes, HistoryAccepts, AffectedClasses
<1> QED
  BY <1>1, <1>2, <1>3, <1>4, ExemptionFactsAgree, ReaderFactsAgree, RetirementIsTaken
     DEF PreparedIsReplayable

(* As long as the projections can be read, no cursor of a reader rule      *)
(* being over its limit, the facts a writer reads from them and what       *)
(* replay and history take agree, however long the history.                *)
THEOREM FactsAreReplayable == PreparedSpec => [](DerivedAvailable => PreparedIsReplayable)
<1>1. SourceInv /\ OriginsFit /\ DerivedAvailable => PreparedIsReplayable
  BY FactsAgree
<1> QED
  BY <1>1, PreparedStarts, PreparedKeeps, OriginsStart, OriginsKeep, PTL DEF PreparedSpec

(* With no more users than a rule may have cursors nobody is ever locked   *)
(* out; reader_remedy shows that with more somebody is.                    *)
COROLLARY NobodyIsLockedOut ==
  ASSUME IsFiniteSet(User), MaxCursors \in Nat, Cardinality(User) <= MaxCursors
  PROVE  PreparedSpec => []PreparedIsReplayable
<1>1. SourceInv /\ OriginsFit => DerivedAvailable
  <2> SUFFICES ASSUME SourceInv, OriginsFit, NEW s \in DOMAIN readers
               PROVE  Cardinality(DOMAIN FrozenReaders[s].cursors) <= MaxCursors
    BY DEF DerivedAvailable, FrozenReaders
  <2>1. FrozenReaders[s].cursors = memberIndex[s].cursors /\ s \in DOMAIN memberIndex
    BY DEF FrozenReaders, SourceInv, ReadersFit
  <2>2. DOMAIN memberIndex[s].cursors \subseteq User
    BY <2>1 DEF OriginsFit
  <2> QED
    BY <2>1, <2>2, SameOrFewer
<1>2. SourceInv /\ OriginsFit => PreparedIsReplayable
  BY <1>1, FactsAgree
<1> QED
  BY <1>2, PreparedStarts, PreparedKeeps, OriginsStart, OriginsKeep, PTL DEF PreparedSpec
=============================================================================
