-------------------------- MODULE AdministrationProofs --------------------------
(* Theorems of Administration, for any number of changes by others, and of *)
(* Provisioning, for every set of roles, accounts and identities.          *)
EXTENDS Administration, Provisioning, TLAPS

-----------------------------------------------------------------------------
(* The inductive invariant.  A repository keeps its id, and another has    *)
(* another: one that bears the name at two checks has borne it in between, *)
(* so that what was read there was read from it, or it lost the name and   *)
(* got it back, which the history shows (returned).                        *)

BranchName == {"main", "events"}

RepositoryFields == {"id", "private", "default", "heads", "keys"}

IsRepository(r) ==
  /\ DOMAIN r = RepositoryFields
  /\ r.id \in Nat /\ r.default \in BranchName
  /\ DOMAIN r.heads = BranchName

CallFields == {"verb", "at", "ref", "data", "seen", "sent", "ack", "full", "status"}

Last == [create |-> 7, private |-> 5, rename |-> 10, key |-> 9, secret |-> 6, dispatch |-> 6]

WriteAt == [create |-> 3, private |-> 3, rename |-> 6, key |-> 5, secret |-> 4, dispatch |-> 4]

Verbs == {"create", "private", "rename", "key", "secret", "dispatch"}

CallOK ==
  /\ DOMAIN call = CallFields
  /\ call.verb \in Verbs
  /\ call.at \in 1..Last[call.verb]
  /\ call.sent \in BOOLEAN
  /\ call.status \in {"none", "conflict", "denied", "uncertain", "observed", "verified", "accepted"}
  /\ call.status = "none" => (call.sent <=> call.at > WriteAt[call.verb])

Repositories == away \union {named}

IdsOK ==
  /\ lastId \in Nat
  /\ \A r \in Repositories : IsRepository(r) /\ r.id <= lastId
  /\ call.ref \in Nat /\ call.ref <= lastId
  /\ call.verb # "create" => call.ref >= 1

(* GitHub keeps the default branch of a repository there.                  *)
HasDefault(r) == r.heads[r.default] # 0

DefaultIsThere ==
  call.verb = "rename" => \A r \in Repositories : r.id = call.ref => HasDefault(r)

Unsent == ~ call.sent => applied = {} /\ ~ pending

(* What was read after the write was read from the repository, or it has   *)
(* lost the name; if it was as wanted then, that has been recorded.        *)
ReadsOf(wanted) ==
  /\ call.seen.id = call.ref /\ wanted => held
  /\ call.seen.id # call.ref => named.id # call.ref \/ call.ref \in returned
  /\ call.at = Last[call.verb] => call.seen.id = call.ref \/ call.ref \in returned

Earning ==
  call.sent /\ call.status = "none" =>
    /\ call.verb = "create" => held /\ call.ref \in applied
    /\ call.verb = "private" /\ call.at = 5 /\ call.data.private => held
    /\ call.verb = "key" /\ call.at > 7 => ReadsOf(HasWanted(call.seen.keys))
    /\ call.verb = "rename" /\ call.at > 8 =>
         /\ ReadsOf(IsRenamed(call.seen.heads, call.seen.default))
         /\ call.seen.default \in BranchName
         /\ call.seen.id = call.ref => HasDefault(call.seen)
    /\ call.verb \in {"secret", "dispatch"} =>
         /\ call.ref \in applied \/ named.id # call.ref \/ call.ref \in returned
         /\ call.at = 6 => call.ref \in applied \/ call.ref \in returned

Hidden == call.status \in {"denied", "observed"} => ~ call.sent

AdminIInv ==
  CallOK /\ IdsOK /\ DefaultIsThere /\ Unsent /\ Earning /\ Hidden /\ SuccessIsEarned

-----------------------------------------------------------------------------
(* The programs. *)

(* Where the steps of the programs are.                                    *)
LEMMA Places ==
  ASSUME NEW verb \in Verbs, NEW at \in 1..Last[verb], NEW what, Program[verb][at] = what
  PROVE  /\ what = "judge" <=> at = Last[verb]
         /\ Program[verb][Last[verb]] = "judge"
         /\ what = "write" <=> at = WriteAt[verb]
         /\ what \in {"decide", "inventory", "exact"} => at < WriteAt[verb]
         /\ what = "look" /\ at > WriteAt[verb] =>
              <<verb, at>> \in {<<"create", 5>>, <<"rename", 8>>, <<"key", 7>>}
         /\ what = "check" /\ at > WriteAt[verb] =>
              <<verb, at>> \in {<<"create", 4>>, <<"create", 6>>, <<"private", 4>>,
                                <<"rename", 7>>, <<"rename", 9>>, <<"key", 6>>, <<"key", 8>>,
                                <<"secret", 5>>, <<"dispatch", 5>>}
         /\ WriteAt[verb] \in 1..Last[verb] /\ WriteAt[verb] < Last[verb]
<1>1. CASE verb = "create"
  BY <1>1 DEF Program, Last, WriteAt
<1>2. CASE verb = "private"
  BY <1>2 DEF Program, Last, WriteAt
<1>3. CASE verb = "rename"
  BY <1>3 DEF Program, Last, WriteAt
<1>4. CASE verb = "key"
  BY <1>4 DEF Program, Last, WriteAt
<1>5. CASE verb \in {"secret", "dispatch"}
  BY <1>5 DEF Program, Last, WriteAt
<1> QED BY <1>1, <1>2, <1>3, <1>4, <1>5 DEF Verbs

-----------------------------------------------------------------------------
(* What a step does to the repositories: each was there before, with its id *)
(* and its default branch, or has an id of its own.                        *)

Descends(r) ==
  \/ r.id = 0 \/ r.id > lastId
  \/ \E o \in Repositories : o.id = r.id /\ (HasDefault(o) => HasDefault(r))

NamedMoves ==
  /\ lastId' \in Nat /\ lastId <= lastId'
  /\ \A r \in Repositories' : IsRepository(r) /\ r.id <= lastId' /\ Descends(r)

(* Whatever was there may stay as it is.                                   *)
LEMMA StaysThere ==
  ASSUME IdsOK, lastId' \in Nat, lastId <= lastId', NEW r \in Repositories
  PROVE  IsRepository(r) /\ r.id <= lastId' /\ Descends(r)
<1>1. IsRepository(r) /\ r.id <= lastId /\ lastId \in Nat /\ r.id \in Nat
  BY DEF IdsOK, IsRepository
<1> DEFINE id == r.id
<1> HIDE DEF id
<1>2. id <= lastId'
  BY <1>1 DEF id
<1> QED BY <1>1, <1>2 DEF Descends, id

(* A repository keeps its id through every change, and its default branch. *)
Remains(o, r) ==
  IsRepository(r) /\ r.id = o.id /\ (HasDefault(o) => HasDefault(r))

LEMMA RemainsThere ==
  ASSUME IdsOK, lastId' = lastId, NEW o \in Repositories, NEW r, Remains(o, r)
  PROVE  IsRepository(r) /\ r.id <= lastId' /\ Descends(r)
BY DEF IdsOK, Remains, Descends

(* A new one has the next id.                                              *)
LEMMA IsNew ==
  ASSUME IdsOK, lastId' = lastId + 1, NEW r, IsRepository(r), r.id = lastId + 1
  PROVE  IsRepository(r) /\ r.id <= lastId' /\ Descends(r)
<1>1. lastId + 1 > lastId /\ lastId + 1 <= lastId'
  BY DEF IdsOK
<1> QED BY <1>1 DEF Descends

(* The write of an operation moves the name as it should.                  *)
LEMMA WritesMove ==
  ASSUME CallOK, IdsOK, Applies, UNCHANGED away
  PROVE  NamedMoves
<1>1. IsRepository(named) /\ named.id \in Nat /\ lastId \in Nat /\ named \in Repositories
  BY DEF IdsOK, IsRepository, Repositories
<1>2. CASE call.verb = "create"
  <2>1. named' = [NoRepository EXCEPT !.id = lastId + 1] /\ lastId' = lastId + 1
    BY <1>2 DEF Applies, Written
  <2>2. named'.id = lastId + 1 /\ IsRepository(named')
    BY <2>1, <1>1 DEF NoRepository, IsRepository, RepositoryFields, BranchName
  <2>3. lastId' \in Nat /\ lastId <= lastId'
    BY <1>1, <2>1
  <2>4. ASSUME NEW r \in Repositories' PROVE r = named' \/ r \in Repositories
    BY <2>4 DEF Repositories
  <2> QED BY <2>1, <2>2, <2>3, <2>4, IsNew, StaysThere DEF NamedMoves
<1>3. CASE lastId' = lastId /\ Remains(named, named')
  <2>1. lastId' \in Nat /\ lastId <= lastId'
    BY <1>1, <1>3
  <2>2. ASSUME NEW r \in Repositories' PROVE r = named' \/ r \in Repositories
    BY <2>2 DEF Repositories
  <2> QED BY <1>1, <1>3, <2>1, <2>2, RemainsThere, StaysThere DEF NamedMoves
<1>4. CASE call.verb = "private"
  <2>1. named' = [named EXCEPT !.private = TRUE] /\ lastId' = lastId
    BY <1>4 DEF Applies, Written
  <2> QED BY <1>1, <1>3, <2>1 DEF Remains, HasDefault, IsRepository, RepositoryFields
<1>5. CASE call.verb = "rename"
  <2>1. /\ named.heads["main"] # 0 /\ named.heads["events"] = 0 /\ lastId' = lastId
        /\ named' = [named EXCEPT
                       !.heads = [main |-> 0, events |-> named.heads["main"]],
                       !.default = IF named.default = "main" THEN "events" ELSE named.default]
    BY <1>5 DEF Applies, Written, Takes
  <2>2. /\ named'.id = named.id
        /\ named'.heads = [main |-> 0, events |-> named.heads["main"]]
        /\ named'.default = IF named.default = "main" THEN "events" ELSE named.default
        /\ DOMAIN named' = DOMAIN named
    BY <1>1, <2>1 DEF IsRepository, RepositoryFields
  <2>3. IsRepository(named')
    BY <1>1, <2>2 DEF IsRepository, RepositoryFields, BranchName
  <2>4. HasDefault(named) => named.default = "main"
    BY <1>1, <2>1 DEF IsRepository, BranchName, HasDefault
  <2>5. HasDefault(named) => HasDefault(named')
    BY <2>1, <2>2, <2>4 DEF HasDefault
  <2> QED BY <1>3, <2>1, <2>2, <2>3, <2>5 DEF Remains
<1>6. CASE call.verb = "key"
  <2>1. named' = [named EXCEPT !.keys = named.keys \union {Wanted}] /\ lastId' = lastId
    BY <1>6 DEF Applies, Written
  <2> QED BY <1>1, <1>3, <2>1 DEF Remains, HasDefault, IsRepository, RepositoryFields
<1>7. CASE call.verb \in {"secret", "dispatch"}
  <2>1. named' = named /\ lastId' = lastId
    BY <1>7 DEF Applies, Written
  <2> QED BY <1>1, <1>3, <2>1 DEF Remains
<1> QED BY <1>2, <1>4, <1>5, <1>6, <1>7 DEF CallOK, Verbs

(* Others may change a repository, but not its id, nor delete its default  *)
(* branch.                                                                 *)
LEMMA ChangesKeep ==
  ASSUME NEW o, IsRepository(o), NEW r \in ChangesOf(o)
  PROVE  Remains(o, r)
<1>1. CASE \/ r = [o EXCEPT !.private = FALSE]
           \/ \E k : r = [o EXCEPT !.keys = o.keys \union {k}]
           \/ \E k : r = [o EXCEPT !.keys = o.keys \ {k}]
  BY <1>1 DEF IsRepository, RepositoryFields, Remains, HasDefault
<1>2. CASE \E b \in BranchName, h \in 1..2 : r = [o EXCEPT !.heads[b] = h]
  <2>1. PICK b \in BranchName, h \in 1..2 : r = [o EXCEPT !.heads[b] = h]
    BY <1>2
  <2>2. /\ r.id = o.id /\ r.default = o.default /\ DOMAIN r = DOMAIN o
        /\ r.heads = [o.heads EXCEPT ![b] = h]
    BY <2>1 DEF IsRepository, RepositoryFields
  <2> QED BY <2>2 DEF IsRepository, BranchName, Remains, HasDefault
<1>3. CASE \E b \in BranchName \ {o.default} : r = [o EXCEPT !.heads[b] = 0]
  <2>1. PICK b \in BranchName \ {o.default} : r = [o EXCEPT !.heads[b] = 0]
    BY <1>3
  <2>2. /\ r.id = o.id /\ r.default = o.default /\ DOMAIN r = DOMAIN o
        /\ r.heads = [o.heads EXCEPT ![b] = 0]
    BY <2>1 DEF IsRepository, RepositoryFields
  <2> QED BY <2>2 DEF IsRepository, BranchName, Remains, HasDefault
<1>4. CASE \E b \in Branches(o) : r = [o EXCEPT !.default = b]
  <2>1. PICK b \in Branches(o) : r = [o EXCEPT !.default = b]
    BY <1>4
  <2>2. /\ r.id = o.id /\ r.default = b /\ DOMAIN r = DOMAIN o
        /\ r.heads = o.heads /\ b \in BranchName /\ o.heads[b] # 0
    BY <2>1 DEF IsRepository, RepositoryFields, Branches
  <2> QED BY <2>2 DEF IsRepository, Remains, HasDefault
<1> DEFINE Public == {[o EXCEPT !.private = FALSE]}
           Pushed == {[o EXCEPT !.heads[b] = h] : b \in {"main", "events"}, h \in 1..2}
           Deleted == {[o EXCEPT !.heads[b] = 0] : b \in {"main", "events"} \ {o.default}}
           Default == {[o EXCEPT !.default = b] : b \in Branches(o)}
           Free == {f \in ForeignKey : \A own \in o.keys : own.key # f.key}
           Added == {[o EXCEPT !.keys = @ \union {k}] : k \in Free}
           Removed == {[o EXCEPT !.keys = @ \ {k}] : k \in o.keys}
<1>5. r \in Public \union Pushed \union Deleted \union Default \union Added \union Removed
  BY DEF ChangesOf
<1>6. CASE r \in Pushed
  BY <1>2, <1>6 DEF BranchName
<1>7. CASE r \in Deleted
  BY <1>3, <1>7 DEF BranchName
<1>8. CASE r \in Default
  BY <1>4, <1>8
<1>9. CASE r \in Public \union Added \union Removed
  BY <1>1, <1>9
<1> HIDE DEF Public, Pushed, Deleted, Default, Added, Removed
<1> QED BY <1>5, <1>6, <1>7, <1>8, <1>9

(* A repository is changed under the name it bears.                        *)
LEMMA ChangesMove ==
  ASSUME IdsOK, Changed
  PROVE  NamedMoves
<1>1. lastId' = lastId /\ lastId' \in Nat /\ lastId <= lastId'
  BY DEF Changed, IdsOK
<1>2. \E o \in Repositories : \E c \in ChangesOf(o) : Repositories' \subseteq Repositories \union {c}
  <2>1. CASE named' \in ChangesOf(named) /\ UNCHANGED away
    BY <2>1 DEF Repositories
  <2>2. CASE \E r \in away : \E c \in ChangesOf(r) : away' = (away \ {r}) \union {c} /\ UNCHANGED named
    BY <2>2 DEF Repositories
  <2> QED BY <2>1, <2>2 DEF Changed
<1>3. PICK o \in Repositories : \E c \in ChangesOf(o) : Repositories' \subseteq Repositories \union {c}
  BY <1>2
<1>4. PICK c \in ChangesOf(o) : Repositories' \subseteq Repositories \union {c}
  BY <1>3
<1>5. Remains(o, c)
  BY ChangesKeep DEF IdsOK
<1> QED BY <1>1, <1>4, <1>5, StaysThere, RemainsThere DEF NamedMoves

(* The name goes to a new repository, to none, or back to one that bore it. *)
LEMMA RenamesMove ==
  ASSUME IdsOK, Renamed
  PROVE  NamedMoves
<1>1. /\ lastId \in Nat /\ lastId' \in Nat /\ lastId <= lastId'
      /\ named' \in Newcomer => lastId' = lastId + 1
  BY DEF Renamed, IdsOK
<1>2. \A r \in Repositories' : r \in Repositories \/ (r = named' /\ r \in Newcomer \union {NoRepository})
  BY DEF Renamed, Repositories
<1>3. ASSUME NEW r \in Newcomer PROVE IsRepository(r) /\ r.id = lastId + 1
  <2>1. lastId + 1 \in Nat
    BY <1>1
  <2>2. CASE r = [NoRepository EXCEPT !.id = lastId + 1]
    BY <2>1, <2>2 DEF NoRepository, IsRepository, RepositoryFields, BranchName
  <2>3. CASE r = ARepository(lastId + 1, TRUE)
    BY <2>1, <2>3 DEF ARepository, NoRepository, IsRepository, RepositoryFields, BranchName
  <2> QED BY <1>3, <2>2, <2>3 DEF Newcomer
<1>4. IsRepository(NoRepository) /\ NoRepository.id = 0
  BY DEF NoRepository, IsRepository, RepositoryFields, BranchName
<1>5. 0 <= lastId'
  BY <1>1
<1>6. IsRepository(NoRepository) /\ NoRepository.id <= lastId' /\ Descends(NoRepository)
  BY <1>4, <1>5 DEF Descends
<1> QED BY <1>1, <1>2, <1>3, <1>6, StaysThere, IsNew DEF NamedMoves

(* Every step of the system moves the name so.                             *)
LEMMA StepsMove ==
  ASSUME AdminIInv, AdminStep
  PROVE  NamedMoves
<1>1. CASE UNCHANGED <<named, away, lastId>>
  <2>1. lastId' \in Nat /\ lastId <= lastId' /\ Repositories' = Repositories
    BY <1>1 DEF AdminIInv, IdsOK, Repositories
  <2> QED BY <2>1, StaysThere DEF AdminIInv, NamedMoves
<1>2. CASE Applies /\ UNCHANGED away
  BY <1>2, WritesMove DEF AdminIInv
<1>3. CASE Changed \/ Renamed
  BY <1>3, ChangesMove, RenamesMove DEF AdminIInv
<1> QED BY <1>1, <1>2, <1>3 DEF AdminStep, Check, Look, Inventory, Exact, Decide, WriteOnce,
          Judge, ApplyLate, Interfere, GitHubAsIs

-----------------------------------------------------------------------------
(* The steps of the caller. *)

(* Every program writes before its last step.                              *)
LEMMA Sizes ==
  ASSUME NEW verb \in Verbs
  PROVE  WriteAt[verb] \in Nat /\ Last[verb] \in Nat /\ WriteAt[verb] < Last[verb]
BY DEF Verbs, WriteAt, Last

(* At the start nothing is written and nothing is claimed.                 *)
LEMMA AdminInitOK == AdminInit => AdminIInv
<1> SUFFICES ASSUME AdminInit PROVE AdminIInv
  OBVIOUS
<1> DEFINE Begins(verb, ref) ==
             /\ DOMAIN call = CallFields
             /\ call.verb = verb /\ call.at = 1 /\ call.ref = ref
             /\ call.sent = FALSE /\ call.status = "none"
<1>1. PICK verb \in Verb :
        IF verb = "create"
        THEN /\ named \in {NoRepository, ARepository(1, TRUE)}
             /\ call \in {[Start(verb, 0) EXCEPT !.full = f] : f \in BOOLEAN}
        ELSE /\ named \in {ARepository(1, p) : p \in BOOLEAN}
             /\ call = Start(verb, 1)
  BY DEF AdminInit
<1>2. Begins(verb, IF verb = "create" THEN 0 ELSE 1)
  <2>1. CASE verb = "create"
    BY <1>1, <2>1 DEF Start, CallFields
  <2>2. CASE verb # "create"
    BY <1>1, <2>2 DEF Start, CallFields
  <2> QED BY <2>1, <2>2
<1>3. verb \in Verbs
  BY VerbsAreKnown DEF Verbs
<1>4. ASSUME NEW p \in BOOLEAN
      PROVE  LET r == ARepository(1, p) IN
             /\ IsRepository(r) /\ r.id = 1 /\ r.default = "main" /\ r.heads["main"] # 0
  BY DEF ARepository, NoRepository, IsRepository, RepositoryFields, BranchName, Tip
<1>5. IsRepository(NoRepository) /\ NoRepository.id = 0
  BY DEF NoRepository, IsRepository, RepositoryFields, BranchName
<1>6. /\ IsRepository(named) /\ named.id \in {0, 1}
      /\ verb # "create" => named.default = "main" /\ named.heads["main"] # 0
  <2>1. CASE verb = "create"
    BY <1>1, <1>4, <1>5, <2>1
  <2>2. CASE verb # "create"
    <3>1. PICK p \in BOOLEAN : named = ARepository(1, p)
      BY <1>1, <2>2
    <3> QED BY <1>4, <2>2, <3>1
  <2> QED BY <2>1, <2>2
<1>7. CallOK
  <2>1. 1 \in 1..Last[verb] /\ (1 > WriteAt[verb]) = FALSE
    BY <1>3 DEF Verbs, Last, WriteAt
  <2>2. /\ call.at \in 1..Last[call.verb] /\ (call.at > WriteAt[call.verb]) = FALSE
        /\ call.sent = FALSE
    BY <1>2, <2>1
  <2> QED BY <1>2, <1>3, <2>2 DEF CallOK
<1>8. Repositories = {named}
  BY DEF Repositories, AdminInit
<1>9. IdsOK
  BY <1>2, <1>6, <1>8 DEF IdsOK, AdminInit
<1>10. DefaultIsThere
  BY <1>2, <1>6, <1>8 DEF DefaultIsThere, HasDefault
<1> QED BY <1>2, <1>7, <1>9, <1>10
        DEF AdminIInv, Unsent, Earning, Hidden, SuccessIsEarned, AdminInit

(* The system is as it was but for what the caller knows.                  *)
SystemKept == UNCHANGED <<named, away, lastId, pending, applied>>

(* A call may always give up, and may say so if it wrote nothing.          *)
LEMMA EndsOK ==
  ASSUME AdminIInv, call.status = "none", SystemKept, NEW s, Returns(s),
         s \in {"conflict", "uncertain"} \/ (s \in {"denied", "observed"} /\ ~ call.sent)
  PROVE  AdminIInv'
<1>1. call' = [call EXCEPT !.status = s]
  BY DEF Returns
<1>2. /\ DOMAIN call' = CallFields /\ call'.status = s
      /\ \A f \in CallFields \ {"status"} : call'[f] = call[f]
  BY <1>1 DEF AdminIInv, CallOK
<1>3. /\ call'.verb = call.verb /\ call'.at = call.at /\ call'.ref = call.ref
      /\ call'.sent = call.sent
  BY <1>2 DEF CallFields
<1>4. CallOK'
  BY <1>2, <1>3 DEF AdminIInv, CallOK
<1>5. (IdsOK /\ DefaultIsThere /\ Unsent)'
  BY <1>3 DEF AdminIInv, IdsOK, Repositories, IsRepository, DefaultIsThere, Unsent, SystemKept
<1>6. (Earning /\ Hidden /\ SuccessIsEarned)'
  BY <1>2, <1>3 DEF Earning, Hidden, SuccessIsEarned
<1> QED BY <1>4, <1>5, <1>6 DEF AdminIInv

(* A call that goes on, other than by the write, has to show only what its *)
(* last answer rests on.                                                   *)
LEMMA GoesOnOK ==
  ASSUME AdminIInv, call.status = "none", SystemKept,
         call.at < Last[call.verb], call.at # WriteAt[call.verb],
         DOMAIN call' = CallFields, call'.at = call.at + 1,
         \A f \in CallFields \ {"at", "data", "seen"} : call'[f] = call[f],
         call.sent => Earning'
  PROVE  AdminIInv'
<1>1. /\ call'.verb = call.verb /\ call'.ref = call.ref /\ call'.sent = call.sent
      /\ call'.status = "none"
  BY DEF CallFields
<1>2. CallOK'
  <2> DEFINE w == WriteAt[call.verb]
             l == Last[call.verb]
             at == call.at
  <2>1. w \in Nat /\ l \in Nat /\ at \in 1..l /\ at < l /\ at # w
    BY Sizes DEF AdminIInv, CallOK
  <2>2. call.sent <=> at > w
    BY DEF AdminIInv, CallOK
  <2> HIDE DEF w, l, at
  <2>3. at + 1 \in 1..l /\ (at > w <=> at + 1 > w)
    BY <2>1
  <2>4. /\ call'.at \in 1..Last[call'.verb]
        /\ call'.sent <=> call'.at > WriteAt[call'.verb]
    BY <1>1, <2>2, <2>3 DEF w, l, at
  <2> QED BY <1>1, <2>4 DEF AdminIInv, CallOK
<1>3. (IdsOK /\ DefaultIsThere /\ Unsent)'
  BY <1>1 DEF AdminIInv, IdsOK, Repositories, IsRepository, DefaultIsThere, Unsent, SystemKept
<1>4. (Hidden /\ SuccessIsEarned)'
  BY <1>1 DEF Hidden, SuccessIsEarned
<1>5. Earning'
  BY <1>1 DEF Earning
<1> QED BY <1>2, <1>3, <1>4, <1>5 DEF AdminIInv

(* Nothing has been sent when an inventory, a search by name or a decision *)
(* ends: none of them follows the write.                                   *)
LEMMA BeforeTheWrite ==
  ASSUME CallOK, NEW what, Doing(what)
  PROVE  /\ call.status = "none"
         /\ what \in {"decide", "inventory", "exact"} =>
              /\ ~ call.sent /\ call.at < Last[call.verb] /\ call.at # WriteAt[call.verb]
         /\ what \in {"check", "look"} =>
              call.at < Last[call.verb] /\ call.at # WriteAt[call.verb]
         /\ what = "write" => call.at = WriteAt[call.verb] /\ ~ call.sent
         /\ what = "judge" => call.at = Last[call.verb] /\ call.sent
<1> DEFINE w == WriteAt[call.verb]
           l == Last[call.verb]
           at == call.at
<1>1. w \in Nat /\ l \in Nat /\ w < l /\ at \in 1..l /\ call.verb \in Verbs
  BY Sizes DEF CallOK
<1>2. call.status = "none" /\ (call.sent <=> at > w)
  BY DEF Doing, CallOK
<1>3. /\ what = "judge" <=> at = l
      /\ what = "write" <=> at = w
      /\ what \in {"decide", "inventory", "exact"} => at < w
  BY <1>1, Places DEF Doing
<1> HIDE DEF w, l, at
<1>4. /\ what \in {"decide", "inventory", "exact"} => ~ (at > w) /\ at < l /\ at # w
      /\ what \in {"check", "look"} => at < l /\ at # w
      /\ what = "write" => at = w /\ ~ (at > w)
      /\ what = "judge" => at = l /\ at > w
  BY <1>1, <1>3
<1> QED BY <1>2, <1>4 DEF w, l, at

(* What the history records of a step. *)
Records == held' = HeldSince /\ returned' = ReturnedSince

(* What is as wanted after the write is recorded, and a return as long as  *)
(* no check opens a window anew.                                           *)
LEMMA Recorded ==
  ASSUME Records
  PROVE  /\ held => held'
         /\ call'.sent /\ named'.id = call'.ref /\ AsWanted(call.verb, named') => held'
         /\ ~ Opens => returned \subseteq returned'
BY DEF Records, HeldSince, ReturnedSince

(* A failed read ends the call, and says nothing of a write before it.     *)
LEMMA FailsOK ==
  ASSUME AdminIInv, call.status = "none", SystemKept, NEW s, Fails(s),
         s \in {"conflict", "denied", "uncertain"}
  PROVE  AdminIInv'
<1>1. CASE call.sent
  <2>1. Unverified(s) \in {"conflict", "uncertain"} /\ Returns(Unverified(s))
    BY <1>1 DEF Fails, Unverified
  <2> QED BY <2>1, EndsOK
<1>2. CASE ~ call.sent
  <2>1. Returns(s)
    BY <1>2 DEF Fails
  <2> QED BY <1>2, <2>1, EndsOK
<1> QED BY <1>1, <1>2

(* A check that passed found the repository of the call, so what was read  *)
(* before it was read from that one.                                       *)
LEMMA CheckOK ==
  ASSUME AdminIInv, Check, Records
  PROVE  AdminIInv'
<1>1. /\ Doing("check") /\ SystemKept /\ CallOK /\ call.status = "none"
      /\ call.at < Last[call.verb] /\ call.at # WriteAt[call.verb]
  BY BeforeTheWrite DEF Check, GitHubAsIs, SystemKept, AdminIInv
<1>2. CASE \E s \in {"conflict", "denied", "uncertain"} : Fails(s)
  BY <1>1, <1>2, FailsOK
<1>3. CASE IsTheRepository /\ Continues([call EXCEPT !.data = named])
  <2>1. /\ DOMAIN call' = CallFields /\ call'.at = call.at + 1 /\ call'.data = named
        /\ \A f \in CallFields \ {"at", "data"} : call'[f] = call[f]
    BY <1>1, <1>3 DEF Continues, CallOK, CallFields
  <2>2. /\ call'.verb = call.verb /\ call'.ref = call.ref /\ call'.sent = call.sent
        /\ call'.seen = call.seen
    BY <2>1 DEF CallFields
  <2>3. named' = named /\ named.id = call.ref /\ applied' = applied
    BY <1>1, <1>3 DEF IsTheRepository, SystemKept
  <2>3a. call'.at = Last[call.verb] => returned \subseteq returned'
    <3>1. call.at + 1 = Last[call.verb] => Program[call.verb][call.at + 1] = "judge"
      BY <1>1, Places DEF CallOK, Doing
    <3> QED BY <2>1, <3>1, Recorded DEF Opens
  <2>4. ASSUME call.sent PROVE Earning'
    <3>1. <<call.verb, call.at>> \in
            {<<"create", 4>>, <<"create", 6>>, <<"private", 4>>, <<"rename", 7>>, <<"rename", 9>>,
             <<"key", 6>>, <<"key", 8>>, <<"secret", 5>>, <<"dispatch", 5>>}
      BY <1>1, <2>4, Places DEF CallOK, Doing
    <3>2. CASE call.verb = "create"
      BY <1>1, <2>2, <2>3, <2>4, <3>2, Recorded DEF Earning, AdminIInv
    <3>3. CASE call.verb = "private"
      BY <2>1, <2>2, <2>3, <2>4, <3>3, Recorded DEF Earning, AsWanted
    <3>4. CASE call.verb = "rename" /\ call.at = 9
      <4>1. /\ ReadsOf(IsRenamed(call.seen.heads, call.seen.default)) /\ call.seen.default \in BranchName
            /\ call.seen.id = call.ref => HasDefault(call.seen)
        BY <1>1, <2>4, <3>4 DEF Earning, AdminIInv
      <4>2. call'.at = 10 /\ returned \subseteq returned'
        BY <2>1, <2>3a, <3>4 DEF Last
      <4> QED BY <2>2, <2>3, <3>4, <4>1, <4>2, Recorded DEF Earning, ReadsOf
    <3>5. CASE call.verb = "key" /\ call.at = 8
      <4>1. ReadsOf(HasWanted(call.seen.keys))
        BY <1>1, <2>4, <3>5 DEF Earning, AdminIInv
      <4>2. call'.at = 9 /\ returned \subseteq returned'
        BY <2>1, <2>3a, <3>5 DEF Last
      <4> QED BY <2>2, <2>3, <3>5, <4>1, <4>2, Recorded DEF Earning, ReadsOf
    <3>6. CASE <<call.verb, call.at>> \in {<<"rename", 7>>, <<"key", 6>>}
      <4>1. /\ call'.verb = "rename" => ~ (call'.at > 8)
            /\ call'.verb = "key" => ~ (call'.at > 7)
            /\ call'.verb \in {"rename", "key"}
        BY <2>1, <2>2, <3>6
      <4> QED BY <4>1 DEF Earning
    <3>7. CASE call.verb \in {"secret", "dispatch"}
      <4>1. call'.at = 6 /\ returned \subseteq returned'
        BY <2>1, <2>3a, <3>1, <3>7 DEF Last
      <4> QED BY <1>1, <2>2, <2>3, <2>4, <3>7, <4>1 DEF Earning, AdminIInv
    <3> QED BY <3>1, <3>2, <3>3, <3>4, <3>5, <3>6, <3>7
  <2> QED BY <1>1, <2>1, <2>4, GoesOnOK
<1> QED BY <1>2, <1>3 DEF Check

(* A look reads from whatever bears the name; if that is the repository,   *)
(* and as wanted, the history has it.                                      *)
LEMMA LookOK ==
  ASSUME AdminIInv, Look, Records
  PROVE  AdminIInv'
<1>1. /\ Doing("look") /\ SystemKept /\ CallOK /\ call.status = "none"
      /\ call.at < Last[call.verb] /\ call.at # WriteAt[call.verb]
  BY BeforeTheWrite DEF Look, GitHubAsIs, SystemKept, AdminIInv
<1>2. CASE \E s \in {"conflict", "uncertain"} : Fails(s)
  BY <1>1, <1>2, FailsOK
<1>3. CASE Continues([call EXCEPT !.seen = named])
  <2>1. /\ DOMAIN call' = CallFields /\ call'.at = call.at + 1 /\ call'.seen = named
        /\ \A f \in CallFields \ {"at", "seen"} : call'[f] = call[f]
    BY <1>1, <1>3 DEF Continues, CallOK, CallFields
  <2>2. /\ call'.verb = call.verb /\ call'.ref = call.ref /\ call'.sent = call.sent
        /\ named' = named /\ applied' = applied
    BY <1>1, <2>1 DEF CallFields, SystemKept
  <2>3. ASSUME call.sent PROVE Earning'
    <3>1. <<call.verb, call.at>> \in {<<"create", 5>>, <<"rename", 8>>, <<"key", 7>>}
      BY <1>1, <2>3, Places DEF CallOK, Doing
    <3>2. CASE call.verb = "create"
      BY <1>1, <2>2, <2>3, <3>2, Recorded DEF Earning, AdminIInv
    <3>3. CASE call.verb = "rename" /\ call.at = 8
      <4>1. named.default \in BranchName /\ (named.id = call.ref => HasDefault(named))
        BY <3>3 DEF AdminIInv, IdsOK, Repositories, IsRepository, DefaultIsThere
      <4>2. call'.at = 9 /\ Last["rename"] = 10
        BY <2>1, <3>3 DEF Last
      <4> QED BY <2>1, <2>2, <2>3, <3>3, <4>1, <4>2, Recorded DEF Earning, ReadsOf, AsWanted
    <3>4. CASE call.verb = "key" /\ call.at = 7
      <4>1. call'.at = 8 /\ Last["key"] = 9
        BY <2>1, <3>4 DEF Last
      <4> QED BY <2>1, <2>2, <2>3, <3>4, <4>1, Recorded DEF Earning, ReadsOf, AsWanted
    <3> QED BY <3>1, <3>2, <3>3, <3>4
  <2> QED BY <1>1, <2>1, <2>3, GoesOnOK
<1> QED BY <1>2, <1>3 DEF Look

(* Before the write a call may go on or end as it likes.                   *)
LEMMA UnsentStepsOK ==
  ASSUME AdminIInv, Inventory \/ Exact \/ Decide
  PROVE  AdminIInv'
<1>1. /\ SystemKept /\ CallOK /\ call.status = "none" /\ ~ call.sent
      /\ call.at < Last[call.verb] /\ call.at # WriteAt[call.verb]
  BY BeforeTheWrite DEF Inventory, Exact, Decide, GitHubAsIs, SystemKept, AdminIInv
<1>2. CASE \E s \in {"conflict", "observed"} : Returns(s)
  BY <1>1, <1>2, EndsOK
<1>3. CASE Fails("conflict")
  BY <1>1, <1>3, FailsOK
<1>4. CASE \E with : /\ \E seen : with \in {call, [call EXCEPT !.seen = seen]}
                     /\ Continues(with)
  <2>1. /\ DOMAIN call' = CallFields /\ call'.at = call.at + 1
        /\ \A f \in CallFields \ {"at", "seen"} : call'[f] = call[f]
    BY <1>1, <1>4 DEF Continues, CallOK, CallFields
  <2> QED BY <1>1, <2>1, GoesOnOK
<1> QED BY <1>2, <1>3, <1>4 DEF Inventory, Exact, Decide

(* What the readback shows of the repository of the call has been recorded. *)
LEMMA JudgeOK ==
  ASSUME AdminIInv, Judge, Records
  PROVE  AdminIInv'
<1>1. /\ Doing("judge") /\ SystemKept /\ CallOK /\ call.status = "none"
      /\ call.at = Last[call.verb] /\ call.sent
  BY BeforeTheWrite DEF Judge, GitHubAsIs, SystemKept, AdminIInv
<1>2. CASE Verdict \in {"conflict", "uncertain"}
  BY <1>1, <1>2, EndsOK DEF Judge
<1>3. CASE Verdict \in {"verified", "accepted"}
  <2>1. /\ DOMAIN call' = CallFields /\ call'.status = Verdict
        /\ \A f \in CallFields \ {"status"} : call'[f] = call[f]
    BY <1>1 DEF Judge, Returns, CallOK, CallFields
  <2>2. /\ call'.verb = call.verb /\ call'.at = call.at /\ call'.ref = call.ref
        /\ call'.sent = call.sent
    BY <2>1 DEF CallFields
  <2>3. CallOK'
    BY <1>1, <1>3, <2>1, <2>2 DEF CallOK
  <2>4. (IdsOK /\ DefaultIsThere /\ Unsent)'
    BY <1>1, <2>2 DEF AdminIInv, IdsOK, Repositories, IsRepository, DefaultIsThere, Unsent, SystemKept
  <2>5. (Earning /\ Hidden)'
    BY <1>3, <2>1 DEF Earning, Hidden
  <2>6. ASSUME Sandwiched => call.ref \notin returned
        PROVE  /\ Verdict = "verified" => held
               /\ Verdict = "accepted" \/ call.verb = "create" => call.ref \in applied
    <3>1. CASE call.verb \in {"secret", "dispatch"}
      <4>1. call.ref \in applied /\ Verdict = "accepted"
        BY <1>1, <2>6, <3>1 DEF AdminIInv, Earning, Verdict, Last, Sandwiched
      <4> QED BY <3>1, <4>1
    <3>2. CASE call.verb = "create"
      BY <1>1, <3>2 DEF AdminIInv, Earning
    <3>3. CASE call.verb = "private"
      <4>1. Verdict = IF call.data.private THEN "verified" ELSE "uncertain"
        BY <3>3 DEF Verdict
      <4>2. call.data.private => held
        BY <1>1, <3>3 DEF AdminIInv, Earning, Last
      <4> QED BY <3>3, <4>1, <4>2
    <3>4. CASE call.verb = "rename"
      <4>1. /\ ReadsOf(IsRenamed(call.seen.heads, call.seen.default))
            /\ call.seen.default \in BranchName
            /\ call.seen.id = call.ref => HasDefault(call.seen)
        BY <1>1, <3>4 DEF AdminIInv, Earning, Last
      <4>2. call.seen.id = call.ref
        BY <1>1, <2>6, <3>4, <4>1 DEF ReadsOf, Sandwiched
      <4>3. Verdict = "verified" => IsRenamed(call.seen.heads, call.data.default)
        BY <3>4 DEF Verdict
      <4>4. Verdict = "verified" => IsRenamed(call.seen.heads, call.seen.default)
        BY <4>1, <4>2, <4>3 DEF IsRenamed, BranchName, HasDefault
      <4>5. Verdict # "accepted"
        BY <3>4 DEF Verdict
      <4> QED BY <3>4, <4>1, <4>2, <4>4, <4>5 DEF ReadsOf
    <3>5. CASE call.verb = "key"
      <4>1. ReadsOf(HasWanted(call.seen.keys))
        BY <1>1, <3>5 DEF AdminIInv, Earning, Last
      <4>2. /\ Verdict = "verified" => HasWanted(call.seen.keys)
            /\ Verdict # "accepted"
        <5>1. /\ Verdict = "verified" => HasMine(call.seen.keys)
              /\ Verdict # "accepted"
          BY <3>5 DEF Verdict
        <5>2. HasMine(call.seen.keys) => HasWanted(call.seen.keys)
          <6> DEFINE own == {k \in call.seen.keys : call.ack => k.mine}
          <6>1. own \subseteq call.seen.keys
            OBVIOUS
          <6> HIDE DEF own
          <6>2. HasWanted(own) => HasWanted(call.seen.keys)
            BY <6>1 DEF HasWanted
          <6> QED BY <6>2 DEF HasMine, own
        <5> QED BY <5>1, <5>2
      <4> QED BY <1>1, <2>6, <3>5, <4>1, <4>2 DEF ReadsOf, Sandwiched
    <3> QED BY <1>1, <3>1, <3>2, <3>3, <3>4, <3>5 DEF CallOK, Verbs
  <2>7. SuccessIsEarned'
    <3>1. returned \subseteq returned' /\ (held => held') /\ applied' = applied
      BY <1>1, Recorded DEF Opens, Doing, SystemKept
    <3> QED BY <2>1, <2>2, <2>6, <3>1 DEF SuccessIsEarned, Sandwiched
  <2> QED BY <2>3, <2>4, <2>5, <2>7 DEF AdminIInv
<1>4. Verdict \in {"conflict", "uncertain", "verified", "accepted"}
  BY DEF Verdict
<1> QED BY <1>2, <1>3, <1>4

(* The repository whose branch is renamed keeps a default branch.          *)
LEMMA DefaultStays ==
  ASSUME IdsOK, DefaultIsThere, NamedMoves, call'.verb = call.verb,
         call.verb = "rename" => call'.ref = call.ref
  PROVE  DefaultIsThere'
<1> SUFFICES ASSUME call.verb = "rename", NEW r \in Repositories', r.id = call.ref
             PROVE  HasDefault(r)
  BY DEF DefaultIsThere
<1> DEFINE ref == call.ref
<1>1. ref \in Nat /\ ref <= lastId /\ ref >= 1 /\ lastId \in Nat
  BY DEF IdsOK
<1>2. r.id = ref /\ ref # 0 /\ ~ (ref > lastId)
  <2> HIDE DEF ref
  <2>1. ref # 0 /\ ~ (ref > lastId)
    BY <1>1
  <2> QED BY <2>1 DEF ref
<1>3. PICK o \in Repositories : o.id = r.id /\ (HasDefault(o) => HasDefault(r))
  BY <1>2 DEF NamedMoves, Descends
<1> QED BY <1>3 DEF DefaultIsThere

(* The name leads to a repository that did not bear it: it is new, or has   *)
(* been recorded to return.                                                *)
LEMMA NameReturns ==
  ASSUME IdsOK, NamedMoves, Records, ~ Opens, call.verb # "create",
         named'.id = call.ref, named.id # call.ref
  PROVE  call.ref \in returned'
<1> DEFINE ref == call.ref
<1>1. ref \in Nat /\ ref <= lastId /\ ref >= 1 /\ lastId \in Nat
  BY DEF IdsOK
<1>2. named' \in Repositories'
  BY DEF Repositories
<1>3. named'.id = ref /\ ref # 0 /\ ~ (ref > lastId)
  <2> HIDE DEF ref
  <2>1. ref # 0 /\ ~ (ref > lastId)
    BY <1>1
  <2> QED BY <2>1 DEF ref
<1>4. PICK o \in Repositories : o.id = named'.id
  BY <1>2, <1>3 DEF NamedMoves, Descends
<1>5. o \in away
  BY <1>4 DEF Repositories
<1> QED BY <1>4, <1>5 DEF Records, ReturnedSince

(* What a step of others, or a late write, leaves of the invariant.        *)
LEMMA MovesOK ==
  ASSUME AdminIInv, NamedMoves, call' = call, applied \subseteq applied', Records,
         ~ call.sent => applied' = applied /\ pending' = pending
  PROVE  AdminIInv'
<1>1. ~ Opens /\ (held => held') /\ returned \subseteq returned'
  BY Recorded DEF Opens
<1>2. CallOK' /\ Unsent' /\ Hidden'
  BY DEF AdminIInv, CallOK, Unsent, Hidden
<1>3. SuccessIsEarned'
  BY <1>1 DEF AdminIInv, SuccessIsEarned, Sandwiched
<1>4. call.verb # "create" /\ named'.id = call.ref => named.id = call.ref \/ call.ref \in returned'
  BY <1>1, NameReturns DEF AdminIInv
<1>5. IdsOK'
  <2> DEFINE ref == call.ref
  <2>1. /\ lastId \in Nat /\ lastId' \in Nat /\ lastId <= lastId' /\ ref \in Nat /\ ref <= lastId
        /\ call.verb # "create" => ref >= 1
    BY DEF AdminIInv, IdsOK, NamedMoves
  <2>2. ref <= lastId'
    <3> HIDE DEF ref
    <3> QED BY <2>1
  <2> QED BY <2>1, <2>2 DEF IdsOK, NamedMoves
<1>6. DefaultIsThere'
  BY DefaultStays DEF AdminIInv
<1>7. Earning'
  BY <1>1, <1>4 DEF AdminIInv, Earning, ReadsOf
<1> QED BY <1>2, <1>3, <1>5, <1>6, <1>7 DEF AdminIInv

(* The write is recorded against the repository it was applied to, and the *)
(* call goes on only from an answer that names it.                         *)
LEMMA WriteOnceOK ==
  ASSUME AdminIInv, WriteOnce, Records
  PROVE  AdminIInv'
<1>1. /\ Doing("write") /\ CallOK /\ call.status = "none" /\ ~ call.sent
      /\ call.at = WriteAt[call.verb]
  BY BeforeTheWrite DEF WriteOnce, AdminIInv
<1>2. CASE SystemKept /\ \E s \in {"conflict", "denied"} : Returns(s)
  BY <1>1, <1>2, EndsOK
<1>3. CASE /\ \/ Applies /\ call' \in {Answered201, Unanswered, Unproved}
              \/ UNCHANGED <<named, lastId, applied>> /\ call' = Unanswered
  <2>1. NamedMoves
    BY <1>3, StepsMove DEF WriteOnce, AdminStep
  <2> DEFINE Sent == [call EXCEPT !.sent = TRUE, !.at = call.at + 1]
  <2>2. \/ call' = Answered201 /\ Applies
        \/ call' = Unproved
        \/ call' = Sent /\ call.verb \in {"private", "rename", "key"}
    BY <1>1, <1>3 DEF Unanswered, WithoutIdentity, CallOK, Verbs
  <2>3. /\ DOMAIN call' = CallFields /\ call'.sent = TRUE /\ call'.verb = call.verb
        /\ \/ call'.at = call.at + 1 /\ call'.status = "none"
           \/ call'.at = call.at /\ call'.status = "uncertain"
        /\ call'.ref = call.ref \/ (call.verb = "create" /\ call'.ref = named'.id)
    BY <1>1, <2>2 DEF Answered201, Unproved, CallOK, CallFields
  <2>4. CallOK'
    <3> DEFINE w == WriteAt[call.verb]
               l == Last[call.verb]
    <3>1. w \in Nat /\ l \in Nat /\ w < l /\ call.at = w /\ call.at \in 1..l
      BY <1>1, Sizes DEF CallOK
    <3> HIDE DEF w, l
    <3>2. w \in 1..l /\ w + 1 \in 1..l /\ w + 1 > w
      BY <3>1
    <3>3. /\ call'.at \in 1..l
          /\ call'.status = "none" => call'.at > w
      BY <2>3, <3>1, <3>2
    <3> QED BY <1>1, <2>3, <3>3 DEF CallOK, w, l
  <2>5. /\ lastId \in Nat /\ lastId' \in Nat /\ lastId <= lastId' /\ call.ref \in Nat
        /\ call.ref <= lastId /\ named'.id \in Nat /\ named'.id <= lastId'
        /\ call.verb # "create" => call.ref >= 1
    BY <2>1 DEF AdminIInv, IdsOK, NamedMoves, IsRepository, Repositories
  <2>6. IdsOK'
    <3>1. CASE call'.ref = call.ref
      <4> DEFINE ref == call.ref
                 newest == lastId'
      <4> HIDE DEF ref, newest
      <4>1. ref <= newest
        BY <2>5 DEF ref, newest
      <4> QED BY <2>1, <2>3, <2>5, <3>1, <4>1 DEF IdsOK, NamedMoves, ref, newest
    <3>2. CASE call.verb = "create" /\ call'.ref = named'.id
      BY <2>1, <2>3, <2>5, <3>2 DEF IdsOK, NamedMoves
    <3> QED BY <2>3, <3>1, <3>2
  <2>7. DefaultIsThere'
    BY <2>1, <2>3, DefaultStays DEF AdminIInv
  <2>8. (Unsent /\ Hidden /\ SuccessIsEarned)'
    BY <2>3 DEF Unsent, Hidden, SuccessIsEarned
  <2>9. Earning'
    <3> SUFFICES ASSUME call'.status = "none" PROVE Earning'
      BY DEF Earning
    <3>1. /\ call'.at = call.at + 1
          /\ \/ call' = Answered201 /\ Applies
             \/ call.verb \in {"private", "rename", "key"}
      <4>1. call' = Unproved => call'.status = "uncertain"
        BY <1>1 DEF Unproved, CallOK, CallFields
      <4> QED BY <2>2, <2>3, <4>1
    <3>2. CASE call.verb = "create"
      <4>1. /\ named' = [NoRepository EXCEPT !.id = lastId + 1]
            /\ applied' = applied \union {named'.id} /\ call'.ref = named'.id
        BY <1>1, <3>1, <3>2 DEF Applies, Written, Answered201, CallOK, CallFields
      <4>2. named'.private /\ Branches(named') = {}
        BY <4>1 DEF NoRepository, Branches
      <4>3. held'
        BY <2>3, <3>2, <4>1, <4>2, Recorded DEF AsWanted
      <4> QED BY <2>3, <3>2, <4>1, <4>3 DEF Earning
    <3>3. CASE call.verb \in {"secret", "dispatch"}
      <4>1. applied' = applied \union {named'.id} /\ call'.at = 5
        BY <1>1, <3>1, <3>3 DEF Applies, WriteAt
      <4> QED BY <2>3, <3>3, <4>1 DEF Earning
    <3>4. CASE call.verb \in {"private", "rename", "key"}
      <4>1. /\ call.verb = "private" => call'.at = 4
            /\ call.verb = "rename" => call'.at = 7
            /\ call.verb = "key" => call'.at = 6
        BY <1>1, <3>1 DEF WriteAt
      <4>2. /\ call.verb = "private" => ~ (call'.at = 5)
            /\ call.verb = "rename" => ~ (call'.at > 8)
            /\ call.verb = "key" => ~ (call'.at > 7)
        BY <4>1
      <4> QED BY <2>3, <3>4, <4>2 DEF Earning
    <3> QED BY <1>1, <3>2, <3>3, <3>4 DEF CallOK, Verbs
  <2> QED BY <2>4, <2>6, <2>7, <2>8, <2>9 DEF AdminIInv
<1> QED BY <1>2, <1>3 DEF WriteOnce, SystemKept

(* Every step keeps the invariant.                                         *)
LEMMA AdminStepOK == AdminIInv /\ [AdminNext]_adminVars => AdminIInv'
<1> SUFFICES ASSUME AdminIInv, [AdminNext]_adminVars PROVE AdminIInv'
  OBVIOUS
<1>1. CASE UNCHANGED adminVars
  BY <1>1 DEF adminVars, AdminIInv, CallOK, IdsOK, Repositories, IsRepository, DefaultIsThere, Unsent,
              ReadsOf, Earning, Hidden, SuccessIsEarned, Sandwiched
<1>2. CASE AdminNext
  <2>1. AdminStep /\ Records
    BY <1>2 DEF AdminNext, Records
  <2>2. CASE Check
    BY <2>1, <2>2, CheckOK
  <2>3. CASE Look
    BY <2>1, <2>3, LookOK
  <2>4. CASE Inventory \/ Exact \/ Decide
    BY <2>4, UnsentStepsOK
  <2>5. CASE WriteOnce
    BY <2>1, <2>5, WriteOnceOK
  <2>6. CASE Judge
    BY <2>1, <2>6, JudgeOK
  <2>7. CASE ApplyLate
    <3>1. call' = call /\ applied \subseteq applied' /\ call.sent
      BY <2>7 DEF ApplyLate, Applies, AdminIInv, Unsent
    <3> QED BY <2>1, <3>1, StepsMove, MovesOK
  <2>8. CASE Interfere
    BY <2>1, <2>8, StepsMove, MovesOK DEF Interfere
  <2> QED BY <2>1, <2>2, <2>3, <2>4, <2>5, <2>6, <2>7, <2>8 DEF AdminStep
<1> QED BY <1>1, <1>2

(* So the invariant always holds.                                         *)
LEMMA AdminAlways == AdminSpec => []AdminIInv
BY AdminInitOK, AdminStepOK, PTL DEF AdminSpec

(* "verified", "accepted" and a created repository are earned by the very  *)
(* repository the caller named, whoever bears its name meanwhile and       *)
(* however late a lost write is applied; where only two checks stand       *)
(* around what was read or written, unless it lost the name between them   *)
(* and got it back.                                                        *)
THEOREM EarnedByTheOneNamed == AdminSpec => []SuccessIsEarned
<1>1. AdminIInv => SuccessIsEarned
  BY DEF AdminIInv
<1> QED BY <1>1, AdminAlways, PTL

(* "denied" and "observed" are answers of a call that wrote nothing and    *)
(* whose write can no longer be applied.                                   *)
THEOREM RefusedMeansUnwritten == AdminSpec => []NoWriteIsHidden
<1>1. AdminIInv => NoWriteIsHidden
  BY DEF AdminIInv, NoWriteIsHidden, Hidden, Unsent
<1> QED BY <1>1, AdminAlways, PTL

-----------------------------------------------------------------------------
(* Install plans. *)

Plan == [owner : Account \union {0}, ids : [Role -> Identity \union {0}], ready : BOOLEAN]

Known == [owner : Account \union {0}, ids : [Role -> Identity \union {0}]]

(* What was found first stays in the plan for good: conflicts keep it, and  *)
(* a plan without conflict agrees with the one before it wherever that     *)
(* knew an identity.                                                       *)
PlanKeepsTheFirst ==
  /\ plan.owner = first.owner
  /\ plan.ids = first.ids

PlanIInv ==
  /\ plan \in Plan
  /\ first \in Known
  /\ latest \in Known
  /\ PlanKeepsTheFirst
  /\ ReadyOverTheFirst

(* Every discovery holds identities, or 0 where none is known.             *)
LEMMA DiscoveriesAreKnown ==
  ASSUME NEW d \in Discovery
  PROVE  /\ d.owner \in Account \union {0}
         /\ IdsOf(d) \in [Role -> Identity \union {0}]
         /\ \A r \in Role : IdsOf(d)[r] = d.repositories[r].id
BY DEF Discovery, Observation, Unseen, IdsOf

(* The first plan is the first discovery.                                  *)
LEMMA PlanEstablished == PlanInit => PlanIInv
BY DiscoveriesAreKnown
   DEF PlanInit, PlanIInv, Plan, Known, Installed, Found, PlanKeepsTheFirst,
       ReadyOverTheFirst, Unblocked

(* Resuming a plan that conflicts with what is found keeps the plan's own  *)
(* identities, and is not ready.                                           *)
LEMMA ConflictKeepsTheFirst ==
  ASSUME PlanIInv, NEW d \in Discovery, NEW same \in BOOLEAN, Resume(d, same),
         Conflicts(plan, d, same)
  PROVE  PlanIInv'
<1>1. plan' = Anchored(plan, d) /\ latest' = Found(d) /\ first' = Remembered(first, d)
  BY DEF Resume, Resumed, OnConflict
<1>2. plan' \in Plan /\ first' \in Known /\ latest' \in Known
  BY <1>1, DiscoveriesAreKnown DEF PlanIInv, Plan, Known, Anchored, Remembered, Kept, Found, IdsOf
<1>3. PlanKeepsTheFirst'
  BY <1>1 DEF PlanIInv, PlanKeepsTheFirst, Anchored, Remembered
<1>4. plan'.ready = FALSE
  BY <1>1 DEF Anchored
<1> QED BY <1>2, <1>3, <1>4 DEF PlanIInv, ReadyOverTheFirst

(* Without a conflict, what is found agrees with all that was known.       *)
LEMMA AgreementKeepsTheFirst ==
  ASSUME PlanIInv, NEW d \in Discovery, NEW same \in BOOLEAN, Resume(d, same),
         ~ Conflicts(plan, d, same)
  PROVE  PlanIInv'
<1>1. plan' = Installed(d) /\ latest' = Found(d) /\ first' = Remembered(first, d)
  BY DEF Resume, Resumed
<1>2. Kept(first.owner, d.owner) = d.owner
  BY DEF PlanIInv, PlanKeepsTheFirst, Conflicts, Kept
<1>3. ASSUME NEW r \in Role PROVE Kept(first.ids[r], d.repositories[r].id) = IdsOf(d)[r]
  BY DiscoveriesAreKnown DEF PlanIInv, PlanKeepsTheFirst, Conflicts, Kept
<1>4. [r \in Role |-> Kept(first.ids[r], d.repositories[r].id)] = IdsOf(d)
  BY <1>3 DEF IdsOf
<1>5. first' = Found(d)
  BY <1>1, <1>2, <1>4 DEF Remembered, Found
<1>6. plan' \in Plan /\ first' \in Known /\ latest' \in Known
  BY <1>1, <1>5, DiscoveriesAreKnown DEF Plan, Known, Installed, Found, Unblocked
<1>7. PlanKeepsTheFirst'
  BY <1>1, <1>5 DEF PlanKeepsTheFirst, Installed, Found
<1> QED BY <1>1, <1>5, <1>6, <1>7 DEF PlanIInv, ReadyOverTheFirst

(* Every resume keeps the invariant.                                       *)
LEMMA PlanKept == PlanIInv /\ [PlanNext]_planVars => PlanIInv'
<1> SUFFICES ASSUME PlanIInv, [PlanNext]_planVars PROVE PlanIInv'
  OBVIOUS
<1>1. ASSUME NEW d \in Discovery, NEW same \in BOOLEAN, Resume(d, same) PROVE PlanIInv'
  BY <1>1, ConflictKeepsTheFirst, AgreementKeepsTheFirst
<1>2. CASE UNCHANGED planVars
  BY <1>2 DEF planVars, PlanIInv, PlanKeepsTheFirst, ReadyOverTheFirst
<1> QED BY <1>1, <1>2 DEF PlanNext

(* plan_resume: an install plan is ready only over the account and the     *)
(* repositories its first discoveries found, however many resumes with     *)
(* other, missing or hidden ones lie between.                              *)
THEOREM ReadyOnlyOverTheFirst == PlanSpec => []ReadyOverTheFirst
<1>1. PlanIInv => ReadyOverTheFirst
  BY DEF PlanIInv
<1> QED BY <1>1, PlanEstablished, PlanKept, PTL DEF PlanSpec
=============================================================================
