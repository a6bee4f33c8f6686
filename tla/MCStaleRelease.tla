--------------------------- MODULE MCStaleRelease ---------------------------
(***************************************************************************)
(* Three engines and another writer, along one schedule of more steps than *)
(* a search of their interleavings reaches.  A behaviour of StaleSpec is a *)
(* behaviour of MutationEngine in which one process at a time moves, until *)
(* it stands where its line of the schedule says; what it does on its way  *)
(* is left to Next.                                                        *)
(*                                                                         *)
(*   edit    installs the configuration the project already has            *)
(*   other   another writer's event, which installs another one            *)
(***************************************************************************)
EXTENDS MutationEngineProperties, TLC

CONSTANTS p1, p2, p3, edit, other, first, second

MCKey == [op \in Operation |-> op]

MCConfiguration == (edit :> first) @@ (other :> second)

VARIABLE line  \* of the schedule

Until(x, task, pc) == [moves |-> x, task |-> task, pc |-> pc]

Schedule ==
  << Until(p3, "prepare", "derived"),       \* read the events head only
     Until(p1, "none", "idle"),             \* has prepared edit
     Until(p2, "begin", "coverage"),        \* read the prepared cell
     Until(p1, "refresh", "clear"),         \* edit was a no-op; fence released
     Until(p2, "append", "events"),         \* took the fence for that cell
     Until(other, "append", "publish-event"),
     Until(p2, "refresh", "close"),         \* about to complete the no-op
     Until(p1, "none", "idle"),             \* has cleared the cell
     Until(p3, "none", "idle"),             \* has prepared edit at the old head
     Until(p1, "append", "publish-event"),  \* has claimed it, under p2's fence
     Until(p2, "refresh", "clear"),         \* has released that fence
     Until(p1, "settle", "events") >>       \* has published edit

Arrived(now) ==
  IF now.moves = other
  THEN events' # events
  ELSE worker'[now.moves].task = now.task /\ worker'[now.moves].pc = now.pc

StaleNext ==
  /\ line \in DOMAIN Schedule
  /\ Next
  /\ \A x \in Process : worker'[x] # worker[x] <=> x = Schedule[line].moves
  /\ line' = IF Arrived(Schedule[line]) THEN line + 1 ELSE line

StaleSpec == Init /\ line = 1 /\ [][StaleNext]_<<vars, line>>
=============================================================================
