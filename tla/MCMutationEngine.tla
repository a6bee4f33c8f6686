-------------------------- MODULE MCMutationEngine --------------------------
(***************************************************************************)
(* Small instances of MutationEngine for TLC.                              *)
(*                                                                         *)
(*   edit    installs a new configuration (and is a no-op once installed)  *)
(*   grant   needs nothing and advances a materialization generation       *)
(*   accept  names the canonical head it was confirmed on                  *)
(*   rival   another writer's event under edit's idempotency key           *)
(*   block   another writer's event after which replay refuses accept      *)
(***************************************************************************)
EXTENDS MutationEngineProperties, TLC

CONSTANTS p1, p2, edit, grant, accept, rival, block

MCKey == [op \in Operation |-> IF op = rival THEN edit ELSE op]

MCConfiguration == [op \in Operation \intersect {edit, rival} |-> op]

MCExcludes == {<<block, accept>>}

Symmetry == Permutations({p1, p2})
=============================================================================
