---------------------------- MODULE MCPreparation ----------------------------
(***************************************************************************)
(* Small instances, for TLC, of agreements with their contributors and of  *)
(* enforcement scope.  They share the lifecycle only, so a behaviour runs  *)
(* one of them (side): every history over the versions given, of any       *)
(* length, or every history of the change IDs and registry commits given.  *)
(***************************************************************************)
EXTENDS Preparation, TLC

VARIABLE side

Symmetry ==
  UNION {Permutations(s) : s \in {Version, Contributor, Selector, Change, RegistryCommit}}

agreementOnly == <<publications, currency, decisions>>

scopeOnly == <<scope, known, generation, requests, boundCommits, transfers>>

MCInit == Init /\ ScopeInit /\ side \in {"agreement", "scope"}

MCNext ==
  /\ \/ side = "agreement" /\ Next /\ UNCHANGED scopeOnly
     \/ side = "scope" /\ ScopeNext /\ UNCHANGED agreementOnly
  /\ UNCHANGED side

MCSpec == MCInit /\ [][MCNext]_<<vars, scopeVars, side>>
=============================================================================
