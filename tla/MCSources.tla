----------------------------- MODULE MCSources -----------------------------
(***************************************************************************)
(* Small instances of SourcePreparation for TLC.  Exemptions, readers and  *)
(* overrides share the number of the last event and the lifecycle only, so *)
(* a behaviour spends its events on one of them (side).                    *)
(***************************************************************************)
EXTENDS SourcePreparation, TLC

VARIABLE side

Symmetry == Permutations(User)

MCInit == PreparedInit /\ side \in {"exemptions", "readers", "overrides"}

MCNext ==
  /\ \/ PreparedSuccess
     \/ side = "exemptions" /\ ExemptionNext
     \/ side = "readers" /\ ReaderNext
     \/ side = "overrides" /\ OverrideNext
  /\ UNCHANGED side

MCSpec == MCInit /\ [][MCNext]_<<preparedVars, side>>
=============================================================================
