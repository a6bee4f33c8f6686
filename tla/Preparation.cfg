SPECIFICATION MCSpec
CONSTANTS
  Version = {v1, v2, v3}
  Contributor = {alice, bob}
  None = None
  Selector = {s1, s2}
  Change = {c1, c2, c3}
  RegistryCommit = {k1, k2, k3}
  MaxGeneration = 4
SYMMETRY Symmetry
INVARIANTS
  Materializable
  RetiredIsRestorable
  EvaluatorsAgree
  NoLostChange
  ScopeIsActivated
  PreparedAsReplayed
PROPERTIES
  CoverageIsAssented
  ActivationAsDeclared
  OvertakenForGood
CHECK_DEADLOCK FALSE
