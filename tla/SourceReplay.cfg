SPECIFICATION MCSpec
CONSTANTS
  User = {alice, bob}
  Head = {h1}
  MaxEvents = 4
  MaxRules = 2
  MaxReaderRules = 2
  MaxCursors = 2
SYMMETRY Symmetry
INVARIANTS
  Projectable
  PreparedIsReplayable
PROPERTIES
  BatchIsFold
  GenerationsCover
CHECK_DEADLOCK FALSE
