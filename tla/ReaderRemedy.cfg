SPECIFICATION MCSpec
CONSTANTS
  User = {alice, bob}
  Head = {h1}
  MaxEvents = 4
  MaxRules = 2
  MaxReaderRules = 2
  MaxCursors = 1
INVARIANTS
  RemedyRemains
CHECK_DEADLOCK FALSE
