CONSTANTS
  p1 = p1
  p2 = p2
  p3 = p3
  edit = edit
  other = other
  first = first
  second = second
  None = None
  IdempotencyKey <- MCKey
  Configuration <- MCConfiguration
  InitialConfiguration = first
  Excludes = {}
  Process = {p1, p2, p3}
  Operation = {edit, other}
  Competitor = {other}
  Confirmed = {}
  Private = {}
  MaxExecutions = 2
  MaxCommits = 100
  MaxGeneration = 0
  MaxFaults = 0
SPECIFICATION StaleSpec
INVARIANTS
  LandedIsCovered
CHECK_DEADLOCK FALSE
