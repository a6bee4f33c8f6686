CONSTANTS
  p1 = p1
  p2 = p2
  grant = grant
  rotate = rotate
  both = both
  back = back
  rename = rename
  None = None
  IdempotencyKey <- MCKey
  Configuration <- MCNone
  InitialConfiguration = none
  Excludes = {}
  Process = {p1}
  Operation = {grant, rotate, both, back, rename}
  Competitor = {}
  Confirmed = {}
  Private = {grant, rotate, both, back, rename}
  MaxExecutions = 3
  MaxCommits = 100
  MaxGeneration = 0
  MaxFaults = 1
  Wrapping = {"w1", "w2"}
  Activation <- MCActivation
  InitialKids <- MCInitialKids
  FirstRing <- MCFirstRing
  PushedRing <- MCPushedRing
  MaxRings = 4
SPECIFICATION KeyedSpec
INVARIANTS
  GuardsStayReadable
  HistoryStaysOpen
  RetiredKeysStayRetired
CHECK_DEADLOCK FALSE
