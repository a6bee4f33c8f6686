CONSTANTS
  p1 = p1
  p2 = p2
  edit = edit
  grant = grant
  accept = accept
  rival = rival
  block = block
  None = None
  IdempotencyKey <- MCKey
  Configuration <- MCConfiguration
  InitialConfiguration = none
  Excludes <- MCExcludes
  Process = {p1, p2}
  Operation = {grant, block}
  Competitor = {block}
  Confirmed = {}
  Private = {grant, block}
  MaxExecutions = 1
  MaxCommits = 10
  MaxGeneration = 0
  MaxFaults = 0
SPECIFICATION Spec
PROPERTIES
  AppendUnderClaim
SYMMETRY Symmetry
