CONSTANTS
  p1 = p1
  p2 = p2
  edit = edit
  grant = grant
  accept = accept
  rival = rival
  block = block
  None = None
  IdempotencyKey <- MCKey
  Configuration <- MCConfiguration
  InitialConfiguration = none
  Excludes <- MCExcludes
  Process = {p1, p2}
  Operation = {edit, grant}
  Competitor = {}
  Confirmed = {accept}
  Private = {grant, accept, block}
  MaxExecutions = 2
  MaxCommits = 10
  MaxGeneration = 0
  MaxFaults = 0
SPECIFICATION Spec
PROPERTIES
  AppendUnderMarker
SYMMETRY Symmetry
