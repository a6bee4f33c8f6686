CONSTANTS
  p1 = p1
  p2 = p2
  edit = edit
  grant = grant
  accept = accept
  rival = rival
  block = block
  None = None
  IdempotencyKey <- MCKey
  Configuration <- MCConfiguration
  InitialConfiguration = none
  Excludes <- MCExcludes
  Process = {p1}
  Operation = {edit, grant, accept}
  Competitor = {}
  Confirmed = {accept}
  Private = {grant, accept, block}
  MaxExecutions = 3
  MaxCommits = 100
  MaxGeneration = 1
  MaxFaults = 2
SPECIFICATION FairSpec
INVARIANTS
  TypeOK
  GuardsCrossBound
  ReleaseIsProved
PROPERTIES
  AppendUnderMarker
  RepairsForward
