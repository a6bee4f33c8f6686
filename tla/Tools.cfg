CONSTANTS
  x1 = x1
  None = None
  Exporter = {x1}
  MaxAttempts = 2
  MaxHead = 2
  Nothing = Nothing
  Lifetime = 2
  Margin = 1
  MaxIssued = 4
  MaxReads = 1
  MaxTime = 3
  MaxJumps = 1
  Jumped <- MCJumped
  Verb = {"create", "private", "rename", "key", "secret", "dispatch"}
  ForeignKey <- MCForeignKey
  MaxChanges = 2
  Role = {"records", "control"}
  Account <- MCAccount
  Identity <- MCAccount
SPECIFICATION Spec
INVARIANTS
  ReleasedToReaders
  CurrentViewsAreCoherent
  LocalAllOrNothing
  UsableTokensAreTracked
  SuccessLeavesNothing
  SuccessIsEarned
  NoWriteIsHidden
  ReadyOverTheFirst
PROPERTIES
  RequestsAreAnsweredOnce
  ForeignFilesSurvive
  HandedTokensLive
  JobWindsDown
CHECK_DEADLOCK FALSE
