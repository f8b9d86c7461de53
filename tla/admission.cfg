SPECIFICATION FairSpec
CONSTANTS
  Outs = {o1}
  Ins = {i1, i2}
  Probes = {p1}
  MaxConnections = 1
  None = None
INVARIANTS TypeOK OneTransfer InstallExcludesSessions SlotMatchesTask WaitersAreReachable TrustPromptsOneAtATime NothingLeftBehind
PROPERTIES AnswerStands ShutdownDrains
CHECK_DEADLOCK FALSE
