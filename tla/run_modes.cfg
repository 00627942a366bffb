CONSTANTS
  base = base
  e1 = e1
  e2 = e2
  h1 = h1
  h2 = h2
  Edits = {base, e1, e2}
  Recognised = {base, e1}
  Baseline = base
  NoEdit = NoEdit
  Hashes = {h1}
  DatasetHash <- OneUniverse
  PriorPeeks <- NoPrior
  IterationChoices = {5}
  PeekLimit = 5
  Patience = 4
  StuckThreshold = 3
  ExploitPatience = 2
  MaxBatch = 1
  NumericOpt = TRUE
  MaxSessions = 1
  MaxFaults = 0
SPECIFICATION FairSpec
INVARIANT StopsExactlyWhenDue
INVARIANT ExploitAfterRecentWin
PROPERTY SessionsEnd
CHECK_DEADLOCK FALSE
