CONSTANTS
  base = base
  e1 = e1
  e2 = e2
  h1 = h1
  h2 = h2
  Edits = {base, e1, e2}
  Recognised = {base, e1}
  Baseline = base
  NoEdit = NoEdit
  Hashes = {h1}
  DatasetHash <- OneUniverse
  PriorPeeks <- OnePrior
  IterationChoices = {2}
  PeekLimit = 4
  Patience = 2
  StuckThreshold = 2
  ExploitPatience = 1
  MaxBatch = 2
  NumericOpt = FALSE
  MaxSessions = 2
  MaxFaults = 2
SPECIFICATION Spec
CHECK_DEADLOCK FALSE
INVARIANT ResumedIncumbentAccepted
