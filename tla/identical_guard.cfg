CONSTANTS
  base = base
  commented = commented
  other = other
  deprecated = deprecated
  broken = broken
  failing = failing
  home = home
  near = near
  apart = apart
  moved = moved
  bare = bare
  heavy = heavy
  bug = bug
  idea = idea
  tip = tip
  Codes = {base, commented, other, deprecated, broken, failing}
  Configs = {home, near, apart, moved, bare}
  BaseCode = base
  BaseConfig = home
  Codemod <- MCCodemod
  Plain <- MCPlain
  Valid <- MCValid
  Slow <- MCSlow
  Similarity <- MCSimilarity
  Threshold = 950
  Jitters <- MCJitters
  Weights <- MCWeights
  Outcome <- MCOutcome
  Answers <- MCAnswers
  Batches <- MCBatches
  Lesson = {heavy, bug, idea, tip}
  LessonSize <- MCSizes
  MaxLessons = 4
  NCandidates = 2
  MaxRepairs = 2
  RecentConfigs = 2
  StuckThreshold = 2
  Workers = 2
  CacheSize = 2
  MaxIterations = 1
SPECIFICATION Spec
INVARIANT OnlyIdenticalRejected
CHECK_DEADLOCK FALSE
