CONSTANTS
  base = base
  good = good
  better = better
  twin = twin
  overfit = overfit
  loose = loose
  foreign = foreign
  odd = odd
  slack = slack
  tuned = tuned
  overtuned = overtuned
  NaN = NaN
  Inf = Inf
  None = None
  Target = "sharpe"
  Edits = {base, good, better, twin, overfit, loose, foreign, odd, slack, tuned, overtuned}
  Baseline = base
  Outcome <- MCOutcome
  EditLimits <- MCLimits
  HoldoutSharpe <- MCHoldoutSharpe
  Hash <- MCHash
  Series <- MCSeries
  Family <- MCFamily
  Splits = {1, 2}
  HalfSharpe <- MCHalfSharpe
  ExpectedZ <- MCExpectedZ
  Reach = 20
  Phi <- MCPhi
  Precision <- MCPrecision
  HoldoutPrecision <- MCHoldoutPrecision
  Incomparable <- MCIncomparable
  Tunings <- MCTunings
  Kinship = 60
  Penalty = 10
  PeekLimit = 3
  MaxShown = 2
  NumericOpt = TRUE
  MaxIterations = 3
  Proposals <- MCProposals
SPECIFICATION Spec
INVARIANT TypeOK
INVARIANT NoDominatedChoice
INVARIANT RowsHoldOneBacktest
INVARIANT DuplicatesTakeNoPeek
INVARIANT FeedbackIsCurrent
PROPERTY NeverWorseThanIncumbent
CHECK_DEADLOCK FALSE
