CONSTANTS
  Calendars <- MCCalendars
  Year = 4
  LeapDay = 1
  LeapYears <- MCLeapYears
  TrainYears = 2
  TestYears = 1
  HoldoutYears = 1
  Strategies <- MCStrategies
  Regimes <- MCRegimes
  MaxWorkers = 2
  Lookback = 10
  Prescreen = TRUE
SPECIFICATION FairSpec
INVARIANT TypeOK
INVARIANT SearchBlindToHoldout
INVARIANT NoLookahead
INVARIANT EachDayTestedOnce
INVARIANT FoldReportsInOrder
INVARIANT ObjectiveAgrees
CHECK_DEADLOCK FALSE
PROPERTY EvaluationEnds
