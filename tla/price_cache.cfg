CONSTANTS
  r1 = r1
  r2 = r2
  Readers = {r1, r2}
  Horizon = 6
  TradingDays <- SixTrading
  DataDays <- SixPrices
  Windows <- SixWindows
  NoMeta = NoMeta
SPECIFICATION Spec
SYMMETRY EitherReader
CONSTRAINT Unbroken
INVARIANT TypeOK
INVARIANT AnswersComplete
INVARIANT CoverageHonest
