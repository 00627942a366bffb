CONSTANTS
  r1 = r1
  r2 = r2
  Readers = {r1, r2}
  Horizon = 5
  TradingDays <- AllFive
  DataDays <- AllFive
  Windows <- AllWindows
  NoMeta = NoMeta
SPECIFICATION Spec
INVARIANT ThreadsGetTheirDates
