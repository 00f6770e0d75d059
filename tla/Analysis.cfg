\* Every wiring of the analysis, histories on both sides of each threshold of
\* the indicators, packs of every status, of this symbol and of another, and an
\* external stack that sends what it likes.
CONSTANTS
  Wirings = {"native", "calibrated", "external"}
  Symbols = {"AAPL", "MSFT"}
  Tapes <- MCTapes
  BarCounts = {0, 4, 19, 20, 21, 60, 61}
  DatasetSizes = {1, 11, 31}
  Words <- MCWords
  DailyVols = {80, 120}
  Payloads <- MCPayloads
  MaxSignals = 2
  MaxDay = 1
  AdapterId = "brother_stack_v1"
  Organization = "brother_company"
SPECIFICATION Spec
INVARIANTS
  TypeOK
  SidesNeedCalibration
  NoSideWithoutAVoice
  CalibrationIsTraceable
  RefusalsAreTold
  EvidenceReachesTheKernel
  ExternalStaysExternal
  ScoreIsBlindToSide
  RegimesCountEveryReturn
