SPECIFICATION Spec
CONSTANTS
  Histories <- MCHistories
  Moves <- FewMoves
  Prices <- MCPrices
  Window = 19
  MaxBars = 19
  SwingLookback = 2
  MinBreak = 1
  BosBody = 35
  ChochBody = 28
  MaxBos = 3
  MaxChoch = 2
  BlockReach = 8
  MinBlock = 1
  BlockBody = 30
  MaxBlocks = 3
  RetraceBars = 3
  SweepMin = 1
  SweepMargin = 1
  MinBars = 8
  Readings <- MCReadings
  Hourly <- MCHourly
  SettingsSet <- MCSettings
  ConfHardMin = 47
  NormalMinConfidence = 60
  RangeMinConfidence = 55
  OptionTwoMinConfidence = 49
  AdxMin = 15
  StructureMaxAge = 3
  MarginalRR = 130
  FixedRR = 200
  ShortBars = 5
  MeanBars = 14
  RangeAtrBars = 7
  SpanBars = 6
  MomentumBars = 4
  PullbackBars = 10
  RangeLookback = 8
  QualityBars = 10
  MinFetched = 2
  MinHourly = 3
  MaxGapHours = 96
  MaxAgeHours = 4
INVARIANTS ReversalEndsTrend EntryFollowsStructure FailedBreakRefused EntryGeometry OrderConfirmed
 
