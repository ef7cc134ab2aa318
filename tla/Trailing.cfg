SPECIFICATION FairSpec
CONSTANTS
  Tickets = {1, 2}
  Plan <- MCPlan
  Prices = {4, 8, 13}
  Spread = 1
  Slippage = 1
  Unit = 4
  Activation = 4
  Step = 2
  Buffer = 1
  MinStep = 1
  Gaps = {3}
INVARIANT MarketSide
PROPERTIES StopAdvances Protected
