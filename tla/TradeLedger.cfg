SPECIFICATION LedgerFairSpec
CONSTANTS
  HistoryCap = 2
  PanelCap = 1
  MayMiss = {"file"}
  MaxTickets = 2
  MaxRows = 1
  Nothing = Nothing
INVARIANTS ClosedWithEvidence NewPositionShown ClosesShown
PROPERTIES ClosesGetRecorded ClosedLeavesPanel
