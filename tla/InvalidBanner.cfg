SPECIFICATION PanelSpec
CONSTANTS
  Contents <- Messages
  NewTypes = {"NotProcessed"}
  BlockItemTimeout = 1
  MaxDelay = 1
  MaxNotify = 2
  MaxStarts = 1
  MaxRestarts = 0
  BubbleCounts = {1}
INVARIANT NoInvalidBanner
