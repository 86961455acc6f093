SPECIFICATION PanelSpec
CONSTANTS
  Contents <- Mixed
  NewTypes = {"NotProcessed"}
  BlockItemTimeout = 1
  MaxDelay = 1
  MaxNotify = 4
  MaxStarts = 1
  MaxRestarts = 0
  BubbleCounts = {0, 1}
CONSTRAINT Few
VIEW Unheard
INVARIANTS PanelTypeOK NoBannerLost VisibleTracksRows
