SPECIFICATION Spec
CONSTANTS
  App = {a1, a2}
  BubbleMaxCount = 2
  OverlayMaxCount = 0
  MaxNotify = 4
  MaxQueued = 2
CONSTRAINT Few
SYMMETRY Symmetry
INVARIANTS TypeOK Arranged RowsLive RecordsListed OverlapsCounted AbortsOnlyMisled StagingLive StagingOrdered
CHECK_DEADLOCK FALSE
