SPECIFICATION FairSpec
CONSTANTS
  Bubble = {b1, b2, b3, b4}
  BubbleCounts = {0, 1}
INVARIANTS TypeOK PendingHasTimer OnePlace RowsKept
PROPERTY PendingEnters
