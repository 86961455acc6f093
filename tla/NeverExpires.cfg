SPECIFICATION Spec
CONSTANTS
  Contents <- ShortAndLong
  NewTypes = {"NotProcessed"}
  BlockItemTimeout = 1
  MaxDelay = 2
  MaxNotify = 3
  MaxStarts = 1
  MaxRestarts = 0
INVARIANT NonZeroTimeoutExpires
