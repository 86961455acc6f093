SPECIFICATION Spec
CONSTANTS
  Contents <- WithTransfer
  NewTypes = {"NotProcessed", "Processed"}
  BlockItemTimeout = 1
  MaxDelay = 1
  MaxNotify = 2
  MaxStarts = 1
  MaxRestarts = 0
INVARIANT ExpiryHitsItsOwn
