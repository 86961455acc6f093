SPECIFICATION FairSpec
CONSTANTS
  Contents <- EveryKind
  NewTypes = {"NotProcessed", "Processed"}
  BlockItemTimeout = 1
  MaxDelay = 2
  MaxNotify = 2
  MaxStarts = 1
  MaxRestarts = 1
PROPERTIES BannersExpire KeptInCenter
