SPECIFICATION Spec
CONSTANTS
  Contents <- ShortAndLong
  NewTypes = {"NotProcessed"}
  BlockItemTimeout = 1
  MaxDelay = 2
  MaxNotify = 3
  MaxStarts = 1
  MaxRestarts = 1
VIEW Unheard
INVARIANTS TypeOK TimerArmed OneBannerPerBubble UniqueIds ExpiryHitsItsOwn BannersAreScheduled
