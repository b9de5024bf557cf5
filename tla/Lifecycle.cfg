SPECIFICATION FairSpec
CONSTANTS
  AckCap = 1
  DataCap = 1
  RxCap = 1
  MaxRuns = 2
  Uses <- MCUses
INVARIANTS TypeOK OneOfAKind StopLeavesClean AddressLostToPending
PROPERTIES StopReturns RunServes RequestTaken
CHECK_DEADLOCK FALSE
