SPECIFICATION Spec
CONSTANTS
  Period = 12
  Tolerance = 1
  TTL = 15
  ResultFade = 6
  ExpiryFade = 5
  MaxPlays = 3
CHECK_DEADLOCK FALSE
INVARIANT TypeOK
PROPERTIES VerdictIsDistance LostOnlyToOlder OverlayCloses
