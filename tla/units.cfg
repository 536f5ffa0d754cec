SPECIFICATION FairSpec
CONSTANTS
  PopUnits = {1, 2, 3}
  Unbuildable = {3}
  OtherUnits = {9}
  Undated = Undated
  None = None
  GateIds = {spawn}
  Requests = {r1}
  BootRows <- MCBootRows
  Rotation <- MCRotation
  MaxTime = 4
CHECK_DEADLOCK FALSE
INVARIANTS
  TypeOK
  AdvertisedInStep
PROPERTIES
  NoDeadUnitEnters
  FollowsMint
