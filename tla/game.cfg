SPECIFICATION Spec
CONSTANTS
  s1 = s1
  s2 = s2
  Sessions = {s1, s2}
  Places = {"lane", "roof", "bell", "chest", "lantern", "shrine"}
  GhostSpawn = "lane"
  BodySpawn = "lane"
  Street = "street"
  RoomOf <- MCRoomOf
  TargetAt <- MCTargetAt
  Roofs = {"roof"}
  NoTarget = "none"
  Chests = {"chest.rooftop", "chest.jade"}
  Riddles = {"booth.riddle"}
  Gachas = {"booth.gacha"}
  Bells = {"booth.bell"}
  Spawn = "spawn"
  Stock <- MCStock
  OutboxSize = 2
  GachaN = 3
  RiddleCount = 2
  MaxPulls = 6
  MaxPlays = 2
  Tours = {{"lane", "roof", "chest"}, {"lane", "lantern"}, {"lane", "shrine"}, {"lane", "bell"}}
SYMMETRY Symmetry
CHECK_DEADLOCK FALSE
INVARIANTS
  TypeOK
  PrizePaidOnce
  UnclaimedIsStocked
  PrizeAccounted
  BellPressIsPaid
