SPECIFICATION Spec
CONSTANTS
  Places = {"door", "lantern", "shrine"}
  GhostSpawn = "door"
  BodySpawn = "door"
  Street = "street"
  RoomOf <- MCRoomOf
  BoothAt <- MCBoothAt
  ChestAt <- MCChestAt
  DoorAt <- MCDoorAt
  Lanterns = {"riddle"}
  None = "none"
  Spawn = "spawn"
  Keys = {"KeyW"}
  OutboxSize = 2
  MaxUp = 2
  MaxPays = 3
CHECK_DEADLOCK FALSE
INVARIANTS
  TypeOK
  NeverRunsOn
  OpenIsDrawn
PROPERTY PaysAgainOnlyUntold
