SPECIFICATION Spec
CONSTANTS
  Places = {"door", "lantern", "shrine"}
  GhostSpawn = "door"
  BodySpawn = "door"
  Street = "street"
  RoomOf <- MCRoomOf
  BoothAt <- MCBoothAt
  ChestAt <- MCChestAt
  DoorAt <- MCDoorAt
  Lanterns = {"riddle"}
  None = "none"
  Spawn = "spawn"
  Keys = {"KeyW", "KeyS"}
  OutboxSize = 2
  MaxUp = 1
  MaxPays = 3
CHECK_DEADLOCK FALSE
PROPERTY CharmIsShown
