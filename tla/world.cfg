SPECIFICATION Spec
CONSTANTS
  WorldSpec <- DefaultWorld
  GhostSpawn <- DefaultGhostSpawn
  BodySpawn <- DefaultBodySpawn
  Stride = 4
  JumpVy = 52
  GravityPerTick = 8
  Range = 30
  Walks <- DefaultWalks
INVARIANTS
  TypeOK
  StandsClear
  CourtIsPaid
  SightIsExact
PROPERTIES
  WalksAround
