------------------------------- MODULE MCWorld -------------------------------
\* World in the default world of world.rs, for TLC.
EXTENDS World

Rect(x1, x2, z1, z2) == [x1 |-> x1, x2 |-> x2, z1 |-> z1, z2 |-> z2]
Court(bounds, d1, d2) == [bounds |-> bounds, door |-> [x1 |-> d1, x2 |-> d2]]
Target(court, x, h, z) == [court |-> court, at |-> <<x, z>>, y |-> h]

DefaultStreet == Rect(-300, 300, -100, 100)
DefaultCourts ==
  [jade    |-> Court(Rect(-220, -60, 100, 240), -160, -120),
   crimson |-> Court(Rect(60, 220, 100, 240), 120, 160)]
DefaultStalls ==
  << Rect(-280, -240, -100, -76), Rect(-210, -170, -100, -76), Rect(-140, -100, -100, -76),
     Rect(-70, -30, -90, -70), Rect(0, 40, -100, -76), Rect(70, 110, -100, -76),
     Rect(140, 180, -100, -76), Rect(210, 250, -100, -76), Rect(-285, -235, 78, 100),
     Rect(-25, 25, 78, 100), Rect(235, 285, 78, 100), Rect(268, 284, 45, 88) >>
DefaultTargets ==
  [jade    |-> Target("jade", -140, 0, 200),
   rooftop |-> Target("street", 90, 510, -78),
   stall   |-> Target("street", -50, 0, -95),
   alley   |-> Target("street", 292, 0, 94),
   riddle  |-> Target("jade", -90, 0, 140),
   gacha   |-> Target("crimson", 180, 0, 140),
   bell    |-> Target("street", 45, 0, 85)]
DefaultWorld == [street |-> DefaultStreet, courts |-> DefaultCourts,
                 stalls |-> DefaultStalls, targets |-> DefaultTargets]
DefaultGhostSpawn == <<0, -60>>
DefaultBodySpawn == <<0, 0>>

\* Three walks, each with the lane from the spawns to it: the west half of the
\* world on a coarse grid; the doors of both courts and the crates before the alley corner
\* on a fine one; the south row with the trinket, the skewer and the potion
\* stall on a fine one, with jumps.
Lane == Rect(0, 0, -60, 60)
WestHalf == {Rect(-300, 60, -100, 240)}
NorthSide == {Lane, Rect(-176, 296, 60, 60), Rect(-176, -104, 60, 112),
              Rect(104, 176, 60, 112), Rect(228, 296, 40, 100)}
SouthRow == {Lane, Rect(-88, 120, -60, -60), Rect(-88, -12, -100, -60),
             Rect(60, 120, -100, -60)}
DefaultWalks ==
  LET Walk(rects, g, c, j) == [within |-> rects, grain |-> g, courts |-> c, jumps |-> j]
  IN {Walk(WestHalf, 4, {"jade"}, FALSE),
      Walk(NorthSide, 2, {"jade", "crimson"}, FALSE),
      Walk(SouthRow, 2, {}, TRUE)}
==============================================================================
