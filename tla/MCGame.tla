------------------------------- MODULE MCGame --------------------------------
\* Game on a small world, for TLC: the street with a lane, a rooftop chest and
\* the bell, the jade court with a chest and the lantern, the crimson court
\* with the shrine.  A behaviour keeps to the tour it draws.
EXTENDS Game, TLC

MCRoomOf == [lane |-> "street", roof |-> "street", bell |-> "street",
             chest |-> "court.jade", lantern |-> "court.jade", shrine |-> "court.crimson"]
MCTargetAt == [lane |-> "none", roof |-> "chest.rooftop", bell |-> "booth.bell",
               chest |-> "chest.jade", lantern |-> "booth.riddle", shrine |-> "booth.gacha"]
MCStock == [k \in {"chest.rooftop", "chest.jade", "booth.riddle", "booth.gacha",
                   "booth.bell"} |->
             CASE k = "chest.rooftop" -> <<"roof1">>
               [] k = "chest.jade"    -> <<"jade1", "jade2">>
               [] k = "booth.riddle"  -> <<"riddle1", "riddle2">>
               [] k = "booth.gacha"   -> <<"gacha1", "gacha2">>
               [] k = "booth.bell"    -> <<"bell1", "bell2">>]

CONSTANTS s1, s2
Symmetry == Permutations({s1, s2})
==============================================================================
