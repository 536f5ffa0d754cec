------------------------------- MODULE MCClient -------------------------------
\* Client on a small world, for TLC: the lane, the door of the jade court, and
\* in the court the lantern with a chest beside it and the shrine.
EXTENDS Client

MCRoomOf == [door |-> "street", lantern |-> "jade", shrine |-> "jade"]
MCBoothAt == [door |-> "none", lantern |-> "riddle", shrine |-> "gacha"]
MCChestAt == [door |-> "none", lantern |-> "chest", shrine |-> "none"]
MCDoorAt == [door |-> "jade", lantern |-> "none", shrine |-> "none"]
==============================================================================
