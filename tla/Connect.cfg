SPECIFICATION FairSpec
CONSTANTS
  Flags = {gfx, other}
  Gfx = gfx
  NoFlags = {absent}
  MaxPackets = 6
INVARIANT FlagReachesServer
PROPERTY ConnectingEnds
\* A session may fail or go silent.
CHECK_DEADLOCK FALSE
