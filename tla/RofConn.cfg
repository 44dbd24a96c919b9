CONSTANTS
  Versions <- MCVersions
  versionbitmap <- MCBitmap
  mode = "CONTROLLER"
  Openings = {FALSE, TRUE}
  Hellos <- MCHellos
  MaxSessions = 2
SPECIFICATION FairSpec
CHECK_DEADLOCK FALSE
INVARIANTS TypeOK Supervised FeaturesFirst
PROPERTIES OnlyEarlyFallsBack HandshakeEnds NoZombie
