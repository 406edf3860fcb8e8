SPECIFICATION ProcessSpec
CONSTANT MaxFaults = 3
INVARIANTS
  DaemonFirst
PROPERTIES
  DeathNoticed
  ServesAgain
CHECK_DEADLOCK FALSE
