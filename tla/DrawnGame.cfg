SPECIFICATION DrawnSpec
CONSTANTS
  Levels <- MCLevels
  Elsewhere = Elsewhere
  Lost = Lost
  MaxTaps = 1
INVARIANTS
  TypeOK
  OnTheRoute
  DoneOnFinish
  DrawnTypeOK
  ShipOnItsTile
PROPERTIES
  FinishedIsFrozen
  ImplementsPlay
CHECK_DEADLOCK FALSE
