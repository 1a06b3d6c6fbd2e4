SPECIFICATION Spec
CONSTANTS
  Levels <- MCLevels
  Messages <- MCMessages
  MaxMessages = 3
PROPERTY
  StopEndsEarlierRuns
CHECK_DEADLOCK FALSE
