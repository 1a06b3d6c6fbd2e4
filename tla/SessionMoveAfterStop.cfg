SPECIFICATION Spec
CONSTANTS
  Levels <- MCLevels
  Messages <- MCMessages
  MaxMessages = 3
PROPERTY
  NoMoveWhenFinished
CHECK_DEADLOCK FALSE
