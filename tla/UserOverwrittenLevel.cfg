SPECIFICATION Spec
CONSTANTS
  first = first
  second = second
  Devices = {ipad, iphone}
  Levels = {l1, l2}
  Characters <- MCCharacters
  LevelsRequired <- MCLevelsRequired
  DefaultCharacter = first
  None = None
  Awaited = Awaited
  MaxCompletions = 2
  MaxSelections = 0
  MaxLaunches = 2
PROPERTY
  RecordedStays
CHECK_DEADLOCK FALSE
