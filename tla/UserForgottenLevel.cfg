SPECIFICATION Spec
CONSTANTS
  first = first
  second = second
  Devices = {ipad}
  Levels = {l1}
  Characters <- MCCharacters
  LevelsRequired <- MCLevelsRequired
  DefaultCharacter = first
  None = None
  Awaited = Awaited
  MaxCompletions = 1
  MaxSelections = 0
  MaxLaunches = 1
INVARIANT
  CompletedLevelsRecorded
CHECK_DEADLOCK FALSE
