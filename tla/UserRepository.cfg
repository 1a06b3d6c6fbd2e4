SPECIFICATION Spec
CONSTANTS
  first = first
  second = second
  Devices = {ipad, iphone}
  Levels = {l1, l2}
  Characters <- MCCharacters
  LevelsRequired <- MCLevelsRequired
  DefaultCharacter = first
  None = None
  Awaited = Awaited
  MaxCompletions = 3
  MaxSelections = 1
  MaxLaunches = 2
INVARIANTS
  TypeOK
  SelectionEarned
  MemoryConverges
PROPERTY
  Settles
CHECK_DEADLOCK FALSE
