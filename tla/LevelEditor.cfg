SPECIFICATION Spec
CONSTANTS
  me = me
  somebody = somebody
  UUIDs <- MCUUIDs
  Users <- MCUsers
  Me = me
  Sizes <- MCSizes
  Chapters <- MCChapters
  NoChapter = 0
  NewSize = 1
  Stored <- MCStored
  None = None
  ManyLevels = 3
  MaxEdits = 2
  MaxGames = 1
  MaxLaunches = 1
INVARIANTS
  TypeOK
  MirrorsServer
  BuilderShowsItsLevel
  CrashesExplained
  PlaysWhatIsShown
  AdministratorSeesAll
  CellsAreChapters
  SwipesUndo
CHECK_DEADLOCK FALSE
