SPECIFICATION Spec
CONSTANTS
  me = me
  somebody = somebody
  UUIDs <- MCUUIDs
  Users <- MCUsers
  Me = me
  Sizes <- MCSizes
  Chapters <- MCChapters
  NoChapter = 0
  NewSize = 1
  Stored <- MCStored
  None = None
  ManyLevels = 20
  MaxEdits = 0
  MaxGames = 0
  MaxLaunches = 0
PROPERTY
  OnlyListedDeleted
CHECK_DEADLOCK FALSE
