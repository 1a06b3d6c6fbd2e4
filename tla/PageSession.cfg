SPECIFICATION SystemSpec
CONSTANTS
  Levels <- MCLevels
  Messages <- MCMessages
  Programs <- MCPrograms
  MaxMessages = 5
  MaxTaps <- MCMaxTaps
  ForeverRounds = 2
INVARIANTS
  TypeOK
  PlaysOnRoute
  OneOutcomePerRun
  GlowTracksInstruction
  PostsTheScript
  SilencedByButtons
  NamesItsBlock
  ShipFollowsPage
PROPERTIES
  StopCancels
  ImplementsEngine
  EveryInstructionTaken
  GlowEnds
  ScriptsEnd
CHECK_DEADLOCK FALSE
