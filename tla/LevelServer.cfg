SPECIFICATION Spec
CONSTANTS
  hard = hard
  other = other
  Requests = {r1, r2}
  Names <- MCNames
  Widths <- MCWidths
  Seeds <- MCSeeds
  None = None
  MaxFailures = 1
  MaxRestarts = 1
INVARIANTS
  TypeOK
  KeyIsName
  LevelsAccounted
PROPERTIES
  OnlyUpdatesOverwrite
  RequestsEnd
CHECK_DEADLOCK FALSE
