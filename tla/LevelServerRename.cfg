SPECIFICATION Spec
CONSTANTS
  hard = hard
  other = other
  Requests = {r1, r2}
  Names <- MCNames
  Widths <- MCWidths
  Seeds <- MCSeeds
  None = None
  MaxFailures = 0
  MaxRestarts = 0
INVARIANT
  RefusedUpdateKeepsLevel
CHECK_DEADLOCK FALSE
