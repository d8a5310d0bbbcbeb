SPECIFICATION Spec
CONSTANTS
  Loop = {a, b}
  a = a
  b = b
  RETRIES = 1
  MAX_UNAUTHORIZED = 2
  MaxChanges = 2
  MaxBlips = 2
CHECK_DEADLOCK FALSE
INVARIANT HeardIsCarried
PROPERTIES TokenNeverGoesBack TokenCatchesUp LostBoardCloses
