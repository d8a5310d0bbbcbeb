SPECIFICATION FairSpec
CONSTANTS
  Conn = {k}
  Session = {s}
  Sweep = {v, w}
  Push = {p}
  k = k
  s = s
  v = v
  w = w
  p = p
  Guest = Guest
  MaxChanges = 2
  MaxBlips = 1
INVARIANTS TypeOK ToldTheTruth
PROPERTIES SettledAccessIsEnforced EndedSessionIsDisconnected
CHECK_DEADLOCK FALSE
