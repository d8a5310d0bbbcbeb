\* Two requests in flight on two sessions, and one password to replace.
CONSTANTS
  Session = {s1, s2}
  Token = {t1, t2, t3}
  Request = {r1, r2}
  s1 = s1
  s2 = s2
  t1 = t1
  t2 = t2
  t3 = t3
  r1 = r1
  r2 = r2
  NoSession = NoSession
  NoToken = NoToken
  GRACE = 0
  TTL = 2
  CAP = 3
  MaxTime = 3
  MaxPassword = 2
SPECIFICATION Spec
SYMMETRY Symmetry
CHECK_DEADLOCK FALSE
INVARIANTS TypeOK OneSuccessor OneLiveTokenUntilRescue ExpiryBounded
  OnlyRacingSignInsStand
PROPERTIES SpentIsFinal RevocationIsFinal
