CONSTANTS
  Session = {s1}
  Token = {t1, t2, t3}
  Request = {r1, r2}
  NoSession = NoSession
  NoToken = NoToken
  GRACE = 0
  TTL = 3
  CAP = 4
  MaxTime = 2
  MaxPassword = 1
SPECIFICATION FairSpec
CHECK_DEADLOCK FALSE
PROPERTIES ReuseEndsSession LockedRenewalEnds
