SPECIFICATION Spec
CONSTANTS
  Person = {p}
  Visitor = {g}
  Link = {m, n}
  Call = {c, d}
  p = p
  g = g
  m = m
  n = n
  c = c
  d = d
  Nobody = Nobody
  NoLink = NoLink
  MaxUses = 1
  MaxRedeemed = 2
  MaxActs = 2
SYMMETRY Symmetry
INVARIANTS OverrunIsBounded BarredStayOut
CHECK_DEADLOCK FALSE
