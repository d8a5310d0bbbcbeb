\* One subscription bought and lapsed, its two webhooks handled together.
CONSTANTS
  Sub = {s1}
  Handler = {h1, h2}
  MaxMembers = 1
  MaxActs = 1
  MaxFaults = 0
SPECIFICATION Spec
INVARIANTS
  OrderNeverMatters
CHECK_DEADLOCK FALSE
