\* Two subscriptions, two handlers, a failure or a webhook sent again.
CONSTANTS
  Sub = {s1, s2}
  Handler = {h1, h2}
  MaxMembers = 1
  MaxActs = 1
  MaxFaults = 1
SPECIFICATION Spec
INVARIANTS
  PlanIsWhatIsPaid
PROPERTIES
  KeepsTheLatest
CHECK_DEADLOCK FALSE
