\* One subscription, up to three members, two counts at once.
CONSTANTS
  Sub = {s1}
  Handler = {h1, h2}
  MaxMembers = 3
  MaxActs = 2
  MaxFaults = 0
SPECIFICATION Spec
PROPERTIES
  SeatsCatchUp
CHECK_DEADLOCK FALSE
