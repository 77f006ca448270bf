SPECIFICATION FairSpec
CONSTANTS
  p1 = p1  p2 = p2  p3 = p3
  Scripts = {p1, p2, p3}
  Slots = 1
  MaxKills = 1
  MaxReuses = 1
INVARIANTS CapKept
PROPERTIES FirstComeFirstServed Served
