SPECIFICATION FairSpec
CONSTANTS
  a1 = a1  a2 = a2  a3 = a3
  Arms = {a1, a2}
  Cap = 2
  MaxCost = 2
  Tries = 2
  Rounds = 2
  MaxKills = 1
INVARIANTS OvershootBounded BilledBounded
PROPERTIES CapStaysReached ArmsEnd
