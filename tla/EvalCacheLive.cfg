SPECIFICATION FairSpec
CONSTANTS
  a1 = a1  a2 = a2  k1 = k1  k2 = k2
  Arms = {a1, a2}
  Keys = {k1, k2}
  Workers = 1
  Batches <- Singles
  MaxCalls = 2
  MaxTimeouts = 1
  MaxCrashes = 0
PROPERTY CallsReturn
