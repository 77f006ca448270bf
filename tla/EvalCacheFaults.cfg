SPECIFICATION Spec
CONSTANTS
  a1 = a1  a2 = a2  k1 = k1  k2 = k2
  Arms = {a1, a2}
  Keys = {k1, k2}
  Workers = 1
  Batches <- Singles
  MaxCalls = 3
  MaxTimeouts = 1
  MaxCrashes = 1
SYMMETRY KeySymmetry
INVARIANTS IInv ReplaysAgree
PROPERTIES NoRerunOfOwnSuccess ImplementsSingleFlight
