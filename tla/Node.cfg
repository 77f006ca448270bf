SPECIFICATION NodeSpec
CONSTANTS
  Disks = {d1, d2}
  Home = d1
  p = p
  Ids = {p}
  Tasks <- MCTasks
  Rounds = 2
  None = None
  Slots = {d2}
  Batches <- MCBatches
  MaxCalls = 2
  MaxLosses = 1
  MaxEvals = 2
  PipeSize = 1
  MaxFaults = 2
CHECK_DEADLOCK FALSE
INVARIANTS OneRunPerDirectory WholeResults ScreenedNotRepeated BatchReturns OwnAnswer HostReturns IdentitiesSeparate ModesHonoured
