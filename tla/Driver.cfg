SPECIFICATION DriverSpec
CONSTANTS
  a1 = a1  a2 = a2
  Arms = {a1, a2}
  Configs = {0, 1, 2, 3}
  Default = 0
  Scores = {1, 2}
  Searches <- Some
  Settings <- Scripts
  Validated <- Left
  MaxStarts = 2
  PlacerConfigs = {0, 1, 2, 3}
  DefaultKnobs = 0
  SearchSeed = 0
  HeldOutSeeds <- OneSeed
  Hpwl <- Placed
  GrtWl <- Estimated
  RoutedWl <- RoutedAs
  Drawn <- DrawnBy
  Rounds = 2
  Batch = 2
  RouteTop = 1
  TopK = 3
  MaxFailed = 2
  MaxFaults = 1
  Lineups <- SomeLineups
  Searchers = {"llm"}
  FlowConfigs = {"default flow", "other"}
  DefaultFlow = "default flow"
  DefaultSeeds <- TwoSeeds
  IncumbentSeeds = {0, 1}
  ValidateSeeds2 = {101}
  MaxPasses = 3
  MaxFaults2 = 2
INVARIANTS ExperimentsTypeOK RepairHeals BlindToRoutes RevalidateReplays SettledStays PickEarned
PROPERTIES SuccessesKept IncumbentStands
