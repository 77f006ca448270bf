SPECIFICATION FairSpec
CONSTANTS
  c1 = c1  c2 = c2  c3 = c3  c4 = c4
  Configs = {c1, c2, c3, c4}
  NoConfig = NoConfig
  Prior <- Default
  Scores = {1, 2}
  Budget = 5
  Batch = 2
  Seeds <- TwoSeeds
  PromoteSeeds <- TwoPromotions
  PromoteTop = 2
  MaxStarts = 2
  Unusable = Unusable
  MaxItems = 3
  MaxAsked = 3
INVARIANTS MeasuredOnce PromotionsEarned BudgetHolds ProposersConform
PROPERTIES Ends
