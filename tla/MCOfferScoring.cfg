\* Two changes to the features of 36 customers and of one just registered.
SPECIFICATION ScoringSpec
CONSTANTS
  Catalog <- MC_Catalog
  FirstCustomers <- MC_FirstCustomers
  Values <- MC_Values
  NoAge = NoAge
  MaxChanges = 2
  MAX_OFFERS = 5
  MAX_SAME_TYPE = 2
  MIN_RELEVANCE = 15
INVARIANT RankingSound
PROPERTY FeaturesCountRight
CHECK_DEADLOCK FALSE
