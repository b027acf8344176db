\* One day that does not end.
SPECIFICATION FairSpec
CONSTANTS
  Store = {s1}
  Product = {p1}
  StoreOf <- MCStoreOf
  Position <- MCPosition
  LastDay = 1
  MaxChallenges = 1
PROPERTIES
  TodayCompletes
