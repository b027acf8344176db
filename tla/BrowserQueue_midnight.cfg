\* Expected to fail: a run paused at midnight is never continued.
SPECIFICATION FairSpec
CONSTANTS
  Store = {s1}
  Product = {}
  StoreOf <- MCStoreOf
  Position <- MCPosition
  LastDay = 2
  MaxChallenges = 1
PROPERTIES
  VerifiedRunContinues
