\* Two days: runs planned ahead, left behind at midnight and answered late.
SPECIFICATION Spec
CONSTANTS
  Store = {s1}
  Product = {p1}
  StoreOf <- MCStoreOf
  Position <- MCPosition
  LastDay = 2
  MaxChallenges = 0
INVARIANTS
  SuccessHasSnapshot
