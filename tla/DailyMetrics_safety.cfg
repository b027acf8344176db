\* One product over three days, the second with two capture times.
SPECIFICATION Spec
CONSTANTS
  Store = {s1}
  Product = {p1}
  Discovered = {p1}
  StoreOf <- MCStoreOf
  LastInstant = 4
  DayOf <- MCDayOf
  MaxSold = 1
  MaxSnapshots = 3
  Histories <- MCHistories
INVARIANTS
  TypeOK
  RowsFollowSnapshots
  GrowthIsShared
PROPERTIES
  ImportedStays
  ProductPagesReachTotals
