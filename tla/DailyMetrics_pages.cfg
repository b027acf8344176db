\* Two products of one store over three days.
SPECIFICATION Spec
CONSTANTS
  Store = {s1}
  Product = {p1, p2}
  Discovered = {p2}
  StoreOf <- MCStoreOf
  LastInstant = 3
  DayOf <- MCDayOfEach
  MaxSold = 1
  MaxSnapshots = 3
  Histories <- MCHistories
PROPERTIES
  EstimatesReachTotals
