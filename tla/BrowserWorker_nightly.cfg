\* The same, with Chrome started by the nightly start-browser-collector.bat.
SPECIFICATION FairWorkerSpec
CONSTANTS
  Store = {s1}
  Product = {p1}
  StoreOf <- MCStoreOf
  Position <- MCPosition
  LastDay = 1
  MaxChallenges = 1
  DedicatedTab = FALSE
  MaxFaults = 0
PROPERTIES
  RunEnds
