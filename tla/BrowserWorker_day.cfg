\* One store and one product; Chrome started with start-dianxiaomi-worker.bat.
SPECIFICATION FairWorkerSpec
CONSTANTS
  Store = {s1}
  Product = {p1}
  StoreOf <- MCStoreOf
  Position <- MCPosition
  LastDay = 1
  MaxChallenges = 1
  DedicatedTab = TRUE
  MaxFaults = 1
INVARIANTS
  WorkerTypeOK
  HeldIsLatestTry
  
PROPERTIES
  VerificationPageKept
  
  
