\* Two stores and one product on one day: two workers on different stores.
SPECIFICATION Spec
CONSTANTS
  Store = {s1, s2}
  Product = {p1}
  StoreOf <- MCStoreOf
  Position <- MCPosition
  LastDay = 1
  MaxChallenges = 1
INVARIANTS
  TypeOK
  RunOpenIffWorkLeft
  VerdictIsHonest
  CountsMatchItems
  PauseIsVisible
  StoresBeforeProducts
  LeaseGuardsRunning
  AttemptsBounded
PROPERTIES
  ImplementsLedger
  TerminalItemsStay
  CompleteRunStays
  QuietWhilePaused
  LiveLeaseIsExclusive
  EffortRunsDown
