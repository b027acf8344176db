\* Requests one after the other, browsers within their lease, troubles that end.
SPECIFICATION FairSpec
CONSTANTS
  Browser = {b1, b2}
  Person = {u1}
  Product = {p1}
  WorkerId <- OwnId
  None = None
  Overlap = FALSE
  SlowBrowser = FALSE
  MaxHandoffs = 2
  MaxTroubles = 1
INVARIANTS
  TypeOK
  OneBrowserPerHandoff
  LeaseProtectsClaimed
  SucceededWasSubmitted
PROPERTIES
  ImplementsLedger
  QueuedOnce
  EveryHandoffEnds
