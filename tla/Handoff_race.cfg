\* Expected to fail: two claims that overlap.
SPECIFICATION Spec
CONSTANTS
  Browser = {b1, b2}
  Person = {u1}
  Product = {p1}
  WorkerId <- OwnId
  None = None
  Overlap = TRUE
  SlowBrowser = FALSE
  MaxHandoffs = 1
  MaxTroubles = 0
INVARIANTS
  OneBrowserPerHandoff
