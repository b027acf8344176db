\* Expected to fail: products of one id in two stores.
SPECIFICATION Spec
CONSTANTS
  Store <- MCStore
  Product <- MCTwins
  StoreOf <- MCStoreOf
  IdOf <- MCIdOf
  LastDay = 1
  MaxEvents = 3
INVARIANTS
  PendingCanBeCompleted
