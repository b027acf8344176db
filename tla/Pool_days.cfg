\* One store, two products, two days.
SPECIFICATION Spec
CONSTANTS
  Store <- MCStore
  Product <- MCProduct
  StoreOf <- MCStoreOf
  IdOf <- MCIdOf
  LastDay = 2
  MaxEvents = 4
INVARIANTS
  TypeOK
  PoolIsLastPage
  
  FallbackQueued
PROPERTIES
  ManualStays
  ManualWorkStaysCounted
