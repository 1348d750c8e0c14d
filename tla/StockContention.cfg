\* Two of three orders compete for two SKUs; one has negative quantities.
SPECIFICATION Spec
CONSTANTS
  o1 = o1
  o2 = o2
  o3 = o3
  s1 = s1
  s2 = s2
  Saga = {o1, o2, o3}
  Slot = {k1}
  NoSaga = NoSaga
  SKU = {s1, s2}
  StockOfEach = 2
  Stock <- GivenStock
  Demand <- OddLines
  ReleaseCanFail = TRUE
  Modes <- FirstApproved
  MaxRetries = 0
  MaxCompensationAttempts = 1
  SlowSteps = {"COMPENSATING_INVENTORY"}
  MaxFaults = 0
  FaultKinds = {}
INVARIANTS
  TypeOK
  StockConserved
  StockCoversHolders
  ReceiptOnlyIfCharged
  FailedWasRefused

  
CONSTRAINT
  OneRival
CHECK_DEADLOCK FALSE
