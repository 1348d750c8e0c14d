\* The second line of the order finds no stock.
SPECIFICATION Spec
CONSTANTS
  o1 = o1
  o2 = o2
  o3 = o3
  s1 = s1
  s2 = s2
  Saga = {o1}
  Slot = {k1}
  NoSaga = NoSaga
  SKU = {s1, s2}
  StockOfEach = 1
  Stock <- GivenStock
  Demand <- TwoLines
  ReleaseCanFail = FALSE
  Modes <- FirstApproved
  MaxRetries = 1
  MaxCompensationAttempts = 1
  SlowSteps = {}
  MaxFaults = 0
  FaultKinds = {}
INVARIANTS
  RefusedTookNothing
CHECK_DEADLOCK FALSE
