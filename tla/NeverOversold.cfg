\* Three orders: one unit, minus one, and one again.
SPECIFICATION Spec
CONSTANTS
  o1 = o1
  o2 = o2
  o3 = o3
  s1 = s1
  s2 = s2
  Saga = {o1, o2, o3}
  Slot = {k1}
  NoSaga = NoSaga
  SKU = {s1}
  StockOfEach = 1
  Stock <- GivenStock
  Demand <- OneBackOne
  ReleaseCanFail = FALSE
  Modes <- FirstApproved
  MaxRetries = 0
  MaxCompensationAttempts = 1
  SlowSteps = {}
  MaxFaults = 0
  FaultKinds = {}
INVARIANTS
  NeverOversold
CHECK_DEADLOCK FALSE
