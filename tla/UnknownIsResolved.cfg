\* A tick is cut short between the claim and the resolution.
SPECIFICATION FairSpec
CONSTANTS
  Saga = {o1}
  Slot = {k1}
  NoSaga = NoSaga
  SKU = {s1}
  StockOfEach = 1
  Stock <- GivenStock
  Demand <- OneLine
  ReleaseCanFail = FALSE
  ProviderModes = {"timeout"}
  Modes <- GivenModes
  MaxRetries = 1
  MaxCompensationAttempts = 1
  SlowSteps = {}
  MaxFaults = 1
  FaultKinds = {"tick"}
PROPERTIES
  UnknownIsResolved
CHECK_DEADLOCK FALSE
