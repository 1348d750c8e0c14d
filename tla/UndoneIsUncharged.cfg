\* The charge is approved after the lookup found nothing.
SPECIFICATION Spec
CONSTANTS
  Saga = {o1}
  Slot = {k1}
  NoSaga = NoSaga
  SKU = {s1}
  StockOfEach = 1
  Stock <- GivenStock
  Demand <- OneLine
  ReleaseCanFail = FALSE
  ProviderModes = {"ok"}
  Modes <- GivenModes
  MaxRetries = 1
  MaxCompensationAttempts = 1
  SlowSteps = {}
  MaxFaults = 0
  FaultKinds = {}
INVARIANTS
  UndoneIsUncharged
CHECK_DEADLOCK FALSE
