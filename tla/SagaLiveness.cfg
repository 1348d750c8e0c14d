\* Crashes and failed calls, no lost message: everything ends.
SPECIFICATION FairSpec
CONSTANTS
  Saga = {o1}
  Slot = {k1, k2}
  NoSaga = NoSaga
  SKU = {s1}
  StockOfEach = 1
  Stock <- GivenStock
  Demand <- OneLine
  ReleaseCanFail = TRUE
  ProviderModes = {"ok", "flaky"}
  Modes <- GivenModes
  MaxRetries = 1
  MaxCompensationAttempts = 1
  SlowSteps = {"RESERVING_INVENTORY", "PROCESSING_PAYMENT"}
  MaxFaults = 1
  FaultKinds = {"crash", "relay", "refused", "lookup"}
INVARIANTS
  ReconcilingIsClaimed
  PaymentInHand
  NoneForgotten
PROPERTIES
  EveryCheckoutEnds
  EveryPaymentEnds
CHECK_DEADLOCK FALSE
