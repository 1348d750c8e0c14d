\* One order, every kind of fault once, two deliveries at a time.
SPECIFICATION Spec
CONSTANTS
  Saga = {o1}
  Slot = {k1, k2}
  NoSaga = NoSaga
  SKU = {s1}
  StockOfEach = 1
  Stock <- GivenStock
  Demand <- OneLine
  ReleaseCanFail = TRUE
  ProviderModes = {"ok", "timeout", "lost", "reset"}
  Modes <- GivenModes
  MaxRetries = 1
  MaxCompensationAttempts = 1
  SlowSteps = {"RESERVING_INVENTORY", "PROCESSING_PAYMENT",
               "SENDING_NOTIFICATION", "COMPENSATING_INVENTORY"}
  MaxFaults = 1
  FaultKinds = {"park", "crash", "channel", "relay", "refused",
                "lookup", "tick"}
INVARIANTS
  CompensatedIsReleased
  ForwardKeepsStock
  AsksOnce
  ReceiptOnlyIfCharged
  NothingIgnoredTooEarly
  ReleasesBounded
PROPERTIES
  VerdictsAreFinal
  ImplementsCheckout
SYMMETRY SlotSymmetry
CHECK_DEADLOCK FALSE
