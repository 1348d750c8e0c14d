\* Two rows, two processes, any one fault.
SPECIFICATION Spec
CONSTANTS
  Api = api
  Service = service
  Proc = {api, service}
  Row = {r1, r2}
  Slot = {k1, k2}
  Host <- OnService
  NoRow = NoRow
  MaxRetries = 1
  MaxPublishRetries = 0
  MaxFaults = 1
  FaultKinds = {"crash", "stop", "connection", "abort", "pool"}
INVARIANTS
  TypeOK
  ActsOnce
  LostIsVisible
  UnprovokedOnce
  NothingOutlivesThePool
PROPERTIES
  KeepsContract
SYMMETRY Interchangeable
CHECK_DEADLOCK FALSE
