\* One row, two processes, any three faults but a relay that ends for good.
SPECIFICATION FairSpec
CONSTANTS
  Api = api
  Service = service
  Proc = {api, service}
  Row = {r1}
  Slot = {k1}
  Host <- OnService
  NoRow = NoRow
  MaxRetries = 1
  MaxPublishRetries = 1
  MaxFaults = 3
  FaultKinds = {"crash", "stop", "connection", "abort"}
PROPERTIES
  EverySettles
  EveryStopEnds
CHECK_DEADLOCK FALSE
