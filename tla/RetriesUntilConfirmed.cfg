\* pool.connect() fails once in each relay.
SPECIFICATION FairSpec
CONSTANTS
  Api = api
  Service = service
  Proc = {api, service}
  Row = {r1}
  Slot = {k1}
  Host <- OnService
  NoRow = NoRow
  MaxRetries = 1
  MaxPublishRetries = 1
  MaxFaults = 2
  FaultKinds = {"pool"}
PROPERTIES
  RetriesUntilConfirmed
CHECK_DEADLOCK FALSE
