\* Two repetitions take a released key over at the same time.
SPECIFICATION Spec
CONSTANTS
  a1 = a1
  a2 = a2
  a3 = a3
  b1 = b1
  c1 = c1
  c2 = c2
  k1 = k1
  k2 = k2
  order = order
  other = other
  refused = refused
  t = t
  Request = {a1, a2, a3}
  Key = {k1, k2}
  Body = {order, other, refused}
  ValidBody = {order, other}
  KeyOf <- Keyed
  BodyOf <- Sent
  Trace <- OwnTrace
  MaxFaults = 1
  FaultKinds = {"query"}
INVARIANTS
  CompletedReplays
CHECK_DEADLOCK FALSE
