\* Six requests under two keys, any two faults.
SPECIFICATION Spec
CONSTANTS
  a1 = a1
  a2 = a2
  a3 = a3
  b1 = b1
  c1 = c1
  c2 = c2
  k1 = k1
  k2 = k2
  order = order
  other = other
  refused = refused
  t = t
  Request = {a1, a2, a3, b1, c1, c2}
  Key = {k1, k2}
  Body = {order, other, refused}
  ValidBody = {order, other}
  KeyOf <- Keyed
  BodyOf <- Sent
  Trace <- Traced
  MaxFaults = 2
  FaultKinds = {"query", "answer", "crash"}
INVARIANTS
  TypeOK
  OneBodyPerKey
  AcceptedIsStarted
  OneSagaUnlessReleased
  ProcessingIsServed
SYMMETRY Repeats
CHECK_DEADLOCK FALSE
