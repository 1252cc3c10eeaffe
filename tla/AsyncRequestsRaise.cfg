\* What wait_for says when it raises, for a request without a device.
SPECIFICATION WaitingSpec
CONSTANTS
  r1 = r1
  r2 = r2
  r3 = r3
  Requests = {r1, r2, r3}
  Kind <- MixedKinds
  Addrs = {a1, a2, a3}
  Nil = Nil
  Target = "native"
  MaxPumps = 2
  Lossy = FALSE
PROPERTY RaiseMeansNotFired
CHECK_DEADLOCK FALSE
