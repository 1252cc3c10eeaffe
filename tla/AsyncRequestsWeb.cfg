\* Browser: callbacks run only while a poll drains the queue.
SPECIFICATION PollingSpec
CONSTANTS
  r1 = r1
  r2 = r2
  r3 = r3
  Requests = {r1, r2, r3}
  Kind <- BootKinds
  Addrs = {a1, a2, a3}
  Nil = Nil
  Target = "web"
  MaxPumps = 2
  Lossy = FALSE
PROPERTY HeldRequestCompletes
CHECK_DEADLOCK FALSE
