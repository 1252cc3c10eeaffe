\* Two captures before one frame: one is never answered.
SPECIFICATION FairSpec
CONSTANTS
  c1 = c1
  c2 = c2
  c3 = c3
  Callers = {c1, c2}
  Loop = Loop
  MayFail = FALSE
PROPERTY EveryCaptureReturns
