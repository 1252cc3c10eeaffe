\* Session.submit and the command buffer it is given.
SPECIFICATION Spec
CONSTANTS
  Objs = {o1, o2, o3}
  MaxUserObjs = 3
  MaxRefs = 2
  MaxShared = 1
  MaxFlight = 1
  CallerPins = TRUE
SYMMETRY Symmetry
INVARIANTS
  SubmitIsOwned
CHECK_DEADLOCK FALSE
