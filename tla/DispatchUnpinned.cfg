\* GPU.dispatch called as README.md does, without mentioning the buffers again.
SPECIFICATION Spec
CONSTANTS
  Objs = {o1, o2, o3, o4}
  MaxUserObjs = 3
  MaxRefs = 2
  MaxShared = 1
  MaxFlight = 1
  CallerPins = FALSE
SYMMETRY Symmetry
INVARIANTS
  HandlesOwned
CHECK_DEADLOCK FALSE
