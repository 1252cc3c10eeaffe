\* Three objects of the program and a fourth for what the facade makes itself.
SPECIFICATION Spec
CONSTANTS
  Objs = {o1, o2, o3, o4}
  MaxUserObjs = 3
  MaxRefs = 2
  MaxShared = 1
  MaxFlight = 1
  CallerPins = TRUE
SYMMETRY Symmetry
INVARIANTS
  TypeOK
  RefsMatchOwners
  HandlesOwned
  KeptUntilDone
  FrameViewKept
CHECK_DEADLOCK FALSE
