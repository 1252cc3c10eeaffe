\* Two canvases, more events between two polls than the queue holds.
SPECIFICATION Spec
CONSTANTS
  c1 = c1
  c2 = c2
  k1 = k1
  Canvases = {c1, c2}
  Keys = {k1}
  Positions = {3}
  Nobody = Nobody
  Capacity = 2
  MaxPending = 3
SYMMETRY CanvasSymmetry
INVARIANTS
  TypeOK
  KeysShownTrue
  FrameReportTrue
