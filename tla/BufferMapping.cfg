\* Two requests and two mirrors: one of each may be stale or overlap the other.
SPECIFICATION Spec
CONSTANTS
  Cells = {1, 2}
  Ranges <- MCRanges
  Values = {0, 1}
  Zero = 0
  Requests = {r1, r2}
  Pointers = {p1, p2}
  Nobody = Nobody
INVARIANTS
  TypeOK
  OneOutcome
  MirrorsMatch
  SuccessIsOwn
  NeverThrows
PROPERTIES
  ImplementsSharedBuffer
  HeldMapAnswered
