\* Three concurrent captures, and anything may fail.
SPECIFICATION FairSpec
CONSTANTS
  c1 = c1
  c2 = c2
  c3 = c3
  Callers = {c1, c2, c3}
  Loop = Loop
  MayFail = TRUE
INVARIANTS
  TypeOK
  PictureIsAwaited
  AwaitersRegistered
PROPERTIES
  NeverCapturesMapped
  FreshPicture
  CaptureReturns
