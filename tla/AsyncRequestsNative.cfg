\* Native: spontaneous callbacks, blocking waits, a wgpu that may lose a callback.
SPECIFICATION WaitingSpec
CONSTANTS
  r1 = r1
  r2 = r2
  r3 = r3
  Requests = {r1, r2, r3}
  Kind <- MixedKinds
  Addrs = {a1, a2}
  Nil = Nil
  Target = "native"
  MaxPumps = 2
  Lossy = TRUE
INVARIANTS
  TypeOK
  CallbackHitsOwnSlot
  AnswerIsOwn
  ReferencesBalanced
  DeviceWaitExpiresOnlyIfLost
PROPERTIES
  DoneSlotIsFreed
  WaitReturns
CHECK_DEADLOCK FALSE
