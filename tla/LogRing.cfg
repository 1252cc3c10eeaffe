\* Two logging threads and a draining one around a ring of two messages.
SPECIFICATION FairSpec
CONSTANTS
  Loggers = {l1, l2}
  Drainers = {d1}
  Messages = {m1, m2, m3, m4}
  Nothing = Nothing
  Slots = 3
INVARIANTS
  TypeOK
  Accounted
  NothingTorn
PROPERTIES
  ImplementsLogQueue
  DrainReturns
