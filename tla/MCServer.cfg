SPECIFICATION Spec
CONSTANTS
  r1 = r1
  r2 = r2
  Requests = {r1, r2}
INVARIANTS
  TypeOK
  InOnePlace
  OwnStatus
PROPERTIES
  EveryoneAnswered
CHECK_DEADLOCK FALSE
