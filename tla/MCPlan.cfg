SPECIFICATION Spec
CONSTANTS
  Lines <- MCLines
  Names <- MCNames
  MaxItineraries = 3
  Requests <- MCRequests
INVARIANTS
  TypeOK
  NoTwins
  CutFairly
CHECK_DEADLOCK FALSE
