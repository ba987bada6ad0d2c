SPECIFICATION Spec
CONSTANTS
  Lines <- MCLines
  Names <- MCNames
  MaxItineraries = 2
  Requests <- MCRequests
INVARIANT
  RailAlternativeKept
CHECK_DEADLOCK FALSE
