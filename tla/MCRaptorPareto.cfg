SPECIFICATION Spec
CONSTANTS
  Stops <- MCStops
  Buffer <- MCBuffer
  Inf <- MCInf
  Timetables <- WithWalks
  Queries <- WalkQueries
INVARIANT
  ParetoOptimal
CHECK_DEADLOCK FALSE
