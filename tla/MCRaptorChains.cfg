SPECIFICATION Spec
CONSTANTS
  Stops <- MCStops
  Buffer <- MCBuffer
  Inf <- MCInf
  Timetables <- WithWalks
  Queries <- WalkQueries
INVARIANT
  NoChainedTransfers
CHECK_DEADLOCK FALSE
