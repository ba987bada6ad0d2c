SPECIFICATION Spec
CONSTANTS
  Stops <- MCStops
  Buffer <- MCBuffer
  Neg <- MCNeg
  Timetables <- WithWalks
  Queries <- WalkDeadlines
INVARIANT
  EveryJourneyRides
CHECK_DEADLOCK FALSE
