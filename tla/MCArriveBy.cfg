SPECIFICATION Spec
CONSTANTS
  Stops <- MCStops
  Buffer <- MCBuffer
  Neg <- MCNeg
  Timetables <- MCTimetables
  Queries <- MCDeadlines
INVARIANTS
  NothingMissed
  JourneysMeetDeadline
  LatestWithoutWalks
PROPERTIES
  TraceGoesOn
CHECK_DEADLOCK FALSE
