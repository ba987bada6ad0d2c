SPECIFICATION Spec
CONSTANTS
  Stops <- MCStops
  Buffer <- MCBuffer
  Inf <- MCInf
  Timetables <- MCTimetables
  Queries <- MCQueries
INVARIANTS
  TypeOK
  LabelsSupported
  BestIsEarliest
  NothingMissed
  JourneysFeasible
  RidesBuyTime
  ParetoWithoutWalks
PROPERTIES
  TraceGoesBack
  ImplementsKnownArrivals
  Terminates
CHECK_DEADLOCK FALSE
