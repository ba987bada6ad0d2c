SPECIFICATION Spec
CONSTANTS
  Feeds <- MCFeeds
  Dates <- MCDates
  RailOnly = FALSE
  Buffer = 2
  MaxWalk = 18
  Speed = 3
  HalfWord = 128
INVARIANTS
  TypeOK
  StationsAgree
  EveryRunOnce
  SearchReady
  RunsOnItsDays
CHECK_DEADLOCK FALSE
