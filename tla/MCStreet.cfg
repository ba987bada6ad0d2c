SPECIFICATION Spec
CONSTANTS
  Cell = 4
  Safety = 98
  SnapRadius = 2
  SnapMax = 2
  Reluctance = 5
  MaxSearchCost = 30
  Documents <- MCDocuments
  QueriesOn <- MCQueriesOn
  Profiles <- MCProfiles
INVARIANTS
  TypeOK
  GraphAsWritten
  SnapIsNearest
  SettledIsCheapest
  WalkIsBest
  WalkIsReal
CHECK_DEADLOCK FALSE
