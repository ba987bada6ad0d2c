SPECIFICATION Spec
CONSTANTS
  IntOf <- MCIntOf
  Starts <- MCStarts
INVARIANTS
  LoadedAsWritten
  TripsKeepTime
  FeedsApart
  OwnTariff
  StartsWhole
CHECK_DEADLOCK FALSE
