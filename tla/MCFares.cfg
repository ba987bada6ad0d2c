SPECIFICATION Spec
CONSTANTS
  FareIds <- MCFareIds
  Feeds <- MCFeeds
  Routes <- MCRoutes
  Zones <- MCZones
  Journeys <- MCJourneys
  Tariffs <- MCTariffs
INVARIANTS
  TypeOK
  PaidOnce
  RefusedForARide
CHECK_DEADLOCK FALSE
