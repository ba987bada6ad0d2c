# otp-rs in TLA+

A formal model of [otp-rs](../src/README.md), a Rust trip planner that takes a
traveller from door to door: on foot to a stop, by railway and bus, and on foot
again. The modules here are translated from the source of the crates. TLC checks
them on small instances, and TLAPS proves the theorems of `RaptorProofs`, `ArriveByProofs`,
`StreetProofs`, `BuildProofs`, `PlanProofs`, `FareProofs` and `ServerProofs`
for every timetable, street map, feed, journey and set of requests.

In this file a name in `code` is one of the modules or of their definitions, or
of the source; `crate:line` is a line of `src/crates/<crate>/src/lib.rs` unless
another file is named.

## 1. The system

| Part | State it keeps | Operations | Where |
|---|---|---|---|
| GTFS loading | tables of rows of one feed | `parse_records`, `parse_*`, `interpolate_missing_times`, `Feed::namespace` | `gtfs`, `gtfs/csv.rs` |
| Timetable construction | stations, patterns, trips, walks, calendars | `build_with_modes`, `service_active` | `raptor:162-540` |
| Forward search | labels of each round, the pruning bound, marks | `search`, `reconstruct` | `raptor:657-962` |
| Arrive-by search | the same, going back in time | `search_arrive_by`, `reconstruct_arrive_by` | `raptor:965-1298` |
| Fares | the tickets taken so far | `compute_fare`, `total_fare`, `through_fare`, `fare_for_leg` | `fares:90-213`, `engine:610-645` |
| Request planning | the itineraries found so far | `Engine::plan` | `engine:285-395` |
| Request serving | tiny_http's queue, the request at hand | `run_server`, `handle_request` | `server/main.rs`, `server/handler.rs` |
| Street graph construction | nodes, edges, spatial grid | `parse_osm_xml`, `build_from_osm_xml`, `nearest`, `within_radius` | `street:205-520`, `street/osm_xml.rs` |
| Street search | a heap, costs, arrivals at candidates | `route`, `route_one_to_many`, `route_many_to_one` | `street:520-860` |
| Server start-up | configuration, the feeds and fares so far | `Config::parse`, `parse_gtfs_specs`, `load_engine` | `server/main.rs` |

How they interact. Everything is a call. At start-up the feeds are loaded and the
timetable, the fares and the street graph are built once; after that they are only
read. The server's main thread takes a request from tiny_http's queue, reads its
body to the end, calls a handler under `catch_unwind`, and answers before it looks
at the next request. A handler calls `Engine::plan`, which asks the street graph
for walks to nearby stops, calls one of the two searches, turns each journey into a
priced itinerary unless it is the twin of an earlier one, does so again for railways
alone when the fastest takes a bus, and ranks and cuts what it has. Only tiny_http and its clients run concurrently with the main thread.

What is hard here:

- *Labels are overwritten while others refer to them.* A search keeps one label per
  stop and round, copies a round's labels into the next, and replaces them; a journey
  is traced back afterwards by following parents through what is left, and nothing is
  checked on the way. Is the parent still there, is it early enough, does it end?
- *Pruning and marking skip most of the work.* A pattern is scanned once per round
  from its first marked position with one trip on board, against a bound that lags
  behind the labels. Is nothing lost?
- *The transfer buffer is due after some labels only*, so labels of one stop are not
  totally ordered by their time.
- *The arrive-by search mirrors all this by hand*, with its own off-by-ones.
- *Construction relies on orders it meets by chance*: stops in the order of a file,
  trips in the order of a `HashMap`.
- *Greedy choices* in fares, *two-search de-duplication* in planning.
- *One thread serves everyone*, so a panic or a broken body must be one request's
  own trouble.
- *The street search has several ends at either side.* A node that one end may snap to
  may be a candidate of the other; it is settled by its own seed before any walk arrives
  there, and the walk that is answered is put together from two records of different
  times, the tree and the last hop.
- *Readers that keep a little state over a long text*: the CSV scanner's quotes, the OSM
  reader's one context without a stack.
- *Start-up joins what several files and arguments say*, and its first mistake must end it:
  identifiers of different feeds, prefixes given and numbered, tables that refer to others.

`PROJECT.json` lists these hazards at their lines with the properties for each.

## 2. The modules

The specifications, and what composes what:

    Timetable            the data both searches read, the helpers on it
      Journeys           labels, legs, and when a journey can be travelled
        JourneyFacts     lemmas about timetables, queries and legs for both searches' proofs
        RaptorSearch     the forward search
        RaptorArriveBy   the arrive-by search
      Travel             the reference: what travelling is, with no search in it
        KnownArrivals    the abstract specification of a search
    RaptorProperties     RaptorSearch + Travel: its properties
      RaptorProofs       its theorems, and that it implements KnownArrivals
    ArriveByProperties   RaptorArriveBy + Travel: its properties
      ArriveByProofs     its theorems
    StableSort           sorting by a key, for the two that sort
    TimetableBuild       build_with_modes;  BuildProperties: its properties
      BuildProofs        theorems about it
    Fares                a journey's price; FareProperties: its properties
      FareProofs         theorems about Fares
    Plan                 Engine::plan;      PlanProperties: its properties
      PlanProofs         theorems about Plan
    Server               the serving loop, and its properties
      ServerProofs       its theorems
    OsmReader            parse_osm_xml
      StreetGraph        build_from_osm_xml and the grid
        StreetSearch     route_multi_snap; StreetProperties: the properties of all three
          StreetProofs   theorems about all three
    GtfsTables           Feed::load_from_dir, pure: from texts to rows
      StartUp            main up to listening; StartUpProperties: properties of both

`MC...` modules give the constants their values; `Instances` holds the timetables
and queries that both searches are checked on. In a module, an operator marked
`a mutant` is a variant of the definition after it, with a plausible mistake in it;
no specification uses one. They show that a property tells right from wrong.

### Timetable, Journeys

`Timetable` is `struct Timetable` as the searches see it: patterns (a list of stops
and trips sorted by first departure) and walks. Its assumptions on constants
(`TimetablesAssumption`, `QueriesAssumption`) are what `build_with_modes` and
`Engine::plan` guarantee; for the first, `SearchReady` of the run `build` checks, and
`TimetableIsSearchReady` proves, that what construction produces of a feed that keeps time
(`FeedKeepsTime`) satisfies the very operator that the searches assume.
`Journeys` has `Parent`, `Label` and `JourneyLeg`. Indices count from 1, and 0 is
`None`. A ride is named by its pattern, trip and positions, for its `trip_id`, route,
times and intermediate stops are copies of what the timetable holds there.

### RaptorSearch (`Timetable::search`, `reconstruct`)

One call of `search`, one action per iteration of one of its loops. `pc` says which
loop.

| Action | Code |
|---|---|
| `Init` | round 0: the access links (`raptor:671-705`) |
| `StartRound`, `LastRoundDone` | head of the round loop |
| `SkipPattern`, `StartPattern` | next touched pattern; a rail-only query passes over a bus |
| `ScanPosition` | one position: alight if it improves, then change to an earlier trip |
| `StartWalks` | `best` takes the rides' improvements |
| `RelaxWalks` | all the walks of one improved stop, from a label read live |
| `EndRound` | `best` takes the walks' improvements, the round is kept, and the rounds end when nothing improved |
| `StartTrace`, `SkipRound` | a round with a strictly better arrival is traced, others are not |
| `TraceRide`, `TraceWalk`, `EndTrace` | the loop of `reconstruct` |
| `Answer` | all rounds are read |

`touched` is a set taken in ascending order because the code iterates sorted pattern
indices; `relaxing` likewise. Data left out: names and identifiers copied into legs.

### RaptorArriveBy (`search_arrive_by`, `reconstruct_arrive_by`)

The mirror image, kept apart as in the code: labels are the latest moment to be at a
stop, patterns are scanned from the last marked position backwards, legs are found in
travelling order. `Neg` stands for `i64::MIN`, which `NegAssumption` has below every time that a query
can lead to.

### Travel, KnownArrivals

`Travel` defines one step of travelling (any trip one may board, any walk) and
`Reach`, the fixpoint a brute force would compute within n rides. `KnownArrivals` is
the abstract specification of a search: it starts from the access walks, learns only
arrivals that are one step from what it knows *at that moment*, and may forget.

### TimetableBuild (`build_with_modes`, `service_active`)

`RegisterStop` is one stops row: a platform and its station get one index, whichever
row comes first. `PackTrip` takes any trip still pending (the `HashMap`), and finds or
makes its pattern. `OpenWindow`, `SkipWindow`, `AddRun`, `CloseWindow`, `WindowsDone`
are the loops over `frequencies.txt`, with the wrapping `i32` arithmetic of a release
build, in the times of the runs too. The stable sorts (`InOrder`) place an index by counting
those that come before it. `Panic` is the `unreachable!`. `SortTrips` ends construction. Transfer edges
and calendars follow from the result and are operators (`Walks`, `ServiceActive`),
as is the civil-calendar arithmetic (`DaysFromCivil`, `WeekdayIndex`). Places are numbers on a line, since only the
distance between stations matters.

### Fares (`Engine::compute_fare`, `total_fare`, `through_fare`, `fare_for_leg`)

`i` is the leg reached, `j` the end of the span tried, `end` the end of the group of
consecutive rides of one feed. `TakeSpan` sells one ticket, `ShrinkSpan` tries a
narrower span, `Refuse` gives up, `FeedWithoutFares` is the early return of a feed that
has none. Where two fares are equally cheap the code returns the first that a `HashMap`
yields: `FareForLeg` is the set of them and the actions choose.

### Plan (`Engine::plan`)

The answers of the searches are inputs: any journeys that keep to the time asked for, ones
that another dominates too, for a search may answer such where trips overtake each other. Converting a journey, de-duplicating by signature, the condition for the second
search, sorting, the limit and the place kept for a railway itinerary are actions or
parts of one. Leg names, geometry and the fare's place in the answer are left out.

### Server (`run_server`, `handle_request`)

The loop (`Take`, `ReadBody`, `ReadFails`, `Handle`, `PanicCaught`, `Respond`) and its
surroundings (`Arrive`, `BodyEnds`), which are external. What is in a body is given by
what the handlers make of it: six kinds, of two endpoints, and the endpoints without
a body.

### OsmReader, StreetGraph, StreetSearch

From the tags of an extract to the walks between two places, as one behaviour.
`phase` says how far it is.

| Action | Code |
|---|---|
| `ReadTag` | one turn of the loop of `parse_osm_xml` (`osm_xml.rs:190-300`): `Skip`, `NodeOpens`, `InWay`, ... are the arms of its `match`, and `ctx` is its `Context` |
| `PassOver`, `AddWay` | one way of the document: not walkable, or its nodes registered and its stretches made edges, unless a node is missing |
| `Pack` | the edges sorted by the node they leave, and `adjacency_start` |
| `Ask`, `Nowhere`, `Seed` | `snap_candidates` at both ends, no candidate, the seeded heap |
| `Pop` | `open.pop()`: `Stale`, `Settle`, or `Enough` when the last target is resolved |
| `PassBy`, `Relax`, `Relaxed` | one edge that may not be used or costs too much; one that may; no more |
| `Exhausted`, `Answer` | the heap is empty; `assemble_path` for each target |

A tag is what `parse_start_tag` makes of it (`Mark`). Places are points of a plane
with the distance along its axes: what the grid and the estimate rely on is that the
distance is a metric and no smaller than a coordinate's difference, and this one has that
as haversine has. Costs are integers, at a speed of 1. `Nearest` and `WithinRadius` are
the grid's ring searches as operators. Which of several heap entries of one priority is
popped is left open, for `BinaryHeap` does not say.

### GtfsTables, StartUp

A text is a sequence of tokens (`"quote"`, `"comma"`, `"lf"`, a run of other characters).
`CsvChar` is one turn of `parse_records`; each `Parse...` is the function of that name, with
`Rows` for `collect::<Result<..>>`; `Filled` and `FilledRows` are `interpolate_missing_times`;
`Namespace` is `Feed::namespace`.

| Action | Code |
|---|---|
| `Start` | `--help` and `--version` anywhere end it |
| `OptionGtfs`, `OptionOsm`, `OptionPort`, `OptionBus`, `BadArgument` | one turn of `Config::parse` |
| `ArgumentsDone` | what is missing, and `parse_gtfs_specs` |
| `LoadStreet` | the OSM file can be read or not |
| `LoadDir`, `ParseFeed` | one feed: its files read, its tables parsed, put into its namespace, and its fares kept under its prefix |
| `BuildTimetable` | `Timetable::build` returns, or hits its `unreachable!` |
| `Listen` | the port is bound, or it is not |

A disk is its directories (texts by file, and the files that cannot be read) and its OSM
files. What `Timetable::build` and `build_from_osm_xml` make of their input is in the modules
above.

## 3. What is checked

Every run is `tlc -config <cfg> <module>`. All configurations turn the deadlock check
off: each call ends, and the server may have no more requests.

| Run | Configuration | What it shows |
|---|---|---|
| `raptor` | `MCRaptor.cfg` | 944 timetables × 8 queries. Labels are explained (`LabelsSupported`), the bound is exact (`BestIsEarliest`), no ride or walk is missed if trips keep their order (`NothingMissed`), every journey can be travelled (`JourneysFeasible`), none dominates another if trips keep their order (`RidesBuyTime`), none is missing where there are no walks between stops and trips keep their order (`ParetoWithoutWalks`), tracing descends (`TraceGoesBack`), the search implements `KnownArrivals`, and it ends |
| `arrive_by` | `MCArriveBy.cfg` | The same timetables, deadlines for departures. Nothing is missed, deadlines are met by journeys that can be travelled, each with more rides than the one before if trips keep their order and leaving later if walks are closed (`JourneysMeetDeadline`), and without walks at exactly the latest moment from which travelling *forwards* arrives in time (`LatestWithoutWalks`); tracing goes on (`TraceGoesOn`) |
| `build` | `MCBuild.cfg` | 33 feeds, trips in every order: 30 whole ones, two where a platform has a part of its own and one with a dangling stop. Platforms and stations agree (`StationsAgree`), every run of the feed is packed exactly once and nothing else (`EveryRunOnce`), what is built of a feed that keeps time is `WellFormedTimetable` (`SearchReady`), services run on the days a wall calendar has (`RunsOnItsDays`) |
| `fares` | `MCFares.cfg` | Every ride is paid once by a ticket that covers it and is as wide as can be (`PaidOnce`); a refusal has a ride without a fare |
| `plan` | `MCPlan.cfg` | No twins; fastest first, the limit drops only the slowest, railways were searched where a bus leads and an alternative that the second search found survives (`CutFairly`) |
| `server` | `MCServer.cfg` | Each request is in one place; its status is its own doing; everyone is answered |
| `street` | `MCStreet.cfg` | 65 extracts × 10 queries. The graph is what the ways say, whatever stands between the tags (`GraphAsWritten`); the grid finds what a scan of all nodes would (`SnapIsNearest`); nothing is settled too dear (`SettledIsCheapest`); the walk answered is the cheapest over all pairs of ends (`WalkIsBest`), can be walked and tells of stairs and elevators (`WalkIsReal`), for a search from one to one, to many and from many |
| `start_up` | `MCStartUp.cfg` | 16 command lines, 24 styles of CSV (quotes, byte order mark, last line end, three kinds of line end), 13 disks on which something is wrong. Rows are what was written, every column of them, with every identifier and fare zone in its feed's namespace (`LoadedAsWritten`), blank times are filled in order (`TripsKeepTime`), feeds share no identifier of whatever kind and references still lead where they led (`FeedsApart`), rides find their own feed's fares (`OwnTariff`), and what is served was loaded whole, with a stop of its feed for every call of a trip that runs (`StartsWhole`) |

Some of the checks are of two independent descriptions of one thing: `Travel` against
the searches, the arrive-by search against travelling forwards, rows against packed
runs, a calendar counted from Monday 1 January 1900 against `days_from_civil`, cheapest walks by inner
nodes against A*, a scan of all nodes against the rings of the grid, the rows a table was
written from against what the scanner reads. Each property of each passing run has a mutant in `PROJECT.json`: a
change of one mapped definition under which TLC finds that property violated.

### Disagreements found

Four runs expect a violation; each checks one sentence that the repository says of
itself and that the code does not keep. They are listed as findings with the lines.

| Run | Property | The code |
|---|---|---|
| `raptor_pareto` | `ParetoOptimal` | is not always Pareto-optimal with walks: an earlier label by ride, which must wait out the buffer, hides a later one on foot that may board at once |
| `raptor_chains` | `NoChainedTransfers` | may walk twice in a row, as relaxation reads labels that the same loop replaced |
| `arrive_by_on_foot` | `EveryJourneyRides` | may answer a journey of walks alone, which the engine takes to last no time |
| `plan_rail` | `RailAlternativeKept` | may cut the railway alternative when both searches found it |

Five more things to know of. An arrive-by search may answer a journey that another dominates, though the doc
of the journeys it returns calls each of them a Pareto-optimal candidate (`raptor:610`). Relaxation reads labels that
the same loop replaced (`raptor:1106`), so walks chain: at a stop 0 with the deadline 40 at stop 3, walks 0-1 of 3
and 1-2 of 5, a line from 1 at 20 that takes 15, one from 2 at 30 that takes 5 and one from 0 to 2 at 19 that takes 6. The first
round walks 1 on to 2 for the later train; 0 still holds the label it walked to 1 for, 17, but the trace follows 1 to 2, so
that journey can leave at 22, and the next round answers one of two rides that leaves at 19. Where walks are closed (whoever
may walk on after a walk may walk there at once, in no more time: `WalksClosed`) this is ruled out, and that
is what `JourneysMeetDeadline` claims and `JourneysAreJustInTime` proves. Where trips overtake each other the search may answer a journey that
another of no more rides dominates (TLC refutes `JourneysTradeOff`, the conclusion of `RidesBuyTime`, on
`Overtaken`): a slow trip boarded early keeps a round from a faster one farther on, and a
later round that no longer scans from the early stop takes it. The greedy tickets of
`total_fare` may refuse a price that other tickets of the same tariff would pay, and a
`stop_times` row at a stop that no `stops` row declares ends start-up in a panic
(`Panic`, `BuildTimetable`) where other bad rows are refused with their line;
`StartsWhole` says that nothing else panics there. A directory that is not there is so many empty tables to the code
(`gtfs:276`), in the model as in the properties: none of them claims that a feed of the command line exists. And no part of the code looks whether a feed keeps
time: rows that go back in time, a window whose runs begin before midnight, or times that an `i32` cannot hold
are packed as they are (`KeepsTime` lists what is needed), and the searches then run on trips that arrive before they leave.

### Bounds, and why they are enough

- *Searches*: five stops, three patterns of up to four positions, up to three trips
  each, `Buffer` 2, up to three rounds. That is enough for two changes, a change to an
  earlier trip in mid-scan, a pattern that serves a stop twice, an express that a slower
  chain of rides beats, walks that tie with and beat rides by less than the buffer, two
  walks in a row, several access and egress links (one of them at the same stop), trips
  that do not run on the date, that exclude wheelchairs, and buses that a rail-only query
  passes over. `Inf` and `Neg` are outside every time there can be.
- *Trips that overtake*: `earliest_catchable_trip` takes the first trip of the list that is late
  enough, and its comment (`raptor:1298`) assumes that no trip overtakes another; construction does
  not enforce it. In `Irregular` one trip waits at a stop and another passes it, leaves
  with it and arrives later or together, arrives with it and leaves later, or follows.
  In `Overtaken` a feeder meets the line of such trips twice. Completeness (`NothingMissed`,
  `ParetoWithoutWalks`, `LatestWithoutWalks`) and that no journey dominates another (`RidesBuyTime`) are claimed
  of timetables with `FirstOutFirstIn` only, and TLC refutes `NothingMissed` and `JourneysTradeOff` without
  that condition. The comment's
  assumption (`NoOvertaking`) alone is not enough: two trips that leave a stop together and arrive
  apart are told apart by nothing at that stop (`raptor:774`), and the one on board is
  kept (`TiesLast`). All the other properties hold of irregular timetables too.
- *Construction*: a station with two platforms in three orders of the table, two routes
  of the same stations, a bus, a ferry, a one-stop trip, rows out of sequence order, and
  windows that end with a departure, just after one, before they begin,
  or have no headway, and one with a run that begins before midnight (`FeedKeepsTime` does not hold of it). `HalfWord` is 128 in place of 2^31, above every time; headways
  beyond it never end (a hazard without a run). In `BoardingAreas` a platform has
  a part of its own, in both orders: a row joins the stop of its parent's id, or of its
  parent's parent, by which row came first (`raptor:187`), and the platform's trips may be packed
  at one stop while its id leads to another. `StationsAgree` is claimed of feeds of
  `TwoLevels` only, and TLC refutes it without that; the other properties hold of all. `EveryRunOnce` is claimed of feeds that are definite (`FeedIsDefinite`): the rows of a trip
  are in a definite order, no two of its windows ask for one departure, and no run, nor the departure after it, is
  beyond an `i32`. Nothing in the code enforces that; of any other feed the rows do not say what the runs are, or say
  one twice. All 33 feeds are definite. Dates have a leap day, its neighbours, a new year, a common February, the leap
  day of 2000, and 2100-03-01.
- *Fares*: groups of up to three rides with walks, changes of feed and a feed without
  fares between them; fares by route, by origin and destination, by area; limits of none,
  one and any number of changes; ties.
- *Plan*: up to three journeys a search, limits 3 (and 2 in `plan_rail`): enough to cut
  more than one and to replace the last.
- *Street*: six nodes, one of them out of the extract, and seven ways: one always there, the
  others in every combination, with stairs and a slope around them, an element of each kind
  in between. `Cell` 4, `SnapRadius` 2 and `SnapMax` 2 make two rings of cells, ends with no
  node, one and two within the radius, and more than `SnapMax`; `Reluctance` 5 lets a farther
  candidate win by its walk; `MaxSearchCost` 30 cuts off walks that exist. `Beyond` is one more than the
  limit of the search. Profiles: one for which stairs are as good as any way, and a wheelchair.
- *Start-up*: two feeds that use the same identifiers, and a third place in the list that
  is blank. `MaxHours` is where the seconds of an `i32` end. `IntOf` lists the texts that are
  numbers. Tables of a few rows: one trip with blanks in two places and rows out of order,
  one whose times go back.
- *Server*: two requests of all kinds. The loop holds one at a time and keeps nothing from
  it; a second one suffices to show an effect on another.

### Fairness

The searches, construction, pricing, the street search and start-up are single calls on one thread: `WF_vars(Next)`
says only that the thread runs. For the server, `WF_vars(Loop)` says the same of
the main thread. `WF_vars(BodyEnds(r))` is an assumption on the network, not on the
code: `read_to_end` (`server/main.rs:212`) has no limit of time, so a body that
neither ends nor breaks off would keep every later request waiting. `EveryoneAnswered`
holds under that assumption and needs it. `Plan` states no liveness.

## 4. What is proved

### RaptorProofs

For every `Stops`, `Buffer`, `Inf`, `Timetables` and `Queries` that meet
the assumptions of `Timetable` and `RaptorSearch`:

| Theorem | Statement |
|---|---|
| `TypeCorrect` | `Spec => []TypeOK`: no index of search or reconstruct leaves its array |
| `SearchIsSound` | `Spec => []LabelsSupported`: each label can at any moment be explained by a label still there |
| `PruningIsExact` | `Spec => []BestIsEarliest` |
| `TraceDescends` | `Spec => TraceGoesBack`: tracing never goes round in circles |

All four come from one inductive invariant, `SearchInv`. `TypeOK` and `LabelsSupported`
are not inductive by themselves: `ScanPosition` writes a label for the trip on board, so
one must know what it was boarded with (`ScanInv`, `OnBoard`: a label of the round before
that was ready in time); that the label it replaces never becomes later needs `BestInv`, which
ties `cur` to `best` for the stops not improved in this round; the first marked position
exists only for patterns that a mark touches (`LoopsInv`); and reconstruct only follows
labels that are reached (`TraceInv`). The argument for `LabelsSupported` is that labels
of finished rounds never change and labels of the round under way only get
earlier, so what supports a label survives (`SupportSurvives`). That is also why a label
copied from round to round may keep the round of its parent. `TraceDescends` then needs
that `Buffer` is positive and every walk takes at least as long as it: a timetable with
walks of no duration could be traced for ever.

The proof has one lemma per action (`ScanPositionStep`, `RelaxWalksStep`, ...); the
facts about the data are in `JourneyFacts`. `TimetablesAssumption` is the only thing assumed of
data, and `InfAssumption` says that a query's own times are below `i64::MAX`.

| Theorem | Statement |
|---|---|
| `SearchRefinesKnowledge` | `Spec => ImplementsKnownArrivals`: the search implements `KnownArrivals` |

This is the second part of the module. The refinement mapping is `Known`: the labels of finished rounds and of the one under way,
as arrivals. Every step must leave only arrivals that are known already, or one ride, one walk
or one idle round away from a known one. `SearchInv` explains a label by its parent; what it
does not say is that a walk sets out from a label that a ride reached in this round, or a
walk after it, and not from one copied from the round before, for `KnownArrivals`, like the code,
never walks on from an access walk. `WalkedOnInv` adds that. A stop waiting to be walked on from may be reached on foot first, earlier
than by its ride (`raptor:797`); it is then walked on from all the same, a second walk after
a walk, which `KnownArrivals` allows since both were known at their moments.

| Theorem | Statement |
|---|---|
| `JourneysCanBeTravelled` | `Spec => []JourneysFeasible`: whatever is answered can be travelled as it stands, on trips of the timetable between two of their stops |

The third part. `JourneysFeasible` follows a clock along the legs, which is a recursive function, while
the trace finds the legs from the last to the first. `JourneyFacts` bridges the two: legs are `Timely` if
there are times, one between any two legs, that each leg keeps to; `OneMoreInFront` puts a leg in front of
timely legs, and `TimelyIsFeasible` shows that the clock keeps to the times. `OnwardInv` says that the legs traced so far are timely
from the label the trace is at (`LeadsOn`): a ride may follow, for a label that a ride wrote is ready only a
`Buffer` later. The labels on the way are not those the journey was found with: they may have been
overwritten with earlier ones, from other rides, and the clock gains on the times there; `LabelsSupported` is what
makes the legs fit all the same.

Recursive functions are unfolded by the least counterexample: the set of indices for which a
fact fails is a set of naturals, and has a least element if it is not empty (`MinOfNats`). That is
how `ClockFacts` proves that `Clock` is a clock, and `ReachFacts` (below) that `Reach` takes one ride more each time.

The fourth part is about completeness.

| Theorem | Statement |
|---|---|
| `MarkingLosesNothing` | `Spec => []NothingMissed`: marking and pruning lose no ride (where `FirstOutFirstIn` holds) and no walk |

A ride is lost if nobody scans it, or if somebody else is on board when it passes. `KeptInv`
adds three parts to `SearchInv`. `MarksInv`: a stop that is not marked has the label it had a round
ago, so whatever can be ridden from there was kept then (`UnmarkedIsKept`). `RidesInv` says for each
pattern that is scanned in this round, or was not touched, that every ride from the round before has been kept
(`PatternKept`); and, half way along a pattern, that a ride whose boarding is behind was either kept for
good in an earlier round, or was kept up to here and the trip now on board arrives no later at all the
positions left (`ScanKept`). There the order of trips is needed: `CatchesFirst` (the first trip late
enough leaves first), `ChangeForTheBetter` and `BoardsTheBest` (leaving a stop no later means arriving no
later, `OrderKept`). `WalksInv` says the same of walks: a label that a ride of this round wrote belongs to a marked stop,
and once it is walked on from, its walks stay kept because labels only get earlier.

| Theorem | Statement |
|---|---|
| `LaterRoundsRideMore` | `Spec => []RidesBuyTime`: of two journeys answered, the one found later arrives earlier and takes more rides (where `FirstOutFirstIn` holds) |

That it arrives earlier is what `StartTrace` asks for (`EndsInv`, `EarlierInv`). That it takes more rides no
line of the code asks for, and where trips overtake it need not. The argument
is that a label changed in round k rests on one changed in round k-1 (`FreshInv`): had the label boarded been
the same a round earlier, `RidesInv` says that the ride was kept then, so it would improve nothing
now (`BoardedFresh`). A walk rests on a label of its own round that is fresh too. A trace that starts from a
fresh label thus takes exactly one ride per round down to round 0 (`RidesTakenInv`), and it does start from one, for
otherwise an earlier round would have arrived as early (`TracedIsFresh`). `RideCountCons` says what one more leg in
front adds to the number of rides, which is a `Cardinality`.

| Theorem | Statement |
|---|---|
| `ParetoOptimalWithoutWalks` | `Spec => []ParetoWithoutWalks`: with at most n rides nobody is at the destination before the journeys answered, for each n within the rounds (without walks between stops, where `FirstOutFirstIn` holds) |

`Reach[n]` is what the brute force knows after n rides. By induction over n, each of its arrivals is held by the
label of the same stop in the round of the same number, or in the last round if the search stopped before (`Held`, `ReachHeld`):
the step is `RidesAreKept`, and after the last round `ClosedInv`, which says that the search stopped because a round
changed nothing, so one more would not either (`LevelKept`). Without walks between stops a label that is no ride's is the
access walk's in every round, so an earlier label is ready earlier too (`RideOnTime`); that fails with walks, and so does the property (`raptor_pareto`). `OfferInv`
says that the journeys answered are the best of the rounds collected, and `LaterRoundsRideMore` that a
journey of the n-th round takes no more than n rides.

### ArriveByProofs

For the same constants and assumptions as `RaptorProofs`, of the search that runs back in time:

| Theorem | Statement |
|---|---|
| `TraceAscends` | `Spec => TraceGoesOn`: tracing never goes round in circles |
| `MarkingLosesNothing` | `Spec => []NothingMissed`: marking and pruning lose no ride (where `FirstOutFirstIn` holds) and no walk |
| `JourneysAreJustInTime` | `Spec => []JourneysMeetDeadline`: every journey can be travelled, leaving just in time and arriving as it says, by the deadline; each takes more rides than the one before (where `FirstOutFirstIn` holds) and leaves later (where `WalksClosed` holds) |
| `LeavesAsLateAsOneCan` | `Spec => []LatestWithoutWalks`: with at most so many rides it leaves exactly at the latest moment from which travelling *forwards*, by any trip, is in time, and answers nothing just when there is none (without walks between stops, where `FirstOutFirstIn` holds) |

The code of the two searches is separate, so nothing is inherited: the invariants are stated and
proved of `search_arrive_by` itself. `SearchInv` holds the types of all the search's variables,
`LabelsSupported` (every label is explained by a later one that is still there), `ScanInv`, `BestInv`
and `TraceInv`; `KeptInv` adds `MarksInv`, `RidesInv` and `WalksInv` as in `RaptorProofs`. What is
not a mere mirror image: labels are bounded by `Neg` below and by nothing above the deadline, so
they are moments (`Moments`), not naturals; the buffer is taken where a ride is *left*
(`AlightReady`) and a trip is looked for by its arrival (`AlightableTrip`, `LeavesLast`); the scan starts at the last marked position and
goes down to the first (`ScanMoves`); and `OrderKept`
reads `FirstOutFirstIn` backwards: a trip no earlier at a position was no earlier before it.

Going back in time a trace finds the legs in travelling order, from the origin on, and what it has found says
nothing yet of when that is left: `RealArrival` and the departure depend on the rides still to be found. So `FrontInv`
says two things of the legs so far. They bring one from an access link to the label traced, in time for it
(`BroughtTo`: some clock is at the label's stop no later than the label's time, with the buffer when the next ride calls for it); each
step adds a leg behind (`BroughtByRide`, `BroughtByWalk`), and where the first ride is, the clock before it is moved to be just
in time (`WalksMayShift`). And they leave when the round was collected for (`LeftAt`). The second half needs that a
label on foot is exactly as late as the label walked to allows, which is not so in general (see the disagreements above). Where walks are closed it
is (`PunctualInv`): in a round a label walked to is only ever changed by a ride, and then it is still to be
walked from; a walk onto it from a third stop would have reached the walker's stop as well, no later. `LaterInv` then says that
the journeys answered leave ever later. That each takes more rides is, as in `LaterRoundsRideMore`, that labels rest
on fresh ones (`FreshInv`, `RidesTakenInv`).

`LeavesAsLateAsOneCan` ties a search back in time to the brute force `Reach` that goes forwards, for any number of rides. One half: whoever
leaves at a moment and is in time with n rides (`Within`) is at every stop on the way `Homebound`: by an egress link, or since the round
that holds the departures of the rides left (`Level`) has the stop no earlier than one is there. That goes back
along the rides (`TakenHome`, `HomeboundBefore`, `HomeFromAccess`) as far as the access link, so that round lets one leave no earlier than one did
(`RoundLeaves`); and a journey of no more rides leaves as late as any round read so far (`OfferInv`). It takes that the rounds
stopped with nothing more to ride, or at the query's limit (`ClosedInv`), and that no label gets earlier (`RoundsRise`). The other half: the legs
of a journey answered, between its walks on the streets, are rides, no more than it has (`MiddleIsSome`), and each is one more
step of the brute force (`RidesAreReached`); it was proved to be travelled in time before. Both hold of every moment, after `Neg`
and up to the deadline, so the latest is the same.

### BuildProofs

For all `Feeds` that meet `FeedsAssumption` (tables of rows with the types of the `struct`s, any number of
them in any order), any sizes and `Dates`:

| Theorem | Statement |
|---|---|
| `BuildTypeCorrect` | `Spec => []TypeOK`: every row, window and pattern looked up is there, ids lead to stations, `dep` stays an `i32` |
| `TimetableIsSearchReady` | `Spec => []SearchReady`: of a feed that keeps time is built what the searches assume |
| `StationsAreOne` | `Spec => []StationsAgree`: platforms and their station are one stop (where `TwoLevels` holds) |
| `ServicesRunOnTheirDays` | `Spec => []RunsOnItsDays`: services run on the days of the calendar and its exceptions, every date from 1900 on |
| `RunsArePackedOnce` | `Spec => []EveryRunOnce`: every run of a definite feed is packed exactly once, and nothing else |

A row is read once, but the map it is put into is never overwritten (`entry().or_insert`), so what matters is
what an id was met as before. `StationInv` says that every id in the map is that of a row read or
of the station of one, and that both lead to the station. An id met again then leads where it should:
where it was met as a station before, `TwoLevels` makes it its own station, and where it was met as
a row, rows of one id are of one station. The rest of construction leaves the map alone.

`BuildInv` holds this, that ids lead to indices there are, that every pattern is two or more of those indices
and runs of as many times, in the order that `KeepsTime` asks for if the feed keeps time (`IsPattern`, `IsRun`), that the
run to add next is of a window of the trip and its pattern of as many stops as the trip has rows (`PackingInv`), and, at
the end, that runs are in order of their first departure. `RunIsRun` is where the condition is used: it keeps the offset
of a run from wrapping its times. Three families of lemmas carry the rest. `InOrderSorts`: placing indices by counting
gives each place one index and leaves none out, as the counts are injective and bounded by the size of the set
(`RowsInOrder`, `SortByFacts`, `SortedSorts` for the two sorts, one on top of the other). `WrappedFacts`: wrapping yields an `i32`
and changes none. And `PlacesAddUp`: the mean place of a station is a number, since the sum over its rows is, by descent to a least
counterexample on the recursive function behind `MapThenSumSet` (`SumExists` of `JourneyFacts`); walks are then the same both ways.

`RunsOnItsDays` is an operator of what was read, so `StationInv` is all it takes; the work is in the arithmetic. `days_from_civil`
splits a year into eras of 400 that begin in March, the property counts leap years from 1900. `ErasTogether` takes the eras
away, `LeapYearsCounted` shows by descent that as many years were counted as the divisions say, and `MonthsCounted` goes through the
twelve months: the two counts differ by the same number of days for all dates (`DaysCounted`), and that number is such that the
weekdays are the same (`WeekdayIndexIsWeekday`). It is claimed of dates from 1900 on, in one of twelve months (`DatesAssumption`).
Of a service with several calendar rows the last is meant, for it overwrites the ones before (`LastCalendar`).

`EveryRunOnce` relates the end of construction to the feed, so the invariant says of every moment which runs are packed. `OnceInv`
does: the runs in the patterns are those due (`AllRuns`), each of them once (`Agree`), where due are all runs of the trips that are no
longer pending and, of the one being expanded, the departures its windows have gone through (`Due`). `ExpandInv` is needed beside it: that the
pattern at hand is still one of the trip's route and stations, and that `dep` is whole headways from the start of the window, or the
departures of a window would not be the numbers of the property (`StartsFollow`). That a run is new when it is added
(`IdsOfRuns`) uses that windows share no departure; that `dep` moves on (`NextDeparture`) that nothing wraps. `CanonicalInv` says that a
stop of the feed is known as of its row's station, and holds of all feeds. Sorting patterns and their runs loses and
repeats nothing (`AgreeSorted`), and `TimesByRank` makes of the sorted rows the times that the property reads by rank. The order in which
the trips are taken is left open throughout, as the `HashMap` leaves it.

### PlanProofs

For all `Requests` whose searches answer as `RequestsAssumption` says (journeys that keep to the time
asked for, no more), and any
`MaxItineraries` of at least two:

| Theorem | Statement |
|---|---|
| `PlanTypeCorrect` | `Spec => []TypeOK`: and no more than the limit are answered |
| `AnswerHasNoTwins` | `Spec => []NoTwins` |
| `LimitCutsFairly` | `Spec => []CutFairly` |

`NoTwins` and `CutFairly` speak of the answer, which one step makes; `PlanInv` says
what that step starts from: no two itineraries found share a signature (`DistinctInv`), and
the railways were searched exactly where the fastest takes a bus, with every signature of theirs
seen by the end (`SearchInv`). The rest is about `Ranked`, which is defined by counting those
that come before: `RankedOrder` proves that the counts are a bijection, by the strict growth of a
finite set, so that ranking loses nothing and repeats nothing; `RankedIsStable` and
`FastestIsFirst` follow. Then there is one lemma for each way the list may be cut: it fits (`AllFit`),
a railway journey is within the limit (`KeptFit`), or the last is replaced by the best of the second
search and ranked again (`ReplacedFit`). The limit must be at least two, or the replacement
would drop the fastest. `LegsAssumption` states the types of what selecting and folding over
legs return, which is induction over data; TLC evaluates it.

### FareProofs

For all `Tariffs` and `Journeys` that meet the assumptions of `Fares`:

| Theorem | Statement |
|---|---|
| `FareTypeCorrect` | `Spec => []TypeOK`: no index leaves its slice, no `usize` goes below zero |
| `EachRidePaidOnce` | `Spec => []PaidOnce` |
| `RefusalIsForARide` | `Spec => []RefusedForARide` |

`PaidOnce` says of a ticket that nothing wider could have been had, which is about spans tried
and given up before it; the inductive invariant `FareInv` therefore remembers, while a group is
paid, that the group reaches to `end` and no further and that every span wider than the
one tried is not for sale (`GroupInv`). `RestOfGroup` is the step that matters: what is left once
a ticket is taken is itself a group up to the same `end`, so the code need not look
for its end again.

### ServerProofs

For every non-empty set of `Requests`:

| Theorem | Statement |
|---|---|
| `ServerTypeCorrect` | `Spec => []TypeOK` |
| `NothingLost` | `Spec => []InOnePlace`: a request is at one index of queue, loop or answers |
| `StatusIsOwn` | `Spec => []OwnStatus` |

`InOnePlace` counts with `Cardinality`, which no step preserves visibly; `PlaceInv` says the
same by injectivity and disjointness, and `OnePlace` derives the count. `OwnStatus` is about
answers given; `StepInv` carries it through the loop: a handler runs only on a whole body,
and a body whose end is known stays as it is (`DeservedStays`).

### StreetProofs

For all `Documents` that are extracts, all `QueriesOn` them and `Profiles` that meet the assumptions of
`StreetSearch`, and any size of the grid:

| Theorem | Statement |
|---|---|
| `StreetTypeCorrect` | `Spec => []TypeOK`: from the first tag to the answer, whatever is looked up is there |
| `NodesSettleCheapest` | `Spec => []SettledIsCheapest`: a settled node was reached as cheaply as from any source |
| `WalksAreBest` | `Spec => []WalkIsBest`: an answer is the cheapest of all pairs of ends, and there is one if there is a walk |
| `WalksAreReal` | `Spec => []WalkIsReal`: an answer can be walked, is as long and as dear as it says, and says of stairs and elevators what its cheapest edges have |
| `SnapsToNearest` | `Spec => []SnapIsNearest`: for any place up to two cells beyond the nodes, the grid finds what a scan of all nodes would |

All five come from one inductive invariant, `StreetInv`, of two parts. `GraphInv` is about reading and building:
what has been read has its types (`ReaderInv`), nodes are of different numbers, every edge leads from node to
node, is as long as they are apart and has its like in the other direction (`AreEdges`), and the packed edges of a node
are those that leave it (`Packed`, for which the sort must lose nothing: `InOrderSorts`, `PackFacts`). `SearchInv`
is about the search.

The search is proved correct for a `Town` first: nodes, edges with costs, what is barred, an estimate, sources with
offsets, a cap, and targets with their goals and dues; `TownIsTown` shows that the graph and the query make one.
There the estimate is what the proof rests on: `EdgeCostFacts` has that no profile makes an edge cheaper than its length
(`ProfilesAssumption`, true of the profiles at `street:66-80`), so the estimate falls along an edge by no more than its cost (`EstimateFacts`),
and is nothing at a goal. `CostsAssumption` says that snapping alone never exceeds `MAX_SEARCH_COST_S`, which holds of
the constants at `street:111-131` and which the cap needs to let every source in. `Explored` is the invariant
of A*: every edge walked from a settled node has spread its cost, every node reached was led there by an
edge walked or is a source, and entries leave the heap in turn (`InTurn`).

That no walk is cheaper cannot be shown by induction over walks. It is shown from below: a *height* is
any function on nodes that no edge raises by more than its cost. `HeightExists` builds one out of the settled nodes' costs and the
heap's least key; that the cheapest costs respect every height (`ShortestWays`, an induction over `Cheapest`'s rounds, which is
Floyd and Warshall's algorithm) then bounds them from below (`SettledAtLeast`), while `FromSources` bounds them from
above. For an answer the walk needs an edge at least, so the height is taken one edge further (`Onward`), and
`NoneIsBetter` follows: when the heap is empty or all targets are resolved, no pair of ends is better.
`AnswerHasPrice` gives the other half, that the answer is the price of some pair.

The walk answered is put together of two records, the tree and the last edge. Following the tree
back ends because nodes settle in an order (`Ranks`, `GoesBack`); on that `Recursion` proves that the recursive function
`Chain` is one, and `LinksAreTrails` that it yields edges that join (`IsTrail`) and cost what `g` says. Between two nodes
there may be several edges; that the search takes a cheapest one (`Lowest`) holds because all edges of a settled node are walked
before its neighbour's answer counts (`WalkedTogether`), and the reverse direction costs the same since every edge has its like
(`CostIsOfLike`). That is what makes the duration the sum of the cheapest hops also for `route_many_to_one`,
whose walks are given the other way round (`TotalBackwards`).

The grid needs two facts. A node that no ring up to `r` has held is more than `r` cells away along an axis, whatever the remainders
of the divisions are (`CellsThenApart`, `UnseenIsFar`), so it cannot beat a node within `r * GRID_CELL_M * GRID_SAFETY`; it is enough for this that
`GRID_SAFETY` is no more than 1. And `max_ring`, the widest extent and two, reaches every node from two cells beyond them
(`RingsReach`, `AroundAllIsSeen`), which is as far as the property goes: where the rings run out before they are sure, all nodes were seen.

### Only model-checked

Everything of liveness (`Terminates`, `EveryoneAnswered`), for it is
beyond the prover; of the street graph, `GraphAsWritten`, which reads
an extract as a whole where the reader goes tag by tag, and holds of extracts whose tags are well nested (an induction over the text); and all
of start-up, whose properties (`LoadedAsWritten`, `TripsKeepTime`, `FeedsApart`, `OwnTariff`, `StartsWhole`) are about
the rows that scanning and filtering the text of a table yields, which is induction over its characters and rows. No module declares a RECURSIVE operator; what is recursive is a function. The induction
theorems of the library take an operator, which none of the backends can instantiate; where a fact about sums was
needed, it is proved by descent to a least counterexample instead (`SumExists`, `SumIsFold`, `PlacesAddUp`).

## 5. What is not modelled

- *Formats* (`server/dto.rs`, `engine/polyline.rs`): JSON layout, polylines, dates as text, names of
  legs. `merge_same_route_transit` joins rides without a wait between them; no search answers such a
  journey (`JourneysFeasible` has every change leave the buffer), so it changes nothing.
- *Core*: haversine and newtypes, no state.
- *Examples and scripts.*
- Of the parts that are modelled: the decoding of attributes and character references
  (`osm_xml.rs:144` reads `&#x27;` as a decimal number; the keys and values the graph looks at hold no
  references); the names and the geometry of legs and walks; places farther than two cells
  from every node, where `nearest` may run out of rings although `street:209` promises the answer
  of a linear scan; columns that are carried along and change nothing (names, colours,
  wheelchair boarding of stops).

Two traits of the street search are modelled as they are and judged by no property. A walk of
no length is only answered when the nearest candidates of both ends are one node; another
shared candidate leads to a walk along an edge and back (`street:737`). `WalkIsBest` and `WalkIsReal` count it
as a walk like any other; that it ought to be answered is claimed by neither. And the cost cap is
raised by the snapping of the end the search starts from (`street:716`), so that close to the
cap a walk may be found one way and not the other.

## 6. Plan

Done, in this order: `Timetable`, `Journeys`, `RaptorSearch`, `Travel`, `KnownArrivals` and their
properties; `RaptorProofs`; `RaptorArriveBy`; `Fares`; `Plan`; `Server`; `TimetableBuild`;
`OsmReader`, `StreetGraph`, `StreetSearch`; `GtfsTables`, `StartUp`; `ServerProofs`; `FareProofs`;
`PlanProofs`; the refinement and completeness in `RaptorProofs`; `BuildProofs`; `ArriveByProofs`;
`StreetProofs`.

To extend the model:

1. Headways of 2^31 or more in `MCBuild`, which never end.
2. `Plan` over `RaptorSearch` and `StreetSearch` themselves on one small town in place of given answers.

To prove:

1. `StreetGraph`: `GraphAsWritten`.
2. `StartUp`: `StartsWhole` and `FeedsApart`.
