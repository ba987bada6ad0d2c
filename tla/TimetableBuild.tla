---------------------------- MODULE TimetableBuild ----------------------------
(***************************************************************************)
(* Timetable::build_with_modes of crates/raptor: from the rows of GTFS      *)
(* tables to the patterns and walks that the searches read.                *)
(*                                                                         *)
(* A feed is its tables, each a sequence of rows in the order of the file; *)
(* several feeds are one here, table by table, as the code goes through    *)
(* them one after the other.  Stops rows are folded into stations, trips   *)
(* that stop at the same stations on the same route share a pattern, and a *)
(* trip with frequencies stands for a run every headway.  Trips are taken  *)
(* from a HashMap: in any order.                                           *)
(*                                                                         *)
(* StopIdx and PatternIdx count from 1.  A place is a number on a line, and *)
(* the places of a station's stops have a whole mean.  Stop names, zones    *)
(* and route names are left out.                                           *)
(***************************************************************************)
EXTENDS Integers, Sequences, FiniteSetsExt, Folds, StableSort

CONSTANTS
  Feeds,      (* the feeds to build from                                   *)
  RailOnly,   (* ModeFilter::RailOnly, else RailAndBus                     *)
  Buffer,     (* DEFAULT_TRANSFER_BUFFER_S                                 *)
  MaxWalk,    (* MAX_WALK_TRANSFER_M                                       *)
  Speed,      (* WALK_SPEED_MPS                                            *)
  HalfWord    (* 2^31: an i32 is in -HalfWord .. HalfWord - 1              *)

ASSUME SizesAssumption ==
  /\ RailOnly \in BOOLEAN /\ Buffer \in Nat \ {0} /\ MaxWalk \in Nat
  /\ Speed \in Nat \ {0} /\ HalfWord \in Nat \ {0}

(* SecondsSinceMidnight, an i32, and a u32.                                *)
Seconds == -HalfWord .. HalfWord - 1
Word    == 0 .. 2 * HalfWord - 1

(* The rows, with the fields that are read.  parent is an option: a set of
   at most one id.  Trips are named by numbers in the order of their ids.  *)
IsTable(t) == t \in Seq({t[r] : r \in DOMAIN t})

IsFeed(f) ==
  /\ \A t \in {f.stops, f.routes, f.trips, f.stopTimes, f.frequencies,
               f.calendars, f.dates} : IsTable(t)
  /\ \A r \in DOMAIN f.stops :
       /\ DOMAIN f.stops[r] = {"id", "parent", "place"}
       /\ f.stops[r].place \in Int
  /\ \A r \in DOMAIN f.routes : DOMAIN f.routes[r] = {"id", "mode"}
  /\ \A r \in DOMAIN f.trips :
       /\ DOMAIN f.trips[r] = {"id", "route", "service", "accessible"}
       /\ f.trips[r].id \in Nat
       /\ f.trips[r].accessible \in BOOLEAN
  /\ \A r \in DOMAIN f.stopTimes :
       /\ DOMAIN f.stopTimes[r] = {"trip", "stop", "seq", "arrival", "departure"}
       /\ f.stopTimes[r].seq \in Word
       /\ {f.stopTimes[r].arrival, f.stopTimes[r].departure} \subseteq Seconds
  /\ \A r \in DOMAIN f.frequencies :
       f.frequencies[r] \in [trip : Nat, start : Seconds, end : Seconds,
                             headway : Word]
  /\ \A r \in DOMAIN f.calendars :
       /\ DOMAIN f.calendars[r] = {"service", "weekdays", "from", "to"}
       /\ {f.calendars[r].from, f.calendars[r].to} \subseteq Nat
  /\ \A r \in DOMAIN f.dates :
       /\ DOMAIN f.dates[r] = {"service", "date", "added"}
       /\ f.dates[r].added \in BOOLEAN

ASSUME FeedsAssumption == \A f \in Feeds : IsFeed(f)

VARIABLES
  feed,       (* the feed                                                  *)
  pc,         (* the loop it is in: "stops", "trips", "windows" or "runs";
                 or how it ended, "done" or "panicked"                     *)
  row,        (* the stops row to read next                                *)
  stopIds,    (* per StopIdx, its station's id                             *)
  lookup,     (* stop_lookup: a StopIdx per id of a stop or station        *)
  canonical,  (* canonical_of: per stops row, its station's id             *)
  pending,    (* the trips still to pack                                   *)
  patterns,   (* the patterns so far                                       *)
  packing     (* the trip with frequencies being expanded, its pattern, the
                 window and the departure to add next                      *)

vars == <<feed, pc, row, stopIds, lookup, canonical, pending, patterns,
          packing>>

-----------------------------------------------------------------------------
(* ModeFilter::accepts.                                                    *)
Accepts(mode) == mode = "rail" \/ (~RailOnly /\ mode = "bus")

(* included_routes and trip_route: of rows with one id the last one stays.  *)
IncludedRoutes(f) == {r \in DOMAIN f.routes : Accepts(f.routes[r].mode)}

IncludedTrips(f) ==
  {t \in DOMAIN f.trips : \E r \in IncludedRoutes(f) :
     f.routes[r].id = f.trips[t].route}

TripOf(f, trip) ==
  f.trips[Max({t \in IncludedTrips(f) : f.trips[t].id = trip})]

ModeOf(f, route) ==
  f.routes[Max({r \in IncludedRoutes(f) : f.routes[r].id = route})].mode

(* stop_times_by_trip: the rows of a trip, in stop_sequence order.         *)
TimesOf(f, trip) ==
  LET rows  == {r \in DOMAIN f.stopTimes : f.stopTimes[r].trip = trip}
      order == InOrder(rows, [r \in rows |-> f.stopTimes[r].seq])
  IN  [n \in DOMAIN order |-> f.stopTimes[order[n]]]

(* freqs_by_trip: the rows of a trip, in the order of the file.            *)
WindowsOf(f, trip) ==
  LET rows  == {w \in DOMAIN f.frequencies : f.frequencies[w].trip = trip}
      order == InOrder(rows, [w \in rows |-> w])
  IN  [n \in DOMAIN order |-> f.frequencies[order[n]]]

TripsToPack(f) ==
  {f.trips[t].id : t \in IncludedTrips(f)}
    \cap {f.stopTimes[r].trip : r \in DOMAIN f.stopTimes}

NotPacking == [trip |-> 0, pattern |-> 0, window |-> 0, dep |-> 0]

Init ==
  /\ feed \in Feeds
  /\ pc = "stops"
  /\ row = 1
  /\ stopIds = <<>>
  /\ lookup = <<>>
  /\ canonical = <<>>
  /\ pending = TripsToPack(feed)
  /\ patterns = <<>>
  /\ packing = NotPacking

-----------------------------------------------------------------------------
StationOf(stop) ==
  IF stop.parent = {} THEN stop.id ELSE CHOOSE p \in stop.parent : TRUE

(* A map with an entry that replaces the one of its key, or leaves it.     *)
Put(map, key, value) ==
  [k \in DOMAIN map \cup {key} |-> IF k = key THEN value ELSE map[k]]

PutIfAbsent(map, key, value) ==
  IF key \in DOMAIN map THEN map ELSE Put(map, key, value)

LookupWithOwn(stop) ==                                     (* a mutant *)
  PutIfAbsent(PutIfAbsent(lookup, StationOf(stop), Len(stopIds) + 1),
              stop.id, Len(stopIds) + 1)

LookupStations(stop) ==                                    (* a mutant *)
  PutIfAbsent(lookup, StationOf(stop), Len(stopIds) + 1)

(* A stop's station has an index, a new one if this is the first row of the
   station; the stop's own id leads there too, unless it leads somewhere.  *)
LookupWith(stop) ==
  LET known == PutIfAbsent(lookup, StationOf(stop), Len(stopIds) + 1)
  IN  PutIfAbsent(known, stop.id, known[StationOf(stop)])

RegisterStop ==
  /\ pc = "stops"
  /\ row \in DOMAIN feed.stops
  /\ LET stop == feed.stops[row]
     IN  /\ stopIds' = IF StationOf(stop) \in DOMAIN lookup THEN stopIds
                       ELSE Append(stopIds, StationOf(stop))
         /\ lookup' = LookupWith(stop)
         /\ canonical' = Put(canonical, stop.id, StationOf(stop))
  /\ row' = row + 1
  /\ UNCHANGED <<feed, pc, pending, patterns, packing>>

StopsDone ==
  /\ pc = "stops"
  /\ row \notin DOMAIN feed.stops
  /\ pc' = "trips"
  /\ UNCHANGED <<feed, row, stopIds, lookup, canonical, pending, patterns,
                 packing>>

-----------------------------------------------------------------------------
(* The station whose index a stop_times row is given.                      *)
Canonical(stop) == IF stop \in DOMAIN canonical THEN canonical[stop] ELSE stop

StopIdx(times, i) == lookup[Canonical(times[i].stop)]

Registered(times) ==
  \A i \in DOMAIN times : Canonical(times[i].stop) \in DOMAIN lookup

(* A trip of a single stop is no use.                                      *)
SkipTrip ==
  /\ pc = "trips"
  /\ \E trip \in pending :
       /\ Len(TimesOf(feed, trip)) < 2
       /\ pending' = pending \ {trip}
  /\ UNCHANGED <<feed, pc, row, stopIds, lookup, canonical, patterns, packing>>

(* unreachable!: a stop_times row of a stop that no stops row declares.     *)
Panic ==
  /\ pc = "trips"
  /\ \E trip \in pending :
       /\ Len(TimesOf(feed, trip)) >= 2
       /\ ~Registered(TimesOf(feed, trip))
  /\ pc' = "panicked"
  /\ UNCHANGED <<feed, row, stopIds, lookup, canonical, pending, patterns,
                 packing>>

PatternsLikeAnyRoute(route, stops) ==                      (* a mutant *)
  {p \in DOMAIN patterns : patterns[p].stops = stops}

PatternsLike(route, stops) ==
  {p \in DOMAIN patterns :
     patterns[p].route = route /\ patterns[p].stops = stops}

(* as i32, and the wrapping addition of a release build.                   *)
Wrapped(n) == ((n + HalfWord) % (2 * HalfWord)) - HalfWord

(* A run of a trip that leaves its first stop offset later than its rows.  *)
Run(trip, id, offset) ==
  LET times == TimesOf(feed, trip)
  IN  [id |-> id, service |-> TripOf(feed, trip).service,
       accessible |-> TripOf(feed, trip).accessible,
       arrivals   |-> [i \in DOMAIN times |-> Wrapped(times[i].arrival + offset)],
       departures |-> [i \in DOMAIN times |-> Wrapped(times[i].departure + offset)]]

(* Any trip left: to the pattern of its route and its stations, a new one if
   there is none.  Without frequencies it runs as its rows say; with them,
   its runs are added window by window, none yet.                          *)
PackTrip ==
  /\ pc = "trips"
  /\ \E trip \in pending :
       LET times == TimesOf(feed, trip)
           stops == [i \in DOMAIN times |-> StopIdx(times, i)]
           route == TripOf(feed, trip).route
           like  == PatternsLike(route, stops)
           packed == IF like # {} THEN patterns
                     ELSE Append(patterns, [route |-> route, stops |-> stops,
                                   mode |-> ModeOf(feed, route), trips |-> <<>>])
           p      == IF like # {} THEN Min(like) ELSE Len(packed)
       IN  /\ Len(times) >= 2
           /\ Registered(times)
           /\ pending' = pending \ {trip}
           /\ IF WindowsOf(feed, trip) = <<>>
              THEN /\ patterns' = [packed EXCEPT ![p].trips =
                                     Append(@, Run(trip, <<trip>>, 0))]
                   /\ UNCHANGED <<pc, packing>>
              ELSE /\ patterns' = packed
                   /\ pc' = "windows"
                   /\ packing' = [trip |-> trip, pattern |-> p, window |-> 1,
                                  dep |-> 0]
  /\ UNCHANGED <<feed, row, stopIds, lookup, canonical>>

-----------------------------------------------------------------------------
Window == WindowsOf(feed, packing.trip)[packing.window]

WindowsLeft == packing.window \in DOMAIN WindowsOf(feed, packing.trip)

OpenWindow ==
  /\ pc = "windows"
  /\ WindowsLeft
  /\ Window.headway # 0
  /\ pc' = "runs"
  /\ packing' = [packing EXCEPT !.dep = Window.start]
  /\ UNCHANGED <<feed, row, stopIds, lookup, canonical, pending, patterns>>

(* A headway of nothing is bad data.                                       *)
SkipWindow ==
  /\ pc = "windows"
  /\ WindowsLeft
  /\ Window.headway = 0
  /\ packing' = [packing EXCEPT !.window = @ + 1]
  /\ UNCHANGED <<feed, pc, row, stopIds, lookup, canonical, pending, patterns>>

BaseStart == TimesOf(feed, packing.trip)[1].departure

AddRun ==
  /\ pc = "runs"
  /\ packing.dep < Window.end
  /\ patterns' = [patterns EXCEPT ![packing.pattern].trips =
       Append(@, Run(packing.trip, <<packing.trip, packing.dep>>,
                     packing.dep - BaseStart))]
  /\ packing' = [packing EXCEPT !.dep = Wrapped(@ + Wrapped(Window.headway))]
  /\ UNCHANGED <<feed, pc, row, stopIds, lookup, canonical, pending>>

CloseWindow ==
  /\ pc = "runs"
  /\ packing.dep >= Window.end
  /\ pc' = "windows"
  /\ packing' = [packing EXCEPT !.window = @ + 1]
  /\ UNCHANGED <<feed, row, stopIds, lookup, canonical, pending, patterns>>

WindowsDone ==
  /\ pc = "windows"
  /\ ~WindowsLeft
  /\ pc' = "trips"
  /\ packing' = NotPacking
  /\ UNCHANGED <<feed, row, stopIds, lookup, canonical, pending, patterns>>

-----------------------------------------------------------------------------
SortedAsFound(trips) == trips                              (* a mutant *)

(* By first departure, then by id.                                         *)
Sorted(trips) ==
  LET byId == SortBy(trips, [i \in DOMAIN trips |-> trips[i].id[1]])
  IN  SortBy(byId, [i \in DOMAIN byId |-> byId[i].departures[1]])

SortTrips ==
  /\ pc = "trips"
  /\ pending = {}
  /\ patterns' = [p \in DOMAIN patterns |->
                    [patterns[p] EXCEPT !.trips = Sorted(@)]]
  /\ pc' = "done"
  /\ UNCHANGED <<feed, row, stopIds, lookup, canonical, pending, packing>>

Next ==
  \/ RegisterStop \/ StopsDone
  \/ SkipTrip \/ Panic \/ PackTrip
  \/ OpenWindow \/ SkipWindow \/ AddRun \/ CloseWindow \/ WindowsDone
  \/ SortTrips

(* One call on one thread.                                                 *)
Fairness == WF_vars(Next)

Spec == Init /\ [][Next]_vars /\ Fairness

-----------------------------------------------------------------------------
(* The rest of the timetable follows from the feed and the stations.        *)

(* stop_coords: the mean place of the stops of a station.                  *)
Place(s) ==
  LET stops == {r \in DOMAIN feed.stops :
                  StationOf(feed.stops[r]) = stopIds[s]}
  IN  MapThenSumSet(LAMBDA r : feed.stops[r].place, stops)
        \div Cardinality(stops)

Distance(s, t) ==
  IF Place(s) < Place(t) THEN Place(t) - Place(s) ELSE Place(s) - Place(t)

(* transfers: a walk both ways between stations that are near, rounded up,
   and the buffer.                                                         *)
Walks ==
  LET near == {e \in (DOMAIN stopIds) \X (DOMAIN stopIds) :
                 e[1] # e[2] /\ Distance(e[1], e[2]) <= MaxWalk}
  IN  [e \in near |-> (Distance(e[1], e[2]) + Speed - 1) \div Speed + Buffer]

DaysFromJanuary(y, m, d) ==                                (* a mutant *)
  LET doy == (153 * ((m + 9) % 12) + 2) \div 5 + d - 1
  IN  365 * y + y \div 4 - y \div 100 + y \div 400 + doy - 719468

(* days_from_civil, of a year from 1 on: days since 1970-01-01, in years
   that begin in March.                                                    *)
DaysFromCivil(y, m, d) ==
  LET yy  == IF m <= 2 THEN y - 1 ELSE y
      era == yy \div 400
      yoe == yy - era * 400
      doy == (153 * ((m + 9) % 12) + 2) \div 5 + d - 1
      doe == yoe * 365 + yoe \div 4 - yoe \div 100 + doy
  IN  era * 146097 + doe - 719468

(* weekday_index of a date YYYYMMDD, 0 for a Monday.                       *)
WeekdayIndex(date) ==
  (DaysFromCivil(date \div 10000, (date \div 100) % 100, date % 100) + 3) % 7

(* calendars: the last calendar row of a service, if any, and the exceptions
   of all its calendar_dates rows.                                         *)
CalendarOf(service) ==
  LET rows  == {c \in DOMAIN feed.calendars :
                  feed.calendars[c].service = service}
      dates == {d \in DOMAIN feed.dates : feed.dates[d].service = service}
  IN  [regular |-> IF rows = {} THEN {} ELSE {feed.calendars[Max(rows)]},
       added   |-> {feed.dates[d].date : d \in {x \in dates : feed.dates[x].added}},
       removed |-> {feed.dates[d].date : d \in {x \in dates : ~feed.dates[x].added}}]

ServiceActive(service, date) ==
  LET cal == CalendarOf(service)
  IN  /\ date \notin cal.removed
      /\ \/ date \in cal.added
         \/ \E c \in cal.regular : /\ date \in c.from .. c.to
                                   /\ WeekdayIndex(date) \in c.weekdays
=============================================================================
