--------------------------- MODULE BuildProperties ---------------------------
(***************************************************************************)
(* What makes a timetable the one its feed describes, and one that the     *)
(* searches can rely on.                                                   *)
(***************************************************************************)
EXTENDS TimetableBuild

CONSTANT Dates   (* the service dates asked for, YYYYMMDD                  *)

(* Of this calendar: from 1900 on, in one of twelve months.                *)
ASSUME DatesAssumption ==
  \A date \in Dates : /\ date \in Nat
                      /\ date \div 10000 >= 1900
                      /\ (date \div 100) % 100 \in 1 .. 12

(* Every variable has its type; every id leads to a station there is.      *)
TypeOK ==
  /\ feed \in Feeds
  /\ pc \in {"stops", "trips", "windows", "runs", "done", "panicked"}
  /\ row \in 1 .. Len(feed.stops) + 1
  /\ Len(stopIds) <= row
  /\ lookup \in [DOMAIN lookup -> DOMAIN stopIds]
  /\ DOMAIN canonical \subseteq {feed.stops[r].id : r \in DOMAIN feed.stops}
  /\ pending \subseteq TripsToPack(feed)
  /\ packing \in [trip : Nat, pattern : Nat, window : Nat,
                  dep : Seconds]
  /\ packing.pattern \in {0} \cup DOMAIN patterns

(* Stations are no parts of other stations, and rows of one id are of one
   station.                                                                *)
TwoLevels(f) ==
  \A r, q \in DOMAIN f.stops :
    /\ f.stops[q].id = f.stops[r].id
         => StationOf(f.stops[q]) = StationOf(f.stops[r])
    /\ f.stops[q].id = StationOf(f.stops[r])
         => StationOf(f.stops[q]) = f.stops[q].id

(* Platforms and their station are one stop to the search, and no two
   stations are: whichever row came first, an id that a caller looks up is
   the stop that trips calling there are packed with.  Where a platform has
   parts of its own, it depends on the order of the rows whether they are.  *)
StationsAgree ==
  pc # "stops" /\ TwoLevels(feed) =>
    \A r \in DOMAIN feed.stops :
      LET stop == feed.stops[r]
      IN  /\ {stop.id, StationOf(stop)} \subseteq DOMAIN lookup
          /\ stopIds[lookup[stop.id]] = StationOf(stop)
          /\ stopIds[lookup[StationOf(stop)]] = StationOf(stop)

-----------------------------------------------------------------------------
(* The departures of a trip with frequencies: every headway of a window from
   its start to before its end.                                            *)
StartsIn(window) ==
  {window.start + k * window.headway : k \in 0 .. window.end - window.start}
    \cap (window.start .. window.end - 1)

RepeatsOf(trip) ==
  {w \in DOMAIN feed.frequencies :
     feed.frequencies[w].trip = trip /\ feed.frequencies[w].headway > 0}

Starts(trip) == UNION {StartsIn(feed.frequencies[w]) : w \in RepeatsOf(trip)}

RowsOf(trip) == {r \in DOMAIN feed.stopTimes : feed.stopTimes[r].trip = trip}

IsRepeated(trip) == \E w \in DOMAIN feed.frequencies : feed.frequencies[w].trip = trip

FirstRow(trip) ==
  CHOOSE r \in RowsOf(trip) : \A q \in RowsOf(trip) :
    feed.stopTimes[r].seq <= feed.stopTimes[q].seq

(* The station of a stop, or of a station that no row is about.            *)
StationsOf(id) ==
  LET rows == {s \in DOMAIN feed.stops : feed.stops[s].id = id}
  IN  IF rows = {} THEN {id} ELSE {StationOf(feed.stops[s]) : s \in rows}

(* A packed run calls where and when the rows of its trip say, moved by the
   offset, in the order of their stop_sequence: at the stop that the station
   of the row's stop is, even if the stop's own id leads to another.        *)
CallsAsRows(pattern, run, trip, offset) ==
  /\ Len(pattern.stops) = Cardinality(RowsOf(trip))
  /\ \A r \in RowsOf(trip) :
       LET call == feed.stopTimes[r]
           i    == Cardinality({q \in RowsOf(trip) :
                                  feed.stopTimes[q].seq <= call.seq})
       IN  /\ pattern.stops[i] \in {lookup[s] : s \in StationsOf(call.stop)}
           /\ run.arrivals[i] = call.arrival + offset
           /\ run.departures[i] = call.departure + offset

(* The places of the runs, and those where a run of a trip with that offset
   is packed.                                                              *)
Places == UNION {{p} \X DOMAIN patterns[p].trips : p \in DOMAIN patterns}

Packings(trip, offset) ==
  {x \in Places :
     LET pattern == patterns[x[1]]
         run     == pattern.trips[x[2]]
     IN  /\ run.id[1] = trip
         /\ pattern.route = TripOf(feed, trip).route
         /\ run.service = TripOf(feed, trip).service
         /\ CallsAsRows(pattern, run, trip, offset)}

BaseOf(trip) == feed.stopTimes[FirstRow(trip)].departure

Offsets(trip) ==
  IF IsRepeated(trip) THEN {dep - BaseOf(trip) : dep \in Starts(trip)} ELSE {0}

(* The rows of a trip are in a definite order, no two of its windows ask for
   one departure, and no run is moved out of what an i32 holds, nor is the
   departure after it.  Nothing in the code checks a feed for it.          *)
IsDefinite(trip) ==
  /\ \A r, q \in RowsOf(trip) :
       feed.stopTimes[r].seq = feed.stopTimes[q].seq => r = q
  /\ \A v, w \in RepeatsOf(trip) :
       v # w => StartsIn(feed.frequencies[v]) \cap StartsIn(feed.frequencies[w]) = {}
  /\ \A w \in RepeatsOf(trip) : \A dep \in StartsIn(feed.frequencies[w]) :
       /\ {feed.frequencies[w].headway, dep + feed.frequencies[w].headway} \subseteq Seconds
       /\ \A r \in RowsOf(trip) :
            /\ feed.stopTimes[r].arrival + (dep - BaseOf(trip)) \in Seconds
            /\ feed.stopTimes[r].departure + (dep - BaseOf(trip)) \in Seconds

FeedIsDefinite == \A trip \in TripsToPack(feed) : IsDefinite(trip)

(* In whatever order the HashMap gives the trips: every run that a definite
   feed describes is packed exactly once, on its route, calling as its rows
   say, and nothing else is packed.                                        *)
EveryRunOnce ==
  pc = "done" /\ FeedIsDefinite =>
    LET trips == {t \in TripsToPack(feed) : Cardinality(RowsOf(t)) >= 2}
    IN  /\ \A trip \in trips : \A offset \in Offsets(trip) :
             Cardinality(Packings(trip, offset)) = 1
        /\ \A p \in DOMAIN patterns : \A i \in DOMAIN patterns[p].trips :
             \E trip \in trips : \E offset \in Offsets(trip) :
               <<p, i>> \in Packings(trip, offset)

-----------------------------------------------------------------------------
(* The timetable as the searches see it.                                   *)
Packed ==
  [patterns |-> [p \in DOMAIN patterns |->
     [stops |-> patterns[p].stops, rail |-> patterns[p].mode = "rail",
      trips |-> [i \in DOMAIN patterns[p].trips |->
        LET run == patterns[p].trips[i]
        IN  [arrivals |-> run.arrivals, departures |-> run.departures,
             days |-> {d \in Dates : ServiceActive(run.service, d)},
             accessible |-> run.accessible]]]],
   walks |-> Walks]

Search == INSTANCE Timetable WITH
  Stops <- DOMAIN stopIds, Timetables <- {}, Queries <- {}

(* A trip's rows do not go back in time, and no run of it that a window asks
   for begins before midnight or leaves what an i32 holds; neither does the
   departure after its last.  Nothing in the code checks a feed for it.    *)
KeepsTime(f, trip) ==
  LET times   == TimesOf(f, trip)
      windows == {w \in DOMAIN f.frequencies :
                    f.frequencies[w].trip = trip /\ f.frequencies[w].headway > 0}
  IN  /\ \A i \in DOMAIN times :
           0 <= times[i].arrival /\ times[i].arrival <= times[i].departure
      /\ \A i, j \in DOMAIN times :
           i < j => times[i].departure <= times[j].arrival
      /\ \A w \in windows :
           LET window == f.frequencies[w]
           IN  /\ \A i \in DOMAIN times :
                    /\ window.start + (times[i].arrival - times[1].departure) >= 0
                    /\ window.end + (times[i].departure - times[1].departure)
                         <= HalfWord
               /\ window.end + window.headway <= HalfWord

FeedKeepsTime(f) == \A trip \in TripsToPack(f) : KeepsTime(f, trip)

(* What the searches assume of a timetable is what is built of feeds that
   keep time: runs that do, in order of their first departure, between
   stations, and walks both ways, none without the buffer.                 *)
SearchReady ==
  pc = "done" /\ FeedKeepsTime(feed) => Search!WellFormedTimetable(Packed)

-----------------------------------------------------------------------------
(* The calendar, counted from a Monday, 1 January 1900: the days of the
   years before, those of the months before, and those of the month.       *)
LeapYear(y) == y % 4 = 0 /\ (y % 100 # 0 \/ y % 400 = 0)

LeapYearsBefore(y) == {x \in 1900 .. y - 1 : LeapYear(x)}

DaysBeforeMonth(y, m) ==
  <<0, 31, 59, 90, 120, 151, 181, 212, 243, 273, 304, 334>>[m]
    + (IF m > 2 /\ LeapYear(y) THEN 1 ELSE 0)

Weekday(y, m, d) ==
  (365 * (y - 1900) + Cardinality(LeapYearsBefore(y)) + DaysBeforeMonth(y, m)
     + d - 1) % 7

(* A calendar_dates row adds a date to a service or removes it.             *)
Listed(service, date, added) ==
  \E r \in DOMAIN feed.dates : /\ feed.dates[r].service = service
                               /\ feed.dates[r].date = date
                               /\ feed.dates[r].added = added

(* The calendar row of a service, the last one if it has several.           *)
IsCalendarOf(r, service) ==
  /\ feed.calendars[r].service = service
  /\ \A q \in DOMAIN feed.calendars :
       feed.calendars[q].service = service => q <= r

Covers(cal, date) ==
  /\ cal.from <= date /\ date <= cal.to
  /\ Weekday(date \div 10000, (date \div 100) % 100, date % 100) \in cal.weekdays

(* A service runs on the weekdays and in the period of its calendar row, but
   for the dates removed, and on the dates added whatever the weekday: over
   leap days, centuries and the turn of the year, as a calendar on the wall
   has it.                                                                 *)
RunsOnItsDays ==
  pc = "done" =>
    \A date \in Dates, t \in IncludedTrips(feed) :
      LET service == feed.trips[t].service
          regular == \E r \in DOMAIN feed.calendars :
                       IsCalendarOf(r, service) /\ Covers(feed.calendars[r], date)
      IN  ServiceActive(service, date)
            <=> /\ ~Listed(service, date, FALSE)
                /\ Listed(service, date, TRUE) \/ regular
=============================================================================
