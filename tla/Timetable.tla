----------------------------- MODULE Timetable -----------------------------
(***************************************************************************)
(* The data RAPTOR searches: struct Timetable of crates/raptor, packed     *)
(* into patterns (trips that share their stop list) and walking transfers, *)
(* and the query it is searched for.  Nothing here changes state: the two  *)
(* search modules, RaptorSearch and RaptorArriveBy, read it.               *)
(*                                                                         *)
(* Positions and indices count from 1 where the code counts from 0; 0 is   *)
(* the absent index (None).                                                *)
(***************************************************************************)
EXTENDS Integers, Sequences, FiniteSetsExt

CONSTANTS
  Stops,        (* StopIdx: the order of the numbers is the order in which
                   the searches visit marked stops                         *)
  Buffer,       (* DEFAULT_TRANSFER_BUFFER_S                               *)
  Timetables,   (* the timetables to search                                *)
  Queries       (* the queries to answer                                   *)

ASSUME StopsAssumption == Stops \subseteq Nat

ASSUME BufferAssumption == Buffer \in Nat \ {0}

(* One run of a vehicle: its times at each position of its pattern, the
   dates its service runs, and whether wheelchair users are not excluded.  *)
PatternTrip == [arrivals: Seq(Nat), departures: Seq(Nat),
                days: SUBSET Nat, accessible: BOOLEAN]

Pattern == [stops: Seq(Stops), trips: Seq(PatternTrip), rail: BOOLEAN]

StreetLink == [stop: Stops, duration: Nat]

RaptorQuery == [access: Seq(StreetLink), egress: Seq(StreetLink),
                time: Nat, date: Nat, maxRounds: Nat,
                railOnly: BOOLEAN, wheelchair: BOOLEAN]

(* A trip's clock never runs backwards and it serves every position.       *)
TripInOrder(pattern, trip) ==
  /\ Len(trip.arrivals) = Len(pattern.stops)
  /\ Len(trip.departures) = Len(pattern.stops)
  /\ \A i \in DOMAIN trip.arrivals : trip.arrivals[i] <= trip.departures[i]
  /\ \A i, j \in DOMAIN trip.arrivals :
       i < j => trip.departures[i] <= trip.arrivals[j]

(* walks maps a pair of distinct stops to the duration of the transfer
   edge between them; Timetable::build makes every edge in both directions
   and adds Buffer to its walking time.                                    *)
WalksAreTransfers(walks) ==
  /\ DOMAIN walks \subseteq Stops \X Stops
  /\ \A e \in DOMAIN walks :
       /\ walks[e] \in Nat
       /\ walks[e] >= Buffer
       /\ e[1] # e[2]
       /\ <<e[2], e[1]>> \in DOMAIN walks
       /\ walks[<<e[2], e[1]>>] = walks[e]

WellFormedTimetable(t) ==
  /\ t.patterns \in Seq(Pattern)
  /\ \A p \in DOMAIN t.patterns :
       /\ Len(t.patterns[p].stops) >= 2
       /\ \A i \in DOMAIN t.patterns[p].trips :
            TripInOrder(t.patterns[p], t.patterns[p].trips[i])
       /\ \A i, j \in DOMAIN t.patterns[p].trips :
            i < j => t.patterns[p].trips[i].departures[1]
                       <= t.patterns[p].trips[j].departures[1]
  /\ WalksAreTransfers(t.walks)

(* otp-engine lists each nearby stop once, on either side.                 *)
WellFormedQuery(query) ==
  /\ query \in RaptorQuery
  /\ \A i, j \in DOMAIN query.access :
       query.access[i].stop = query.access[j].stop => i = j
  /\ \A i, j \in DOMAIN query.egress :
       query.egress[i].stop = query.egress[j].stop => i = j

ASSUME TimetablesAssumption == \A t \in Timetables : WellFormedTimetable(t)

ASSUME QueriesAssumption == \A query \in Queries : WellFormedQuery(query)

-----------------------------------------------------------------------------
(* May this trip be boarded for this query: its service is active on the
   date and it is not explicitly NotAccessible when a wheelchair needs it. *)
Boardable(trip, query) ==
  /\ query.date \in trip.days
  /\ query.wheelchair => trip.accessible

(* A rail-only query does not board a bus pattern at all.                  *)
PatternAllowed(pattern, query) == query.railOnly => pattern.rail

EarliestOfAnyTrip(pattern, pos, notBefore, query) ==       (* a mutant *)
  LET ok == {i \in DOMAIN pattern.trips :
               pattern.trips[i].departures[pos] >= notBefore}
  IN  IF ok = {} THEN 0 ELSE Min(ok)

(* earliest_catchable_trip: the first trip of the list that leaves position
   pos at notBefore or later, 0 when there is none.                        *)
EarliestCatchable(pattern, pos, notBefore, query) ==
  LET ok == {i \in DOMAIN pattern.trips :
               /\ pattern.trips[i].departures[pos] >= notBefore
               /\ Boardable(pattern.trips[i], query)}
  IN  IF ok = {} THEN 0 ELSE Min(ok)

(* latest_alightable_trip: the last trip of the list that reaches position
   pos at notAfter or earlier, 0 when there is none.                       *)
LatestAlightable(pattern, pos, notAfter, query) ==
  LET ok == {i \in DOMAIN pattern.trips :
               /\ pattern.trips[i].arrivals[pos] <= notAfter
               /\ Boardable(pattern.trips[i], query)}
  IN  IF ok = {} THEN 0 ELSE Max(ok)

(* Positions of a pattern that are in a set of marked stops.               *)
MarkedPositions(pattern, marked) ==
  {pos \in DOMAIN pattern.stops : pattern.stops[pos] \in marked}

(* The patterns that serve one of the marked stops.                        *)
Touched(t, marked) ==
  {p \in DOMAIN t.patterns : MarkedPositions(t.patterns[p], marked) # {}}

(* No trip overtakes another of its pattern: what the comments of
   earliest_catchable_trip and latest_alightable_trip assume.              *)
NoOvertaking(t) ==
  \A p \in DOMAIN t.patterns :
    LET trips == t.patterns[p].trips
    IN  \A i, j \in DOMAIN trips : i < j =>
          \A pos \in DOMAIN trips[i].arrivals :
            /\ trips[i].arrivals[pos] <= trips[j].arrivals[pos]
            /\ trips[i].departures[pos] <= trips[j].departures[pos]

(* Trips that leave a stop together arrive together farther on, and those
   that arrive together left together: what a scan that compares the trip on
   board with another by its time at one stop needs besides.               *)
TiesLast(t) ==
  \A p \in DOMAIN t.patterns :
    LET trips == t.patterns[p].trips
    IN  \A i, j \in DOMAIN trips : \A a, b \in DOMAIN trips[i].arrivals :
          a < b => (trips[i].departures[a] = trips[j].departures[a]
                      <=> trips[i].arrivals[b] = trips[j].arrivals[b])

FirstOutFirstIn(t) == NoOvertaking(t) /\ TiesLast(t)
=============================================================================
