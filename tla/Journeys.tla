------------------------------ MODULE Journeys ------------------------------
(***************************************************************************)
(* The labels a RAPTOR search keeps and the journeys it answers with: enum *)
(* Parent, struct Label, enum JourneyLeg and struct Journey of             *)
(* crates/raptor, as both directions of the search use them.               *)
(***************************************************************************)
EXTENDS Timetable

(* enum Parent: how a label was reached.  round is the index of the round
   whose label the ride was boarded (or, going back in time, left) with.   *)
NoParent == [kind |-> "none"]
Access   == [kind |-> "access"]
Egress   == [kind |-> "egress"]
Board(p, t, b, a, k) ==
  [kind |-> "board", pattern |-> p, trip |-> t, board |-> b, alight |-> a,
   round |-> k]
Transfer(s, d) == [kind |-> "transfer", from |-> s, duration |-> d]

Parents ==
  {NoParent, Access, Egress}
    \cup [kind : {"board"}, pattern : Nat, trip : Nat, board : Nat,
          alight : Nat, round : Nat]
    \cup [kind : {"transfer"}, from : Stops, duration : Nat]

Label(t, parent) == [time |-> t, parent |-> parent]

Times(labels) == [s \in Stops |-> labels[s].time]

(* enum JourneyLeg.  A ride is named by pattern, trip and positions: its
   route, trip_id, times and intermediate stops are what the timetable holds
   there.                                                                  *)
Walk(s, d) == [kind |-> "walk", stop |-> s, duration |-> d]
Ride(p, t, b, a) ==
  [kind |-> "ride", pattern |-> p, trip |-> t, board |-> b, alight |-> a]

Legs == [kind : {"walk"}, stop : Stops, duration : Nat]
          \cup [kind : {"ride"}, pattern : Nat, trip : Nat, board : Nat,
                alight : Nat]

(* A walk of no duration is no leg.                                        *)
WalkIfAny(s, d) == IF d > 0 THEN <<Walk(s, d)>> ELSE <<>>

IsRide(leg) == leg.kind = "ride"
Rides(legs) == {i \in DOMAIN legs : IsRide(legs[i])}
RideCount(legs) == Cardinality(Rides(legs))

SumWalks(legs) == FoldFunction(+, 0, [i \in DOMAIN legs |-> legs[i].duration])

TransfersUnsaturated(legs) == RideCount(legs) - 1    (* a mutant *)

(* transfers of a journey: its rides less one, saturating.                 *)
Transfers(legs) == IF RideCount(legs) = 0 THEN 0 ELSE RideCount(legs) - 1

(* A scan of a pattern: its position, the trip on board, and from where.   *)
NotScanning == [pattern |-> 0, pos |-> 0, trip |-> 0, from |-> 0]

(* The label a trace is at, and the legs it has found.                     *)
NotTracing == [stop |-> 0, round |-> 0, legs |-> <<>>]

LinksTo(links, s) == {i \in DOMAIN links : links[i].stop = s}
LinkStops(links) == {links[i].stop : i \in DOMAIN links}

-----------------------------------------------------------------------------
(* Travelling the legs: the stop each one ends at, and the clock after it
   when the first one starts at the time given.                            *)
LegEnd(t, leg) ==
  IF IsRide(leg) THEN t.patterns[leg.pattern].stops[leg.alight] ELSE leg.stop

AlightTime(t, ride) ==
  t.patterns[ride.pattern].trips[ride.trip].arrivals[ride.alight]

BoardTime(t, ride) ==
  t.patterns[ride.pattern].trips[ride.trip].departures[ride.board]

Clock(t, legs, start) ==
  LET clock[i \in 0 .. Len(legs)] ==
        IF i = 0 THEN start
        ELSE IF IsRide(legs[i])
        THEN AlightTime(t, legs[i])
        ELSE clock[i - 1] + legs[i].duration
  IN  clock

(* Can leg i be travelled from where, and when, the legs before it end?    *)
CanTravel(t, query, legs, i, from, clock) ==
  LET leg   == legs[i]
      place == IF i = 1 THEN from ELSE LegEnd(t, legs[i - 1])
      ready == clock[i - 1]
                 + (IF i > 1 /\ IsRide(legs[i - 1]) THEN Buffer ELSE 0)
  IN  IF IsRide(leg)
      THEN LET pattern == t.patterns[leg.pattern]
               trip    == pattern.trips[leg.trip]
           IN  /\ leg.pattern \in DOMAIN t.patterns
               /\ PatternAllowed(pattern, query)
               /\ leg.trip \in DOMAIN pattern.trips
               /\ Boardable(trip, query)
               /\ {leg.board, leg.alight} \subseteq DOMAIN pattern.stops
               /\ leg.board < leg.alight
               /\ pattern.stops[leg.board] = place
               /\ BoardTime(t, leg) >= ready
      ELSE /\ <<place, leg.stop>> \in DOMAIN t.walks
           /\ t.walks[<<place, leg.stop>>] = leg.duration

(* Whoever leaves the origin at start by access link a, takes the legs and
   the egress link e, is at the destination by the time given: the legs
   connect in place and in time, each change at a stop leaves the buffer,
   and each trip runs on the date and may be boarded.                      *)
Feasible(t, query, legs, a, e, start, end) ==
  LET out    == WalkIfAny(a.stop, a.duration)
      in     == WalkIfAny(e.stop, e.duration)
      middle == SubSeq(legs, Len(out) + 1, Len(legs) - Len(in))
      clock  == Clock(t, middle, start + a.duration)
      last   == IF middle = <<>> THEN a.stop ELSE LegEnd(t, middle[Len(middle)])
  IN  /\ legs = out \o middle \o in
      /\ \A i \in DOMAIN middle : CanTravel(t, query, middle, i, a.stop, clock)
      /\ last = e.stop
      /\ clock[Len(middle)] + e.duration <= end
=============================================================================
