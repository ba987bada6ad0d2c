------------------------------- MODULE MCBuild -------------------------------
(***************************************************************************)
(* TimetableBuild on small feeds: a station with two platforms, before or  *)
(* after them in its table, and one with a part of its own; two routes of  *)
(* the same stations, a bus, a trip of one stop; rows out of order; and a  *)
(* trip repeated in windows that end with a departure, just after one,     *)
(* before they begin, or have no headway; or so early that its first call  *)
(* is before midnight.                                                     *)
(***************************************************************************)
EXTENDS BuildProperties

Stop(id, parent, place) == [id |-> id, parent |-> parent, place |-> place]
Route(id, mode) == [id |-> id, mode |-> mode]
Trip(id, route, service) ==
  [id |-> id, route |-> route, service |-> service, accessible |-> TRUE]
Call(trip, stop, seq, time, dwell) ==
  [trip |-> trip, stop |-> stop, seq |-> seq, arrival |-> time,
   departure |-> time + dwell]
Repeat(trip, start, end, headway) ==
  [trip |-> trip, start |-> start, end |-> end, headway |-> headway]

A == Stop("A", {}, 0)
A1 == Stop("A1", {"A"}, 0)
A2 == Stop("A2", {"A"}, 6)
B == Stop("B", {}, 20)
C == Stop("C", {}, 30)

StopTables == {<<A, A1, A2, B, C>>, <<A1, B, A, C, A2>>, <<C, A2, A1, B>>}

Routes == <<Route("R", "rail"), Route("Q", "rail"), Route("bus", "bus"),
            Route("ferry", "other")>>

Trips == <<Trip(1, "R", "daily"), Trip(2, "R", "extra"), Trip(3, "Q", "daily"),
           Trip(4, "R", "none"), Trip(5, "bus", "daily"), Trip(6, "ferry", "daily"),
           Trip(7, "R", "daily")>>

Calls(first, second) ==
  <<Call(2, "B", 7, 15, 2), Call(1, first, 1, 5, 1), Call(1, "B", 3, 9, 1),
    Call(2, "A1", 2, 4, 0), Call(3, second, 0, 6, 0), Call(3, "B", 1, 8, 0),
    Call(4, "A2", 5, 10, 2), Call(4, "B", 6, 16, 0), Call(1, "C", 4, 12, 0),
    Call(2, "C", 9, 20, 0), Call(5, "C", 1, 7, 1), Call(5, "A", 2, 9, 0),
    Call(6, "A", 1, 1, 1), Call(6, "B", 2, 3, 0), Call(7, "A", 1, 1, 0)>>

Frequencies ==
  {<<Repeat(4, 10, 16, 3)>>, <<Repeat(4, 20, 27, 3), Repeat(4, 5, 6, 100)>>,
   <<Repeat(4, 9, 9, 5), Repeat(4, 1, 30, 0), Repeat(4, 30, 34, 2)>>, <<>>,
   <<Repeat(4, 1, 5, 3)>>}

Calendars ==
  <<[service |-> "daily", weekdays |-> 0 .. 4, from |-> 20240101, to |-> 20250301]>>
DateRows ==
  <<[service |-> "extra", date |-> 20240301, added |-> TRUE],
    [service |-> "daily", date |-> 20240229, added |-> FALSE],
    [service |-> "daily", date |-> 20250301, added |-> TRUE]>>

Feed(stops, calls, frequencies) ==
  [stops |-> stops, routes |-> Routes, trips |-> Trips, stopTimes |-> calls,
   frequencies |-> frequencies, calendars |-> Calendars, dates |-> DateRows]

WholeFeeds ==
  {Feed(stops, Calls(x[1], x[2]), frequencies) :
     <<stops, x, frequencies>> \in
       StopTables \X {<<"A", "C">>, <<"A1", "A1">>} \X Frequencies}

(* A call at a stop that no row declares.                                  *)
Dangling == {Feed(<<A, A1, B, C>>, Calls("A9", "A1"), <<>>)}

(* Part of a platform, in both orders.                                     *)
E == Stop("E", {"A1"}, 3)
BoardingAreas ==
  {Feed(stops, Calls("E", "A1"), <<>>) :
     stops \in {<<A, A1, A2, E, B, C>>, <<E, A1, A, A2, B, C>>}}

MCFeeds == WholeFeeds \cup Dangling \cup BoardingAreas
(* A leap day and its neighbours, weekends, a new year, a common February.  *)
MCDates == {20240228, 20240229, 20240301, 20240302, 20241231, 20250101,
            20250112, 20000229, 20250228, 20250301, 20250302, 20280301, 21000301}
=============================================================================
