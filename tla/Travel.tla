------------------------------- MODULE Travel -------------------------------
(***************************************************************************)
(* What travelling is, for the timetable and the rules of the code, with   *)
(* no search in it: from being at a stop, which arrivals are one step away *)
(* by any trip or any walk.  It is the reference the searches are checked  *)
(* against, the answer a brute force would give.                           *)
(*                                                                         *)
(* An arrival is at a stop, at a time, by a kind of step ("access",        *)
(* "ride" or "walk"), after at most so many rides.                         *)
(***************************************************************************)
EXTENDS Timetable

Arrival(s, t, kind, n) == [stop |-> s, time |-> t, kind |-> kind, rides |-> n]

(* Who has just alighted needs Buffer before boarding at the same stop; a
   walk already contains it and a first boarding needs none.               *)
ReadyAt(a) == a.time + (IF a.kind = "ride" THEN Buffer ELSE 0)

AccessArrivals(query) ==
  {Arrival(query.access[i].stop, query.time + query.access[i].duration,
           "access", 0) : i \in DOMAIN query.access}

(* Board any trip that leaves after one is ready, alight anywhere later.   *)
RidesFrom(t, query, a) ==
  UNION {LET stops == t.patterns[p].stops
             trips == t.patterns[p].trips
         IN  {Arrival(stops[x[3]], trips[x[1]].arrivals[x[3]], "ride",
                      a.rides + 1) :
                x \in {y \in (DOMAIN trips) \X (DOMAIN stops) \X (DOMAIN stops) :
                         /\ Boardable(trips[y[1]], query)
                         /\ stops[y[2]] = a.stop
                         /\ trips[y[1]].departures[y[2]] >= ReadyAt(a)
                         /\ y[2] < y[3]}} :
         p \in {r \in DOMAIN t.patterns : PatternAllowed(t.patterns[r], query)}}

(* The same going back in time, from having to be at a.stop by a.time: which
   boardings, of any trip that gets there before one must have alighted.   *)
LeaveBy(a) == a.time - (IF a.kind = "ride" THEN Buffer ELSE 0)

RidesTo(t, query, a) ==
  UNION {LET stops == t.patterns[p].stops
             trips == t.patterns[p].trips
         IN  {Arrival(stops[x[2]], trips[x[1]].departures[x[2]], "ride",
                      a.rides + 1) :
                x \in {y \in (DOMAIN trips) \X (DOMAIN stops) \X (DOMAIN stops) :
                         /\ Boardable(trips[y[1]], query)
                         /\ stops[y[3]] = a.stop
                         /\ trips[y[1]].arrivals[y[3]] <= LeaveBy(a)
                         /\ y[2] < y[3]}} :
         p \in {r \in DOMAIN t.patterns : PatternAllowed(t.patterns[r], query)}}

WalksTo(t, a) ==
  {Arrival(e[1], a.time - t.walks[e], "walk", a.rides) :
     e \in {f \in DOMAIN t.walks : f[2] = a.stop}}

WalksFrom(t, a) ==
  {Arrival(e[2], a.time + t.walks[e], "walk", a.rides) :
     e \in {f \in DOMAIN t.walks : f[1] = a.stop}}

-----------------------------------------------------------------------------
(* The arrivals with at most n rides where one walks only after a ride, as
   the search's comment on footpath relaxation says.                       *)
Reach(t, query) ==
  LET reach[n \in 0 .. query.maxRounds] ==
        IF n = 0 THEN AccessArrivals(query)
        ELSE LET rides == UNION {RidesFrom(t, query, a) : a \in reach[n - 1]}
             IN  reach[n - 1] \cup rides \cup UNION {WalksFrom(t, a) : a \in rides}
  IN  reach

(* The earliest arrival at the destination among a set of arrivals.        *)
Earliest(query, arrivals, none) ==
  LET ends == {y[1].time + query.egress[y[2]].duration :
                 y \in {x \in arrivals \X DOMAIN query.egress :
                                 x[1].stop = query.egress[x[2]].stop}}
  IN  IF ends = {} THEN none ELSE Min(ends)
=============================================================================
