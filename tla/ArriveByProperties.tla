------------------------- MODULE ArriveByProperties -------------------------
(***************************************************************************)
(* What makes an arrive-by search correct.                                 *)
(***************************************************************************)
EXTENDS RaptorArriveBy, Travel

AsArrival(label, s, n) ==
  Arrival(s, label.time,
          CASE label.parent.kind = "board"    -> "ride"
            [] label.parent.kind = "transfer" -> "walk"
            [] OTHER                          -> "egress", n)

ArrivalsOf(labels, n) ==
  {AsArrival(labels[s], s, n) : s \in {r \in Stops : labels[r].time # Neg}}

RidesKept(k) ==
  \A a \in ArrivalsOf(rounds[k], k - 1) :
    \A r \in RidesTo(tt, query, a) : rounds[k + 1][r.stop].time >= r.time

WalksKept(k) ==
  \A s \in Stops :
    rounds[k][s].parent.kind = "board" /\ rounds[k][s].parent.round = k - 1 =>
      \A w \in WalksTo(tt, AsArrival(rounds[k][s], s, k - 1)) :
        rounds[k][w.stop].time >= w.time

(* Marking loses nothing going back either: whatever boarding any label of a
   finished round allows, the next round is at that stop no earlier, in a
   timetable whose trips keep their order; and every stop that a ride of a
   round can be boarded at is also walked to.                               *)
NothingMissed ==
  /\ FirstOutFirstIn(tt) => \A k \in 1 .. (Len(rounds) - 1) : RidesKept(k)
  /\ \A k \in DOMAIN rounds : WalksKept(k)

(* When a journey leaves the origin: its walks before the first ride are
   walked just in time for it; a journey of walks only ends at the deadline. *)
LeavesAt(legs) ==
  IF Rides(legs) = {} THEN query.time - SumWalks(legs)
  ELSE LET first == Min(Rides(legs))
       IN  BoardTime(tt, legs[first]) - SumWalks(SubSeq(legs, 1, first - 1))

(* Whoever may walk on after a walk may walk there at once, and in no more
   time.                                                                    *)
WalksClosed(walks) ==
  \A e, f \in DOMAIN walks :
    e[2] = f[1] /\ e[1] # f[2] =>
      /\ <<e[1], f[2]>> \in DOMAIN walks
      /\ walks[<<e[1], f[2]>>] <= walks[e] + walks[f]

(* Every journey can be travelled when it leaves just in time, arrives when
   its arrival_s says, and that is within the deadline.  Each takes more
   rides than the one before where trips keep their order, and leaves later
   where walks are closed.  Elsewhere the label a walk leads to can become a
   later one while the walk's own label stays: the journey then leaves later
   than its round was collected for, and one of more rides, answered after
   it, may leave earlier.                                                   *)
JourneysMeetDeadline ==
  /\ \A n \in DOMAIN journeys :
       /\ journeys[n].arrival <= query.time
       /\ \E i \in DOMAIN query.access, j \in DOMAIN query.egress :
            Feasible(tt, query, journeys[n].legs, query.access[i],
                     query.egress[j], LeavesAt(journeys[n].legs),
                     journeys[n].arrival)
  /\ \A i, j \in DOMAIN journeys :
       i < j => /\ WalksClosed(tt.walks) =>
                     LeavesAt(journeys[i].legs) < LeavesAt(journeys[j].legs)
                /\ FirstOutFirstIn(tt) =>
                     RideCount(journeys[i].legs) < RideCount(journeys[j].legs)

(* The doc of journey_departure_s in otp-engine takes it that a search does
   not answer journeys without a ride: it has their duration be nothing.   *)
EveryJourneyRides == \A n \in DOMAIN journeys : Rides(journeys[n].legs) # {}

(* The search is the mirror image of travelling forwards: with at most n
   rides it leaves exactly at the latest moment from which the brute force,
   going forwards, is at the destination by the deadline.                  *)
LatestDeparture ==
  pc = "done" =>
    \A n \in 0 .. query.maxRounds :
      LET offered == {LeavesAt(journeys[i].legs) : i \in
                        {j \in DOMAIN journeys :
                           RideCount(journeys[j].legs) <= n}}
          inTime  == {d \in Neg .. query.time :
                        LET early == [query EXCEPT !.time = d]
                        IN  Earliest(early, Reach(tt, early)[n], query.time + 1)
                              <= query.time}
      IN  /\ (offered = {}) = (inTime = {})
          /\ offered # {} => Max(offered) = Max(inTime)

(* So it is in every timetable without walks between stops whose trips keep
   their order; else labels can hide each other, as in the forward search.   *)
LatestWithoutWalks ==
  DOMAIN tt.walks = {} /\ FirstOutFirstIn(tt) => LatestDeparture

-----------------------------------------------------------------------------
TracedTime == rounds[trace.round][trace.stop].time

(* Tracing always goes on: to a later label, or at the same time to an
   earlier round.                                                          *)
TraceGoesOn ==
  [][pc = "trace" /\ pc' = "trace" =>
       \/ TracedTime' > TracedTime
       \/ TracedTime' = TracedTime /\ trace'.round < trace.round]_vars
=============================================================================
