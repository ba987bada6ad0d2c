-------------------------- MODULE RaptorProperties --------------------------
(***************************************************************************)
(* What makes a forward RAPTOR search correct.                             *)
(***************************************************************************)
EXTENDS RaptorSearch, Travel

-----------------------------------------------------------------------------
(* Types.                                                                  *)
Labels == [time : 0 .. Inf, parent : Parents]

Answers == [legs : Seq(Legs), arrival : Nat, transfers : Nat]

(* Every variable has its type: what the Rust types of search's locals say. *)
TypeOK ==
  /\ tt \in Timetables
  /\ query \in Queries
  /\ pc \in {"round", "patterns", "scan", "walks", "collect", "trace", "done"}
  /\ rounds \in Seq([Stops -> Labels])
  /\ cur \in [Stops -> Labels]
  /\ best \in [Stops -> 0 .. Inf]
  /\ marked \in SUBSET Stops
  /\ touched \in SUBSET Nat
  /\ scan \in [pattern : Nat, pos : Nat, trip : Nat, from : Nat]
  /\ nextMarked \in SUBSET Stops
  /\ relaxing \in SUBSET Stops
  /\ walked \in SUBSET Stops
  /\ collecting \in Nat
  /\ trace \in [stop : Nat, round : Nat, legs : Seq(Legs)]
  /\ bestSoFar \in Nat
  /\ journeys \in Seq(Answers)

-----------------------------------------------------------------------------
(* A label of round k may rest on: its round's own labels, and those of the
   rounds before it.  from is the label a ride was boarded with.           *)
RideSupports(t, qu, p, s, time, from) ==
  LET pattern == t.patterns[p.pattern]
      trip    == pattern.trips[p.trip]
  IN  /\ p.pattern \in DOMAIN t.patterns
      /\ PatternAllowed(pattern, qu)
      /\ p.trip \in DOMAIN pattern.trips
      /\ Boardable(trip, qu)
      /\ p.board \in DOMAIN pattern.stops
      /\ p.alight \in DOMAIN pattern.stops
      /\ p.board < p.alight
      /\ pattern.stops[p.alight] = s
      /\ trip.arrivals[p.alight] = time
      /\ from.time # Inf
      /\ trip.departures[p.board] >= BoardingReady(from)

Supported(t, qu, before, k, labels, s) ==
  LET label == labels[s]
      p     == label.parent
  IN  \/ label = Unreached
      \/ label = AccessLabels(qu)[s]
      \/ /\ p.kind = "board"
         /\ p.round \in 1 .. (k - 1)
         /\ RideSupports(t, qu, p, s, label.time,
              before[p.round][t.patterns[p.pattern].stops[p.board]])
      \/ /\ p.kind = "transfer"
         /\ <<p.from, s>> \in DOMAIN t.walks
         /\ p.duration = t.walks[<<p.from, s>>]
         /\ labels[p.from].time # Inf
         /\ labels[p.from].time + p.duration <= label.time

(* Every label of every round, and of the round under way, can be explained:
   it is unreached, an access walk, a ride on a trip this query may board
   that leaves after the label of an earlier round is ready, or a transfer
   edge from a label of its own round that is early enough.  This is what
   lets reconstruct follow parents without checking anything, across labels
   that were copied from round to round and overwritten since.             *)
LabelsSupported ==
  /\ \A k \in DOMAIN rounds, s \in Stops :
       Supported(tt, query, rounds, k, rounds[k], s)
  /\ \A s \in Stops : Supported(tt, query, rounds, K + 1, cur, s)

(* The pruning bound of the scan never lags: no label, of any round or of
   the one under way, is earlier than best says, except those improved since
   the last commit; between rounds it is exactly the labels of the last
   round, which are the earliest of all rounds.                            *)
BestIsEarliest ==
  /\ \A k \in DOMAIN rounds, s \in Stops : best[s] <= rounds[k][s].time
  /\ \A s \in Stops : cur[s].time <= best[s]
  /\ pc \notin {"patterns", "scan", "walks"} =>
       best = Times(rounds[Len(rounds)])

-----------------------------------------------------------------------------
(* A label as an arrival of the reference, within n rides.                 *)
AsArrival(label, s, n) ==
  Arrival(s, label.time,
          CASE label.parent.kind = "board"    -> "ride"
            [] label.parent.kind = "transfer" -> "walk"
            [] OTHER                          -> "access", n)

ArrivalsOf(labels, n) ==
  {AsArrival(labels[s], s, n) : s \in {r \in Stops : labels[r].time # Inf}}

RidesKept(k) ==
  \A a \in ArrivalsOf(rounds[k], k - 1) :
    \A r \in RidesFrom(tt, query, a) : rounds[k + 1][r.stop].time <= r.time

WalksKept(k) ==
  \A s \in Stops :
    rounds[k][s].parent.kind = "board" /\ rounds[k][s].parent.round = k - 1 =>
      \A w \in WalksFrom(tt, AsArrival(rounds[k][s], s, k - 1)) :
        rounds[k][w.stop].time <= w.time

(* Marking loses nothing: whatever ride any label of a finished round allows,
   on any trip of any pattern, the next round arrives no later than it; and
   so, when the rounds stop early for want of improvements, no further round
   could have improved.  Only patterns touched by a marked stop are scanned,
   from their first marked position, with one trip on board at a time, the
   first in the list that is late enough: where trips overtake each other, or
   leave together and do not arrive together, that does lose rides.  A stop
   that a ride of a round reached was in any case walked on from in that round. *)
NothingMissed ==
  /\ FirstOutFirstIn(tt) => \A k \in 1 .. (Len(rounds) - 1) : RidesKept(k)
  /\ \A k \in DOMAIN rounds : WalksKept(k)

-----------------------------------------------------------------------------
(* The journeys trade rides for time: each arrives earlier than the one
   before and takes more rides to do so, so none dominates another.  It is
   half of what the search's doc comment promises.                          *)
JourneysTradeOff ==
  \A i, j \in DOMAIN journeys :
    i < j => /\ journeys[i].arrival > journeys[j].arrival
             /\ RideCount(journeys[i].legs) < RideCount(journeys[j].legs)

(* The trade is fair in every timetable whose trips keep their order: a round
   finds a journey only with a ride for each round before it.  Where trips
   overtake each other a round may catch a trip that an earlier one missed,
   with another on board, and find a better journey of no more rides.       *)
RidesBuyTime == FirstOutFirstIn(tt) => JourneysTradeOff

(* Every journey answered can be travelled as it stands, from the query's
   departure time, and arrives by its arrival_s.                            *)
JourneysFeasible ==
  \A n \in DOMAIN journeys :
    \E i \in DOMAIN query.access, j \in DOMAIN query.egress :
      Feasible(tt, query, journeys[n].legs, query.access[i], query.egress[j],
               query.time, journeys[n].arrival)

(* What the search's doc comment promises: for every number of rides within
   the rounds, the answer holds a journey as early as the earliest one.    *)
ParetoOptimal ==
  pc = "done" =>
    \A n \in 0 .. query.maxRounds :
      LET offered == {journeys[i].arrival : i \in
                        {j \in DOMAIN journeys : RideCount(journeys[j].legs) <= n}}
      IN  (IF offered = {} THEN Inf ELSE Min(offered))
            <= Earliest(query, Reach(tt, query)[n], Inf)

(* The promise kept: it holds of every timetable without walks between stops
   (a walk is the only label that hides a slower one that is ready sooner)
   whose trips keep their order.                                            *)
ParetoWithoutWalks ==
  DOMAIN tt.walks = {} /\ FirstOutFirstIn(tt) => ParetoOptimal

(* The comment on footpath relaxation: one walking hop, never a chain.  The
   legs walk to a stop and at once from there to another.                  *)
NoChainedTransfers ==
  \A n \in DOMAIN journeys :
    LET legs == journeys[n].legs
    IN  \A i \in 1 .. (Len(legs) - 1) :
          ~IsRide(legs[i]) /\ ~IsRide(legs[i + 1])
            => legs[i].stop = legs[i + 1].stop

-----------------------------------------------------------------------------
TracedTime == rounds[trace.round][trace.stop].time

(* Tracing back always goes back: to an earlier label, or at the same time
   to an earlier round.  So it ends, whatever was overwritten meanwhile.   *)
TraceGoesBack ==
  [][pc = "trace" /\ pc' = "trace" =>
       \/ TracedTime' < TracedTime
       \/ TracedTime' = TracedTime /\ trace'.round < trace.round]_vars

(* The search answers: it has no loop that a timetable can keep it in.     *)
Terminates == <>(pc = "done")

-----------------------------------------------------------------------------
(* The labels of the finished rounds and of the one under way, as arrivals. *)
Known ==
  (UNION {ArrivalsOf(rounds[k], k - 1) : k \in DOMAIN rounds})
    \cup (IF pc \in {"patterns", "scan", "walks"} THEN ArrivalsOf(cur, K) ELSE {})

Arrivals == INSTANCE KnownArrivals WITH known <- Known

(* The search never invents an arrival: each label it writes is one trip or
   one walk away from a label it holds in that very step, with the number of
   rides that its round counts.                                            *)
ImplementsKnownArrivals == Arrivals!KnownSpec
=============================================================================
