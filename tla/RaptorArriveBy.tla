--------------------------- MODULE RaptorArriveBy ---------------------------
(***************************************************************************)
(* Timetable::search_arrive_by of crates/raptor: the same search run back  *)
(* in time, from a deadline at the destination to the latest departures.   *)
(* A label's time is the latest moment to be at its stop, the egress links *)
(* start it, patterns are scanned from their last marked position towards  *)
(* their first, and a trip is alighted from before it is boarded.          *)
(*                                                                         *)
(* rounds[k] is the code's rounds[k - 1]: the first one is round 0.        *)
(***************************************************************************)
EXTENDS Journeys

CONSTANT Neg   (* i64::MIN, the time at a stop not reached                 *)

(* No label of a query, and no departure, is as early as i64::MIN.          *)
ASSUME NegAssumption ==
  /\ Neg \in Int /\ Neg < 0
  /\ \A qu \in Queries : \A j \in DOMAIN qu.egress :
       Neg < qu.time - qu.egress[j].duration
  /\ \A qu \in Queries : \A i \in DOMAIN qu.access :
       /\ Neg < 0 - qu.access[i].duration
       /\ \A j \in DOMAIN qu.egress :
            Neg < qu.time - qu.egress[j].duration - qu.access[i].duration

VARIABLES
  tt,          (* the timetable                                            *)
  query,       (* the query                                                *)
  pc,          (* which loop the search is in                              *)
  rounds,      (* the labels of every finished round                       *)
  cur,         (* the labels of the round under way                        *)
  best,        (* per stop, the latest time of any round                   *)
  marked,      (* stops the round before improved                          *)
  touched,     (* patterns still to scan in this round                     *)
  scan,        (* the pattern being scanned, the position, and the trip
                  on board with the position where it is left              *)
  nextMarked,  (* stops a ride improved in this round                      *)
  relaxing,    (* stops of nextMarked whose walks are still to relax       *)
  walked,      (* stops a walk improved in this round                      *)
  collecting,  (* the round to collect a journey from next                 *)
  trace,       (* the label being traced, and the legs found so far        *)
  departure,   (* the origin's departure of the last journey collected     *)
  journeys     (* the answer                                               *)

vars == <<tt, query, pc, rounds, cur, best, marked, touched, scan, nextMarked,
          relaxing, walked, collecting, trace, departure, journeys>>

-----------------------------------------------------------------------------
Unreached == Label(Neg, NoParent)

(* Round 0: the shortest egress link to each stop, before the deadline.    *)
EgressLabels(qu) ==
  [s \in Stops |->
    IF LinksTo(qu.egress, s) = {} THEN Unreached
    ELSE Label(qu.time - Min({qu.egress[i].duration :
                                i \in LinksTo(qu.egress, s)}), Egress)]

Init ==
  /\ tt \in Timetables
  /\ query \in Queries
  /\ pc = "round"
  /\ rounds = <<EgressLabels(query)>>
  /\ cur = EgressLabels(query)
  /\ best = Times(EgressLabels(query))
  /\ marked = LinkStops(query.egress)
  /\ touched = {}
  /\ scan = NotScanning
  /\ nextMarked = {}
  /\ relaxing = {}
  /\ walked = {}
  /\ collecting = 1
  /\ trace = NotTracing
  /\ departure = Neg
  /\ journeys = <<>>

K == Len(rounds)         (* the index of the round before the one under way *)
Prev == rounds[K]        (* its labels                                      *)

(* The head of the round loop, while rounds are left.                      *)
StartRound ==
  /\ pc = "round"
  /\ K <= query.maxRounds
  /\ pc' = "patterns"
  /\ cur' = Prev
  /\ touched' = Touched(tt, marked)
  /\ nextMarked' = {}
  /\ walked' = {}
  /\ UNCHANGED <<tt, query, rounds, best, marked, scan, relaxing, collecting,
                 trace, departure, journeys>>

(* The round loop is exhausted.                                            *)
LastRoundDone ==
  /\ pc = "round"
  /\ K > query.maxRounds
  /\ pc' = "collect"
  /\ UNCHANGED <<tt, query, rounds, cur, best, marked, touched, scan,
                 nextMarked, relaxing, walked, collecting, trace, departure,
                 journeys>>

(* A rail-only query passes over a bus pattern.                            *)
SkipPattern ==
  /\ pc = "patterns"
  /\ touched # {}
  /\ ~PatternAllowed(tt.patterns[Min(touched)], query)
  /\ touched' = touched \ {Min(touched)}
  /\ UNCHANGED <<tt, query, pc, rounds, cur, best, marked, scan, nextMarked,
                 relaxing, walked, collecting, trace, departure, journeys>>

LastMarkedFromTheStart(pattern) ==                         (* a mutant *)
  Min(MarkedPositions(pattern, marked))

LastMarked(pattern) == Max(MarkedPositions(pattern, marked))

(* Take the next pattern, back from its last marked position.              *)
StartPattern ==
  /\ pc = "patterns"
  /\ touched # {}
  /\ PatternAllowed(tt.patterns[Min(touched)], query)
  /\ pc' = "scan"
  /\ touched' = touched \ {Min(touched)}
  /\ scan' = [pattern |-> Min(touched),
              pos |-> LastMarked(tt.patterns[Min(touched)]),
              trip |-> 0, from |-> 0]
  /\ UNCHANGED <<tt, query, rounds, cur, best, marked, nextMarked, relaxing,
                 walked, collecting, trace, departure, journeys>>

AlightAlwaysBuffered(label) == label.time - Buffer         (* a mutant *)

(* When a traveller must have alighted to go on with this label at a stop:
   Buffer before boarding the next ride there.                             *)
AlightReady(label) ==
  label.time - (IF label.parent.kind = "board" THEN Buffer ELSE 0)

(* The trip to be left at the position being scanned, 0 for none.          *)
Candidate(pattern, stop) ==
  IF Prev[stop].time = Neg THEN 0
  ELSE LatestAlightable(pattern, scan.pos, AlightReady(Prev[stop]), query)

(* Does the candidate reach this position after the trip on board?         *)
IsBetter(pattern, candidate) ==
  /\ candidate # 0
  /\ \/ scan.trip = 0
     \/ pattern.trips[candidate].arrivals[scan.pos]
          > pattern.trips[scan.trip].arrivals[scan.pos]

(* One position of the pattern: board the trip that is left further on if
   that improves the stop, then see whether to leave a later trip here.    *)
ScanPosition ==
  /\ pc = "scan"
  /\ LET pattern   == tt.patterns[scan.pattern]
         stop      == pattern.stops[scan.pos]
         leaves    == pattern.trips[scan.trip].departures[scan.pos]
         improves  == /\ scan.trip # 0
                      /\ leaves > best[stop]
                      /\ leaves > cur[stop].time
         candidate == Candidate(pattern, stop)
         last      == scan.pos = 1
     IN  /\ cur' = IF improves
                   THEN [cur EXCEPT ![stop] =
                           Label(leaves, Board(scan.pattern, scan.trip,
                                               scan.pos, scan.from, K))]
                   ELSE cur
         /\ nextMarked' = IF improves THEN nextMarked \cup {stop}
                          ELSE nextMarked
         /\ scan' = IF last THEN NotScanning
                    ELSE IF IsBetter(pattern, candidate)
                    THEN [scan EXCEPT !.pos = @ - 1, !.trip = candidate,
                                      !.from = scan.pos]
                    ELSE [scan EXCEPT !.pos = @ - 1]
         /\ pc' = IF last THEN "patterns" ELSE "scan"
  /\ UNCHANGED <<tt, query, rounds, best, marked, touched, relaxing, walked,
                 collecting, trace, departure, journeys>>

(* best after the improvements of the round at these stops.                *)
Commit(stops) ==
  [s \in Stops |-> IF s \in stops /\ cur[s].time > best[s]
                   THEN cur[s].time ELSE best[s]]

StartWalksFromMarked ==                                    (* a mutant *)
  /\ pc = "patterns"
  /\ touched = {}
  /\ pc' = "walks"
  /\ best' = Commit(nextMarked)
  /\ relaxing' = marked
  /\ UNCHANGED <<tt, query, rounds, cur, marked, touched, scan, nextMarked,
                 walked, collecting, trace, departure, journeys>>

(* Every pattern is scanned: commit the rides, and walk back from them.    *)
StartWalks ==
  /\ pc = "patterns"
  /\ touched = {}
  /\ pc' = "walks"
  /\ best' = Commit(nextMarked)
  /\ relaxing' = nextMarked
  /\ UNCHANGED <<tt, query, rounds, cur, marked, touched, scan, nextMarked,
                 walked, collecting, trace, departure, journeys>>

(* The stops that walking to s, for its label of this moment, improves.    *)
WalkImproves(s) ==
  {t \in Stops : /\ <<s, t>> \in DOMAIN tt.walks
                 /\ cur[s].time - tt.walks[<<s, t>>] > best[t]
                 /\ cur[s].time - tt.walks[<<s, t>>] > cur[t].time}

(* The walking transfers of the next stop in order.                        *)
RelaxWalks ==
  /\ pc = "walks"
  /\ relaxing # {}
  /\ LET s == Min(relaxing)
     IN  /\ cur' = [t \in Stops |->
                      IF t \in WalkImproves(s)
                      THEN Label(cur[s].time - tt.walks[<<s, t>>],
                                 Transfer(s, tt.walks[<<s, t>>]))
                      ELSE cur[t]]
         /\ walked' = walked \cup WalkImproves(s)
         /\ relaxing' = relaxing \ {s}
  /\ UNCHANGED <<tt, query, pc, rounds, best, marked, touched, scan,
                 nextMarked, collecting, trace, departure, journeys>>

(* Close the round: no improvement at all ends the rounds early.           *)
EndRound ==
  /\ pc = "walks"
  /\ relaxing = {}
  /\ LET improved == nextMarked \cup walked
     IN  /\ best' = Commit(improved)
         /\ rounds' = Append(rounds, cur)
         /\ marked' = IF improved = {} THEN marked ELSE improved
         /\ pc' = IF improved = {} THEN "collect" ELSE "round"
  /\ UNCHANGED <<tt, query, cur, touched, scan, nextMarked, relaxing, walked,
                 collecting, trace, departure, journeys>>

-----------------------------------------------------------------------------
(* Departure from the origin by an access link, with the labels of a
   round.                                                                  *)
DepartOrigin(round, link) == round[link.stop].time - link.duration

UsableAccess(round) ==
  {i \in DOMAIN query.access : round[query.access[i].stop].time # Neg}

(* The access link of the latest departure, the first of the equal ones;
   0 when the round reaches no access stop.                                *)
BestAccess(round) ==
  LET usable == UsableAccess(round)
      latest == {i \in usable : \A j \in usable :
                   DepartOrigin(round, query.access[i])
                     >= DepartOrigin(round, query.access[j])}
  IN  IF usable = {} THEN 0 ELSE Min(latest)

ImprovementOrEqual(round) ==                               (* a mutant *)
  /\ BestAccess(round) # 0
  /\ DepartOrigin(round, query.access[BestAccess(round)]) >= departure

Improvement(round) ==
  /\ BestAccess(round) # 0
  /\ DepartOrigin(round, query.access[BestAccess(round)]) > departure

(* This round leaves no later than those before: no journey.               *)
SkipRound ==
  /\ pc = "collect"
  /\ collecting <= Len(rounds)
  /\ ~Improvement(rounds[collecting])
  /\ collecting' = collecting + 1
  /\ UNCHANGED <<tt, query, pc, rounds, cur, best, marked, touched, scan,
                 nextMarked, relaxing, walked, trace, departure, journeys>>

(* This round leaves later: trace its label forward, from the access walk. *)
StartTrace ==
  /\ pc = "collect"
  /\ collecting <= Len(rounds)
  /\ Improvement(rounds[collecting])
  /\ LET link == query.access[BestAccess(rounds[collecting])]
     IN  /\ departure' = DepartOrigin(rounds[collecting], link)
         /\ trace' = [stop |-> link.stop, round |-> collecting,
                      legs |-> WalkIfAny(link.stop, link.duration)]
  /\ pc' = "trace"
  /\ UNCHANGED <<tt, query, rounds, cur, best, marked, touched, scan,
                 nextMarked, relaxing, walked, collecting, journeys>>

TracedParent == rounds[trace.round][trace.stop].parent

TraceRide ==
  /\ pc = "trace"
  /\ TracedParent.kind = "board"
  /\ LET p == TracedParent
     IN  trace' = [trace EXCEPT
           !.stop = tt.patterns[p.pattern].stops[p.alight],
           !.round = p.round,
           !.legs = Append(@, Ride(p.pattern, p.trip, p.board, p.alight))]
  /\ UNCHANGED <<tt, query, pc, rounds, cur, best, marked, touched, scan,
                 nextMarked, relaxing, walked, collecting, departure,
                 journeys>>

TraceWalkStays ==                                          (* a mutant *)
  /\ pc = "trace"
  /\ TracedParent.kind = "transfer"
  /\ LET p == TracedParent
     IN  trace' = [trace EXCEPT !.legs = @ \o WalkIfAny(p.from, p.duration)]
  /\ UNCHANGED <<tt, query, pc, rounds, cur, best, marked, touched, scan,
                 nextMarked, relaxing, walked, collecting, departure,
                 journeys>>

(* A walk goes to the stop nearer the destination, in the same round.      *)
TraceWalk ==
  /\ pc = "trace"
  /\ TracedParent.kind = "transfer"
  /\ LET p == TracedParent
     IN  trace' = [trace EXCEPT !.stop = p.from,
                                !.legs = @ \o WalkIfAny(p.from, p.duration)]
  /\ UNCHANGED <<tt, query, pc, rounds, cur, best, marked, touched, scan,
                 nextMarked, relaxing, walked, collecting, departure,
                 journeys>>

RideArrival(legs) ==                                       (* a mutant *)
  IF Rides(legs) = {} THEN query.time
  ELSE AlightTime(tt, legs[Max(Rides(legs))])

(* The real arrival: that of the last ride and every walk after it; with no
   ride at all, the deadline.                                              *)
RealArrival(legs) ==
  IF Rides(legs) = {} THEN query.time
  ELSE LET last == Max(Rides(legs))
       IN  AlightTime(tt, legs[last]) + SumWalks(SubSeq(legs, last + 1, Len(legs)))

(* The walk to the destination, by the first egress link of this stop, and
   the journey is complete.                                                *)
EndTrace ==
  /\ pc = "trace"
  /\ TracedParent.kind \notin {"board", "transfer"}
  /\ LET links == LinksTo(query.egress, trace.stop)
         walk  == IF TracedParent.kind = "egress" /\ links # {}
                  THEN WalkIfAny(trace.stop, query.egress[Min(links)].duration)
                  ELSE <<>>
         legs  == trace.legs \o walk
     IN  journeys' = Append(journeys,
           [legs |-> legs, arrival |-> RealArrival(legs),
            transfers |-> Transfers(legs)])
  /\ pc' = "collect"
  /\ collecting' = collecting + 1
  /\ trace' = NotTracing
  /\ UNCHANGED <<tt, query, rounds, cur, best, marked, touched, scan,
                 nextMarked, relaxing, walked, departure>>

Answer ==
  /\ pc = "collect"
  /\ collecting > Len(rounds)
  /\ pc' = "done"
  /\ UNCHANGED <<tt, query, rounds, cur, best, marked, touched, scan,
                 nextMarked, relaxing, walked, collecting, trace, departure,
                 journeys>>

-----------------------------------------------------------------------------
Next ==
  \/ StartRound \/ LastRoundDone
  \/ SkipPattern \/ StartPattern \/ ScanPosition
  \/ StartWalks \/ RelaxWalks \/ EndRound
  \/ SkipRound \/ StartTrace \/ TraceRide \/ TraceWalk \/ EndTrace
  \/ Answer

(* The search is one call on one thread: nothing stops it between steps.   *)
Fairness == WF_vars(Next)

Spec == Init /\ [][Next]_vars /\ Fairness
=============================================================================
