---------------------------- MODULE RaptorSearch ----------------------------
(***************************************************************************)
(* Timetable::search of crates/raptor: the forward RAPTOR search, from a   *)
(* departure time to the earliest arrivals.                                *)
(*                                                                         *)
(* A search answers one query over one timetable, both chosen by Init and  *)
(* never changed.  It runs in rounds; the labels of round k are the        *)
(* arrivals known with at most k rides.  A round scans every pattern that  *)
(* serves a stop marked by the round before, position by position, then    *)
(* relaxes the walking transfers of the stops the rides improved.  At the  *)
(* end the rounds are read from the first to the last, and each strictly   *)
(* better arrival is traced back, leg by leg, into a journey.  One action  *)
(* is one iteration of one of those loops.                                 *)
(*                                                                         *)
(* rounds[k] is the code's rounds[k - 1]: the first one is round 0.        *)
(***************************************************************************)
EXTENDS Journeys

CONSTANT Inf   (* i64::MAX, the arrival of a stop not reached              *)

(* No label of a query reaches i64::MAX: times are i32, durations u32.      *)
ASSUME InfAssumption ==
  /\ Inf \in Nat
  /\ \A qu \in Queries : \A i \in DOMAIN qu.access :
       qu.time + qu.access[i].duration < Inf

VARIABLES
  tt,          (* the timetable                                            *)
  query,       (* the query                                                *)
  pc,          (* which loop the search is in                              *)
  rounds,      (* the labels of every finished round                       *)
  cur,         (* the labels of the round under way                        *)
  best,        (* per stop, the earliest arrival of any round              *)
  marked,      (* stops the round before improved                          *)
  touched,     (* patterns still to scan in this round                     *)
  scan,        (* the pattern being scanned, the position, and the trip
                  on board with the position where it was boarded          *)
  nextMarked,  (* stops a ride improved in this round                      *)
  relaxing,    (* stops of nextMarked whose walks are still to relax       *)
  walked,      (* stops a walk improved in this round                      *)
  collecting,  (* the round to collect a journey from next                 *)
  trace,       (* the label being traced back, and the legs found so far   *)
  bestSoFar,   (* the arrival of the last journey collected                *)
  journeys     (* the answer                                               *)

vars == <<tt, query, pc, rounds, cur, best, marked, touched, scan, nextMarked,
          relaxing, walked, collecting, trace, bestSoFar, journeys>>

-----------------------------------------------------------------------------
Unreached == Label(Inf, NoParent)

(* Round 0: the shortest access link to each stop.                         *)
AccessLabels(qu) ==
  [s \in Stops |->
    IF LinksTo(qu.access, s) = {} THEN Unreached
    ELSE Label(qu.time + Min({qu.access[i].duration :
                                i \in LinksTo(qu.access, s)}), Access)]

Init ==
  /\ tt \in Timetables
  /\ query \in Queries
  /\ pc = "round"
  /\ rounds = <<AccessLabels(query)>>
  /\ cur = AccessLabels(query)
  /\ best = Times(AccessLabels(query))
  /\ marked = LinkStops(query.access)
  /\ touched = {}
  /\ scan = NotScanning
  /\ nextMarked = {}
  /\ relaxing = {}
  /\ walked = {}
  /\ collecting = 1
  /\ trace = NotTracing
  /\ bestSoFar = Inf
  /\ journeys = <<>>

K == Len(rounds)         (* the index of the round before the one under way *)
Prev == rounds[K]        (* its labels                                      *)

(* The head of the round loop, while rounds are left.                      *)
StartRound ==
  /\ pc = "round"
  /\ K <= query.maxRounds
  /\ pc' = "patterns"
  /\ cur' = Prev
  /\ touched' = Touched(tt, marked)
  /\ nextMarked' = {}
  /\ walked' = {}
  /\ UNCHANGED <<tt, query, rounds, best, marked, scan, relaxing, collecting,
                 trace, bestSoFar, journeys>>

(* The round loop is exhausted.                                            *)
LastRoundDone ==
  /\ pc = "round"
  /\ K > query.maxRounds
  /\ pc' = "collect"
  /\ UNCHANGED <<tt, query, rounds, cur, best, marked, touched, scan,
                 nextMarked, relaxing, walked, collecting, trace, bestSoFar,
                 journeys>>

SkipPatternForgetsToPop ==                                 (* a mutant *)
  /\ pc = "patterns"
  /\ touched # {}
  /\ ~PatternAllowed(tt.patterns[Min(touched)], query)
  /\ UNCHANGED vars

(* A rail-only query passes over a bus pattern.                            *)
SkipPattern ==
  /\ pc = "patterns"
  /\ touched # {}
  /\ ~PatternAllowed(tt.patterns[Min(touched)], query)
  /\ touched' = touched \ {Min(touched)}
  /\ UNCHANGED <<tt, query, pc, rounds, cur, best, marked, scan, nextMarked,
                 relaxing, walked, collecting, trace, bestSoFar, journeys>>

FirstMarkedFromTheEnd(pattern) ==                          (* a mutant *)
  Max(MarkedPositions(pattern, marked))

FirstMarked(pattern) == Min(MarkedPositions(pattern, marked))

(* Take the next pattern, from its first marked position.                  *)
StartPattern ==
  /\ pc = "patterns"
  /\ touched # {}
  /\ PatternAllowed(tt.patterns[Min(touched)], query)
  /\ pc' = "scan"
  /\ touched' = touched \ {Min(touched)}
  /\ scan' = [pattern |-> Min(touched),
              pos |-> FirstMarked(tt.patterns[Min(touched)]),
              trip |-> 0, from |-> 0]
  /\ UNCHANGED <<tt, query, rounds, cur, best, marked, nextMarked, relaxing,
                 walked, collecting, trace, bestSoFar, journeys>>

BoardingAlwaysBuffered(label) == label.time + Buffer       (* a mutant *)
BoardingNeverBuffered(label) == label.time                 (* a mutant *)

(* When a traveller whose label at a stop is this one can board there:
   a stay at the stop after a ride costs Buffer, a walk already did.       *)
BoardingReady(label) ==
  label.time + (IF label.parent.kind = "board" THEN Buffer ELSE 0)

CandidateOfThisRound(pattern, stop) ==                     (* a mutant *)
  IF cur[stop].time = Inf THEN 0
  ELSE EarliestCatchable(pattern, scan.pos, BoardingReady(cur[stop]), query)

(* The trip to catch at the position being scanned, 0 for none.            *)
Candidate(pattern, stop) ==
  IF Prev[stop].time = Inf THEN 0
  ELSE EarliestCatchable(pattern, scan.pos, BoardingReady(Prev[stop]), query)

(* Does the candidate leave this position before the trip on board?        *)
IsBetter(pattern, candidate) ==
  /\ candidate # 0
  /\ \/ scan.trip = 0
     \/ pattern.trips[candidate].departures[scan.pos]
          < pattern.trips[scan.trip].departures[scan.pos]

(* One position of the pattern: alight from the trip on board if that
   improves the stop, then see whether to change to an earlier trip.       *)
ScanPosition ==
  /\ pc = "scan"
  /\ LET pattern   == tt.patterns[scan.pattern]
         stop      == pattern.stops[scan.pos]
         arrival   == pattern.trips[scan.trip].arrivals[scan.pos]
         improves  == /\ scan.trip # 0
                      /\ arrival < best[stop]
                      /\ arrival < cur[stop].time
         candidate == Candidate(pattern, stop)
         last      == scan.pos = Len(pattern.stops)
     IN  /\ cur' = IF improves
                   THEN [cur EXCEPT ![stop] =
                           Label(arrival, Board(scan.pattern, scan.trip,
                                                scan.from, scan.pos, K))]
                   ELSE cur
         /\ nextMarked' = IF improves THEN nextMarked \cup {stop}
                          ELSE nextMarked
         /\ scan' = IF last THEN NotScanning
                    ELSE IF IsBetter(pattern, candidate)
                    THEN [scan EXCEPT !.pos = @ + 1, !.trip = candidate,
                                      !.from = scan.pos]
                    ELSE [scan EXCEPT !.pos = @ + 1]
         /\ pc' = IF last THEN "patterns" ELSE "scan"
  /\ UNCHANGED <<tt, query, rounds, best, marked, touched, relaxing, walked,
                 collecting, trace, bestSoFar, journeys>>

CommitMarked(stops) ==                                     (* a mutant *)
  [s \in Stops |-> IF s \in marked /\ cur[s].time < best[s]
                   THEN cur[s].time ELSE best[s]]

(* best after the improvements of the round at these stops.                *)
Commit(stops) ==
  [s \in Stops |-> IF s \in stops /\ cur[s].time < best[s]
                   THEN cur[s].time ELSE best[s]]

(* Every pattern is scanned: commit the rides, and walk on from them.      *)
StartWalks ==
  /\ pc = "patterns"
  /\ touched = {}
  /\ pc' = "walks"
  /\ best' = Commit(nextMarked)
  /\ relaxing' = nextMarked
  /\ UNCHANGED <<tt, query, rounds, cur, marked, touched, scan, nextMarked,
                 walked, collecting, trace, bestSoFar, journeys>>

WalkImprovesNoRide(s) ==                                   (* a mutant *)
  {t \in Stops \ nextMarked :
     /\ <<s, t>> \in DOMAIN tt.walks
     /\ cur[s].time + tt.walks[<<s, t>>] < best[t]
     /\ cur[s].time + tt.walks[<<s, t>>] < cur[t].time}

(* The stops that walking from s, with its label of this moment, improves. *)
WalkImproves(s) ==
  {t \in Stops : /\ <<s, t>> \in DOMAIN tt.walks
                 /\ cur[s].time + tt.walks[<<s, t>>] < best[t]
                 /\ cur[s].time + tt.walks[<<s, t>>] < cur[t].time}

(* The walking transfers of the next stop in order.                        *)
RelaxWalks ==
  /\ pc = "walks"
  /\ relaxing # {}
  /\ LET s == Min(relaxing)
     IN  /\ cur' = [t \in Stops |->
                      IF t \in WalkImproves(s)
                      THEN Label(cur[s].time + tt.walks[<<s, t>>],
                                 Transfer(s, tt.walks[<<s, t>>]))
                      ELSE cur[t]]
         /\ walked' = walked \cup WalkImproves(s)
         /\ relaxing' = relaxing \ {s}
  /\ UNCHANGED <<tt, query, pc, rounds, best, marked, touched, scan,
                 nextMarked, collecting, trace, bestSoFar, journeys>>

(* Close the round: no improvement at all ends the rounds early.           *)
EndRound ==
  /\ pc = "walks"
  /\ relaxing = {}
  /\ LET improved == nextMarked \cup walked
     IN  /\ best' = Commit(improved)
         /\ rounds' = Append(rounds, cur)
         /\ marked' = IF improved = {} THEN marked ELSE improved
         /\ pc' = IF improved = {} THEN "collect" ELSE "round"
  /\ UNCHANGED <<tt, query, cur, touched, scan, nextMarked, relaxing, walked,
                 collecting, trace, bestSoFar, journeys>>

-----------------------------------------------------------------------------
(* Arrival at the destination by an egress link, from the labels of a
   round.                                                                  *)
Total(round, link) == round[link.stop].time + link.duration

UsableEgress(round) ==
  {i \in DOMAIN query.egress : round[query.egress[i].stop].time # Inf}

(* The egress link of the earliest arrival, the first of the equal ones;
   0 when the round reaches no egress stop.                                *)
BestEgress(round) ==
  LET usable == UsableEgress(round)
      least  == {i \in usable : \A j \in usable :
                   Total(round, query.egress[i])
                     <= Total(round, query.egress[j])}
  IN  IF usable = {} THEN 0 ELSE Min(least)

ImprovementOrEqual(round) ==                               (* a mutant *)
  /\ BestEgress(round) # 0
  /\ Total(round, query.egress[BestEgress(round)]) <= bestSoFar

Improvement(round) ==
  /\ BestEgress(round) # 0
  /\ Total(round, query.egress[BestEgress(round)]) < bestSoFar

(* This round arrives no earlier than those before: no journey.            *)
SkipRound ==
  /\ pc = "collect"
  /\ collecting <= Len(rounds)
  /\ ~Improvement(rounds[collecting])
  /\ collecting' = collecting + 1
  /\ UNCHANGED <<tt, query, pc, rounds, cur, best, marked, touched, scan,
                 nextMarked, relaxing, walked, trace, bestSoFar, journeys>>

(* This round arrives earlier: trace its label back, from the egress walk. *)
StartTrace ==
  /\ pc = "collect"
  /\ collecting <= Len(rounds)
  /\ Improvement(rounds[collecting])
  /\ LET link == query.egress[BestEgress(rounds[collecting])]
     IN  /\ bestSoFar' = Total(rounds[collecting], link)
         /\ trace' = [stop |-> link.stop, round |-> collecting,
                      legs |-> WalkIfAny(link.stop, link.duration)]
  /\ pc' = "trace"
  /\ UNCHANGED <<tt, query, rounds, cur, best, marked, touched, scan,
                 nextMarked, relaxing, walked, collecting, journeys>>

TracedParent == rounds[trace.round][trace.stop].parent

TraceRide ==
  /\ pc = "trace"
  /\ TracedParent.kind = "board"
  /\ LET p == TracedParent
     IN  trace' = [trace EXCEPT
           !.stop = tt.patterns[p.pattern].stops[p.board],
           !.round = p.round,
           !.legs = <<Ride(p.pattern, p.trip, p.board, p.alight)>> \o @]
  /\ UNCHANGED <<tt, query, pc, rounds, cur, best, marked, touched, scan,
                 nextMarked, relaxing, walked, collecting, bestSoFar,
                 journeys>>

TraceWalkStays ==                                          (* a mutant *)
  /\ pc = "trace"
  /\ TracedParent.kind = "transfer"
  /\ trace' = [trace EXCEPT
       !.legs = WalkIfAny(trace.stop, TracedParent.duration) \o @]
  /\ UNCHANGED <<tt, query, pc, rounds, cur, best, marked, touched, scan,
                 nextMarked, relaxing, walked, collecting, bestSoFar,
                 journeys>>

(* A walk stays in the round it is traced in.                              *)
TraceWalk ==
  /\ pc = "trace"
  /\ TracedParent.kind = "transfer"
  /\ trace' = [trace EXCEPT
       !.stop = TracedParent.from,
       !.legs = WalkIfAny(trace.stop, TracedParent.duration) \o @]
  /\ UNCHANGED <<tt, query, pc, rounds, cur, best, marked, touched, scan,
                 nextMarked, relaxing, walked, collecting, bestSoFar,
                 journeys>>

(* The walk from the origin, by the first access link to this stop, and the
   journey is complete.                                                    *)
EndTrace ==
  /\ pc = "trace"
  /\ TracedParent.kind \notin {"board", "transfer"}
  /\ LET links == LinksTo(query.access, trace.stop)
         walk  == IF TracedParent.kind = "access" /\ links # {}
                  THEN WalkIfAny(trace.stop, query.access[Min(links)].duration)
                  ELSE <<>>
         legs  == walk \o trace.legs
     IN  journeys' = Append(journeys,
           [legs |-> legs, arrival |-> bestSoFar,
            transfers |-> Transfers(legs)])
  /\ pc' = "collect"
  /\ collecting' = collecting + 1
  /\ trace' = NotTracing
  /\ UNCHANGED <<tt, query, rounds, cur, best, marked, touched, scan,
                 nextMarked, relaxing, walked, bestSoFar>>

Answer ==
  /\ pc = "collect"
  /\ collecting > Len(rounds)
  /\ pc' = "done"
  /\ UNCHANGED <<tt, query, rounds, cur, best, marked, touched, scan,
                 nextMarked, relaxing, walked, collecting, trace, bestSoFar,
                 journeys>>

-----------------------------------------------------------------------------
Next ==
  \/ StartRound \/ LastRoundDone
  \/ SkipPattern \/ StartPattern \/ ScanPosition
  \/ StartWalks \/ RelaxWalks \/ EndRound
  \/ SkipRound \/ StartTrace \/ TraceRide \/ TraceWalk \/ EndTrace
  \/ Answer

(* The search is one call on one thread: nothing stops it between steps.   *)
Fairness == WF_vars(Next)

Spec == Init /\ [][Next]_vars /\ Fairness
=============================================================================
