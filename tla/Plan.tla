-------------------------------- MODULE Plan --------------------------------
(***************************************************************************)
(* Engine::plan of crates/engine: one request, answered with at most        *)
(* MaxItineraries itineraries out of up to two searches.                   *)
(*                                                                         *)
(* The search of all modes answers first.  Only when the fastest of its    *)
(* itineraries takes a bus is a second search made, of railways alone, to  *)
(* offer an alternative.  Itineraries that ride the same lines between the  *)
(* same stop names are told apart by nothing a reader sees: the first one  *)
(* found stays.  The rest are ranked, cut to the limit, and a railway       *)
(* itinerary of the second search is given the last place if none is left. *)
(*                                                                         *)
(* The searches are the ones of RaptorSearch and RaptorArriveBy; here they  *)
(* are given by their answers: any journeys that keep to the time asked     *)
(* for, dominated ones too, with no bus in a railway search.                *)
(***************************************************************************)
EXTENDS Integers, Sequences, FiniteSetsExt, SequencesExt

CONSTANTS
  Lines,           (* a route's short and long name                        *)
  Names,           (* stop names                                           *)
  MaxItineraries,  (* MAX_ITINERARIES                                      *)
  Requests         (* the requests, each with the answers of its searches  *)

RideLeg == [kind: {"ride"}, line: Lines, bus: BOOLEAN, from: Names, to: Names,
            board: Nat, alight: Nat]

WalkLeg == [kind: {"walk"}, duration: Nat]

Journey == [legs: Seq(RideLeg \cup WalkLeg), arrival: Nat]

IsRide(leg) == leg.kind = "ride"
RidesOf(journey) == SelectSeq(journey.legs, IsRide)

(* journey_departure_s: the first ride less the walks before it; with no
   ride, the arrival.                                                      *)
DepartureOf(journey) ==
  LET legs  == journey.legs
      rides == {i \in DOMAIN legs : IsRide(legs[i])}
      first == Min(rides)
      walks == [i \in 1 .. (first - 1) |-> legs[i].duration]
  IN  IF rides = {} THEN journey.arrival
      ELSE legs[first].board - FoldFunction(+, 0, walks)

AnswerOfSearch(journeys, request) ==
  /\ journeys \in Seq(Journey)
  /\ \A i \in DOMAIN journeys :
       IF request.arriveBy THEN journeys[i].arrival <= request.time
       ELSE journeys[i].arrival >= request.time

TakesBus(journey) ==
  \E i \in DOMAIN journey.legs :
    IsRide(journey.legs[i]) /\ journey.legs[i].bus

(* access and egress: the nearby stops tried on foot, TRUE when a way there
   was found.                                                              *)
ASSUME RequestsAssumption ==
  \A r \in Requests :
    /\ r.access \in Seq(BOOLEAN) /\ r.egress \in Seq(BOOLEAN)
    /\ r.arriveBy \in BOOLEAN /\ r.time \in Nat
    /\ AnswerOfSearch(r.fast, r)
    /\ AnswerOfSearch(r.rail, r)
    /\ \A i \in DOMAIN r.rail : ~TakesBus(r.rail[i])

(* What selecting and summing legs make of a journey has the types it should. *)
ASSUME LegsAssumption ==
  \A r \in Requests : \A journey \in ToSet(r.fast) \cup ToSet(r.rail) :
    RidesOf(journey) \in Seq(RideLeg) /\ DepartureOf(journey) \in Int

ASSUME MaxAssumption == MaxItineraries \in Nat \ {0, 1}

VARIABLES
  request,   (* the request                                                *)
  pc,        (* the journeys of which search are converted: "fast", "rail",
                then "rank" and "done"                                     *)
  next,      (* the journey to convert next                                *)
  fastIts,   (* itineraries of the first search                            *)
  railIts,   (* itineraries of the second that are not among them          *)
  answer     (* the itineraries answered                                   *)

vars == <<request, pc, next, fastIts, railIts, answer>>

-----------------------------------------------------------------------------
(* journey_to_itinerary.  The signature is what itinerary_signature makes of
   the rides; walks do not count.                                          *)
Itinerary(journey) ==
  LET rides  == RidesOf(journey)
      depart == IF request.arriveBy THEN DepartureOf(journey) ELSE request.time
  IN  [signature |-> [i \in DOMAIN rides |->
                        <<rides[i].line, rides[i].from, rides[i].to>>],
       duration  |-> Max({0, journey.arrival - depart}),
       transfers |-> Max({0, Len(rides) - 1}),
       bus       |-> TakesBus(journey),
       depart    |-> depart]

Signatures(its) == {its[i].signature : i \in DOMAIN its}

SeenInThisSearch ==                                        (* a mutant *)
  Signatures(IF pc = "rail" THEN railIts ELSE fastIts)

Seen == Signatures(fastIts) \cup Signatures(railIts)

WithNew(its, it) == IF it.signature \in Seen THEN its ELSE Append(its, it)

FastestFound(its) == its[1]                                (* a mutant *)

(* The first of the itineraries of least duration.                         *)
Fastest(its) ==
  its[Min({i \in DOMAIN its : \A j \in DOMAIN its :
             its[i].duration <= its[j].duration})]

RankedAsFound(its) == its                                  (* a mutant *)

(* sort_by_key by duration, which keeps the order of equal ones.           *)
Ranked(its) ==
  LET rank(i) == Cardinality({j \in DOMAIN its :
                   \/ its[j].duration < its[i].duration
                   \/ its[j].duration = its[i].duration /\ j <= i})
  IN  [n \in DOMAIN its |-> its[CHOOSE i \in DOMAIN its : rank(i) = n]]

-----------------------------------------------------------------------------
Init ==
  /\ request \in Requests
  /\ pc = "links"
  /\ next = 1
  /\ fastIts = <<>>
  /\ railIts = <<>>
  /\ answer = <<>>

Found(candidates) == \E i \in DOMAIN candidates : candidates[i]

(* No stop can be walked to, on either side: nothing to search, no answer. *)
NoLinks ==
  /\ pc = "links"
  /\ ~(Found(request.access) /\ Found(request.egress))
  /\ pc' = "done"
  /\ UNCHANGED <<request, next, fastIts, railIts, answer>>

SearchFast ==
  /\ pc = "links"
  /\ Found(request.access) /\ Found(request.egress)
  /\ pc' = "fast"
  /\ UNCHANGED <<request, next, fastIts, railIts, answer>>

ConvertFast ==
  /\ pc = "fast"
  /\ next \in DOMAIN request.fast
  /\ fastIts' = WithNew(fastIts, Itinerary(request.fast[next]))
  /\ next' = next + 1
  /\ UNCHANGED <<request, pc, railIts, answer>>

FastestHasBus == fastIts # <<>> /\ Fastest(fastIts).bus

(* The second search, when the fastest itinerary takes a bus.              *)
SearchRail ==
  /\ pc = "fast"
  /\ next \notin DOMAIN request.fast
  /\ FastestHasBus
  /\ pc' = "rail"
  /\ next' = 1
  /\ UNCHANGED <<request, fastIts, railIts, answer>>

FastIsEnough ==
  /\ pc = "fast"
  /\ next \notin DOMAIN request.fast
  /\ ~FastestHasBus
  /\ pc' = "rank"
  /\ UNCHANGED <<request, next, fastIts, railIts, answer>>

ConvertRail ==
  /\ pc = "rail"
  /\ next \in DOMAIN request.rail
  /\ railIts' = WithNew(railIts, Itinerary(request.rail[next]))
  /\ next' = next + 1
  /\ UNCHANGED <<request, pc, fastIts, answer>>

RailDone ==
  /\ pc = "rail"
  /\ next \notin DOMAIN request.rail
  /\ pc' = "rank"
  /\ UNCHANGED <<request, next, fastIts, railIts, answer>>

AllRanked == Ranked(Ranked(fastIts) \o Ranked(railIts))

CutNothing(its) == its                                     (* a mutant *)

CutOff(its) ==                                             (* a mutant *)
  IF Len(its) <= MaxItineraries THEN its ELSE SubSeq(its, 1, MaxItineraries)

(* The limit, and the last place for the best railway itinerary.           *)
Cut(its) ==
  LET kept == SubSeq(its, 1, MaxItineraries)
      best == Ranked(railIts)[1]
  IN  IF Len(its) <= MaxItineraries THEN its
      ELSE IF railIts = <<>> \/ best.signature \in Signatures(kept) THEN kept
      ELSE Ranked([kept EXCEPT ![MaxItineraries] = best])

Rank ==
  /\ pc = "rank"
  /\ answer' = Cut(AllRanked)
  /\ pc' = "done"
  /\ UNCHANGED <<request, next, fastIts, railIts>>

Next ==
  \/ NoLinks \/ SearchFast \/ ConvertFast
  \/ SearchRail \/ FastIsEnough \/ ConvertRail \/ RailDone
  \/ Rank

Spec == Init /\ [][Next]_vars
=============================================================================
