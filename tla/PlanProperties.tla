--------------------------- MODULE PlanProperties ---------------------------
(***************************************************************************)
(* What makes the answer to a request right.                               *)
(***************************************************************************)
EXTENDS Plan

Itineraries == [signature : Seq(Lines \X Names \X Names), duration : Nat,
                transfers : Nat, bus : BOOLEAN, depart : Int]

(* Every variable has its type; the answer keeps to its limit.             *)
TypeOK ==
  /\ request \in Requests
  /\ pc \in {"links", "fast", "rail", "rank", "done"}
  /\ next \in Nat
  /\ fastIts \in Seq(Itineraries)
  /\ railIts \in Seq(Itineraries)
  /\ answer \in Seq(Itineraries)
  /\ Len(answer) <= MaxItineraries

(* No two itineraries of an answer ride the same lines between the same
   stops, whichever searches they came from.                               *)
NoTwins ==
  \A i, j \in DOMAIN answer :
    answer[i].signature = answer[j].signature => i = j

(* The fastest comes first, and the limit drops the slowest only: whatever
   is left out is no faster than what is kept, but for the one railway
   itinerary that was given the last place.                                *)
FastestFirst ==
  LET rails == {i \in DOMAIN answer : answer[i] \in ToSet(railIts)}
  IN  /\ \A i, j \in DOMAIN answer :
           i < j => answer[i].duration <= answer[j].duration
      /\ \A it \in ToSet(fastIts \o railIts) \ ToSet(answer) :
           /\ it.duration >= answer[1].duration
           /\ \A i \in DOMAIN answer :
                answer[i].duration <= it.duration \/ rails = {i}

(* When the second search found a railway itinerary the first had not, the
   answer has one of those, however slow; and an answer is led by a bus only
   after the railways were searched, and all they had to offer considered.   *)
RailsConsidered ==
  /\ railIts # <<>> => \E i \in DOMAIN answer : answer[i] \in ToSet(railIts)
  /\ answer # <<>> /\ answer[1].bus =>
       \A i \in DOMAIN request.rail : Itinerary(request.rail[i]).signature \in Seen

(* What becomes of the itineraries of both searches when they are ranked and
   cut: the quick ones stay, and so does a railway alternative.             *)
CutFairly == pc = "done" => FastestFirst /\ RailsConsidered

(* What the docs of MAX_ITINERARIES and plan promise: where the fastest is a
   bus and a railway journey was found, by either search, one is answered. *)
RailAlternativeKept ==
  LET railways == {it \in ToSet(fastIts \o railIts) :
                     ~it.bus /\ it.signature # <<>>}
  IN  pc = "done" /\ FastestHasBus /\ railways # {} =>
        \E i \in DOMAIN answer : answer[i] \in railways
=============================================================================
