--------------------------- MODULE FareProperties ---------------------------
(***************************************************************************)
(* What makes the price of a journey right.                                *)
(***************************************************************************)
EXTENDS Fares

Tickets == [from : Nat, to : Nat, fare : FareIds]

(* Every variable has its type, and the span tried is one of the group: no
   index of total_fare leaves its slice.                                   *)
TypeOK ==
  /\ tariff \in Tariffs
  /\ journey \in Journeys
  /\ pc \in {"scan", "group", "priced", "none"}
  /\ i \in 1 .. Len(journey) + 1
  /\ end \in 0 .. Len(journey)
  /\ j \in 0 .. end
  /\ pc = "group" => i <= j
  /\ tickets \in Seq(Tickets)

(* The rides that a state says are paid: all of them once there is a price. *)
PaidUpTo == IF pc = "priced" THEN Len(journey) ELSE i - 1

(* The fares a span could be charged, whichever way ties are broken, all
   allow its changes.                                                      *)
SurelyPaid(a, b) ==
  LET fares == ThroughFare(Model(a), SubSeq(journey, a, b))
  IN  fares # {} /\ \A f \in fares : Permits(Model(a).attributes[f], b - a)

(* Each ride is paid exactly once, in the order of the journey, nothing is
   paid beyond the ride reached, and a price is for all of the journey.  A
   ticket is for consecutive rides of one feed with no walk between them and
   allows the changes it is used for; none could have been for more of its
   group, so a railway's through fare is charged once, not ride by ride.     *)
PaidOnce ==
  /\ \A k \in DOMAIN tickets :
       LET t == tickets[k]
       IN  /\ RideSpan(t.from, t.to)
           /\ Permits(Model(t.from).attributes[t.fare], t.to - t.from)
           /\ t.to < i
           /\ \A b \in (t.to + 1) .. Len(journey) :
                RideSpan(t.from, b) => ~SurelyPaid(t.from, b)
  /\ \A k, l \in DOMAIN tickets : k < l => tickets[k].to < tickets[l].from
  /\ \A r \in DOMAIN journey :
       IsRide(journey[r]) /\ r <= PaidUpTo =>
         \E k \in DOMAIN tickets : r \in tickets[k].from .. tickets[k].to

(* The price asked for each of the rides by itself is one the model has.   *)
PricedAlone(r) ==
  journey[r].feed \in DOMAIN tariff /\ SurelyPaid(r, r)

(* A journey is refused only for a ride that has no fare of its own: wide
   spans tried and given up never cost the journey its price.              *)
RefusedForARide ==
  pc = "none" => \E r \in DOMAIN journey : IsRide(journey[r]) /\ ~PricedAlone(r)
=============================================================================
