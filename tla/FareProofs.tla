----------------------------- MODULE FareProofs -----------------------------
(***************************************************************************)
(* Proofs about the price of a journey, for all tariffs and journeys.      *)
(***************************************************************************)
EXTENDS FareProperties, FiniteSetTheorems, TLAPS

(* The group under way is all of it that can be paid together, and the wider
   spans that were given up from its first unpaid ride on are not for sale.  *)
GroupInv ==
  pc = "group" =>
    /\ i <= j
    /\ RideSpan(i, end)
    /\ journey[i].feed \in DOMAIN tariff
    /\ \A b \in (end + 1) .. Len(journey) : ~RideSpan(i, b)
    /\ \A b \in (j + 1) .. end : ~SurelyPaid(i, b)

Fits(t) ==
  /\ RideSpan(t.from, t.to)
  /\ Permits(Model(t.from).attributes[t.fare], t.to - t.from)
  /\ t.to < i
  /\ \A b \in (t.to + 1) .. Len(journey) :
       RideSpan(t.from, b) => ~SurelyPaid(t.from, b)

TicketInv ==
  /\ \A k \in DOMAIN tickets : Fits(tickets[k])
  /\ \A k, l \in DOMAIN tickets : k < l => tickets[k].to < tickets[l].from

PaidInv ==
  \A r \in DOMAIN journey :
    IsRide(journey[r]) /\ r < i =>
      \E k \in DOMAIN tickets : r \in tickets[k].from .. tickets[k].to

EndInv ==
  /\ pc = "priced" => i = Len(journey) + 1
  /\ RefusedForARide

FareInv == TypeOK /\ GroupInv /\ TicketInv /\ PaidInv /\ EndInv

-----------------------------------------------------------------------------
(* A set of bounded naturals has a greatest element, which is what Max is.  *)
LEMMA MaxOfRange ==
  ASSUME NEW n \in Nat, NEW S \in SUBSET (0 .. n), S # {}
  PROVE  Max(S) \in S /\ \A y \in S : Max(S) >= y
<1> DEFINE T == {m .. n : m \in S}
<1>1. T \subseteq FiniteSubsetsOf(Nat)
  <2>1. \A m \in S : IsFiniteSet(m .. n)
    BY FS_Interval
  <2> QED BY <2>1 DEF FiniteSubsetsOf
<1>2. PICK x \in T : \A y \in T : <<y, x>> \notin StrictSubsetOrdering(Nat)
  <2>1. T # {}
    OBVIOUS
  <2> QED BY <1>1, <2>1, WFMin, FS_StrictSubsetOrderingWellFounded
<1>3. PICK m \in S : x = m .. n
  OBVIOUS
<1>4. ASSUME NEW k \in S, m < k
      PROVE  FALSE
  <2>1. (k .. n) \in T
    OBVIOUS
  <2>2. (k .. n) \subseteq (m .. n) /\ (k .. n) # (m .. n)
    BY <1>4
  <2> QED BY <1>1, <1>2, <1>3, <2>1, <2>2 DEF StrictSubsetOrdering, FiniteSubsetsOf
<1>5. \A k \in S : m >= k
  BY <1>4
<1> QED BY <1>5 DEF Max

LEMMA JourneyFacts ==
  ASSUME TypeOK
  PROVE  /\ Len(journey) \in Nat
         /\ DOMAIN journey = 1 .. Len(journey)
         /\ i \in Nat /\ j \in Nat /\ end \in Nat
         /\ \A k \in DOMAIN journey : IsRide(journey[k]) => journey[k].feed \in Feeds
<1>1. journey \in Seq(RideLeg \cup {WalkLeg})
  BY JourneysAssumption DEF TypeOK
<1>2. \A k \in DOMAIN journey : journey[k] \in RideLeg \cup {WalkLeg}
  BY <1>1
<1> QED BY <1>1, <1>2 DEF TypeOK, RideLeg, WalkLeg, IsRide

(* GroupEnd is where the rides of one feed end.                            *)
LEMMA GroupEndFacts ==
  ASSUME TypeOK, i <= Len(journey), IsRide(journey[i])
  PROVE  /\ GroupEnd(i) \in i .. Len(journey)
         /\ RideSpan(i, GroupEnd(i))
         /\ \A b \in (GroupEnd(i) + 1) .. Len(journey) : ~RideSpan(i, b)
<1> DEFINE S == {b \in i .. Len(journey) : RideSpan(i, b)}
<1>1. i \in S /\ S \in SUBSET (0 .. Len(journey)) /\ Len(journey) \in Nat /\ i \in Nat
  BY JourneyFacts DEF RideSpan, TypeOK
<1>2. Max(S) \in S /\ \A y \in S : Max(S) >= y
  BY <1>1, MaxOfRange
<1>3. GroupEnd(i) = Max(S)
  BY DEF GroupEnd
<1>4. \A b \in (Max(S) + 1) .. Len(journey) : b \in i .. Len(journey) /\ ~(Max(S) >= b)
  BY <1>1, <1>2
<1> QED BY <1>1, <1>2, <1>3, <1>4

(* What is left of a group once a span of it is paid is a group as well.    *)
LEMMA RestOfGroup ==
  ASSUME TypeOK, GroupInv, pc = "group", j < end
  PROVE  /\ RideSpan(j + 1, end)
         /\ journey[j + 1].feed = journey[i].feed
         /\ \A b \in (end + 1) .. Len(journey) : ~RideSpan(j + 1, b)
<1>1. /\ i \in Nat \ {0} /\ j \in Nat /\ end \in Nat /\ i <= j /\ Len(journey) \in Nat
      /\ RideSpan(i, end)
      /\ \A b \in (end + 1) .. Len(journey) : ~RideSpan(i, b)
  BY JourneyFacts DEF GroupInv, TypeOK
<1>2. RideSpan(j + 1, end) /\ journey[j + 1].feed = journey[i].feed
  BY <1>1 DEF RideSpan
<1>3. ASSUME NEW b \in (end + 1) .. Len(journey), RideSpan(j + 1, b)
      PROVE  RideSpan(i, b)
  <2>1. \A k \in i .. b : k \in i .. end \/ k \in (j + 1) .. b
    BY <1>1
  <2> QED BY <1>1, <1>2, <1>3, <2>1 DEF RideSpan
<1> QED BY <1>1, <1>2, <1>3

(* A ticket that was given up is one that may not be had.                  *)
LEMMA GivenUp ==
  ASSUME NoTicketForSpan
  PROVE  ~SurelyPaid(i, j)
BY DEF NoTicketForSpan, SpanFares, SurelyPaid, Permitted, Permits

(* Where tariff and journey stay, so does all that is said of a span.       *)
LEMMA SpansStay ==
  ASSUME UNCHANGED <<tariff, journey>>, NEW a, NEW b
  PROVE  /\ RideSpan(a, b)' <=> RideSpan(a, b)
         /\ SurelyPaid(a, b)' <=> SurelyPaid(a, b)
         /\ Model(a)' = Model(a)
<1>1. RideSpan(a, b)' <=> RideSpan(a, b)
  BY DEF RideSpan
<1>2. Model(a)' = Model(a)
  BY DEF Model
<1>3. SurelyPaid(a, b)' <=> SurelyPaid(a, b)
  BY <1>2 DEF SurelyPaid
<1> QED BY <1>1, <1>2, <1>3

LEMMA FitsStays ==
  ASSUME UNCHANGED <<tariff, journey>>, i \in Nat, i' \in Nat, i <= i',
         NEW t \in Tickets, Fits(t)
  PROVE  Fits(t)'
<1>1. t.to \in Nat /\ t.to < i /\ t.to < i'
  BY DEF Tickets, Fits
<1>2. RideSpan(t.from, t.to)' /\ Permits(Model(t.from).attributes[t.fare], t.to - t.from)'
  BY SpansStay DEF Fits
<1>3. \A b \in (t.to + 1) .. Len(journey)' :
        RideSpan(t.from, b)' => ~SurelyPaid(t.from, b)'
  BY SpansStay DEF Fits
<1> QED BY <1>1, <1>2, <1>3 DEF Fits

LEMMA TicketsStay ==
  ASSUME TypeOK, TicketInv, UNCHANGED <<tariff, journey, tickets>>, i' \in Nat, i <= i'
  PROVE  TicketInv'
<1>1. /\ i \in Nat /\ \A k \in DOMAIN tickets : tickets[k] \in Tickets
      /\ \A k \in DOMAIN tickets : Fits(tickets[k])
  BY DEF TypeOK, TicketInv
<1>2. \A k \in DOMAIN tickets : Fits(tickets[k])'
  <2> TAKE k \in DOMAIN tickets
  <2> DEFINE t == tickets[k]
  <2>1. t \in Tickets /\ Fits(t) /\ t' = t
    BY <1>1
  <2>2. \A u \in Tickets : Fits(u) => Fits(u)'
    BY <1>1, FitsStays
  <2> QED BY <2>1, <2>2
<1> QED BY <1>2 DEF TicketInv

-----------------------------------------------------------------------------
LEMMA InitInv ==
  ASSUME Init
  PROVE  FareInv
<1>1. \A x \in Journeys : Len(x) \in Nat /\ DOMAIN x = 1 .. Len(x)
  BY JourneysAssumption
<1>2. TypeOK
  BY <1>1 DEF Init, TypeOK
<1> QED BY <1>1, <1>2 DEF Init, FareInv, GroupInv, TicketInv, PaidInv, EndInv, RefusedForARide

LEMMA OpenGroupStep ==
  ASSUME FareInv, OpenGroup
  PROVE  FareInv'
<1> USE DEF FareInv
<1> DEFINE e == GroupEnd(i)
<1>1. /\ e \in i .. Len(journey) /\ RideSpan(i, e)
      /\ \A b \in (e + 1) .. Len(journey) : ~RideSpan(i, b)
      /\ i \in Nat \ {0} /\ Len(journey) \in Nat
  BY GroupEndFacts, JourneyFacts DEF OpenGroup, TypeOK
<1>2. /\ end' = e /\ j' = e /\ pc' = "group" /\ UNCHANGED <<tariff, journey, i, tickets>>
      /\ journey[i].feed \in DOMAIN tariff
  BY DEF OpenGroup
<1> HIDE DEF e
<1>3. TypeOK'
  BY <1>1, <1>2 DEF TypeOK
<1>4. GroupInv'
  BY <1>1, <1>2 DEF GroupInv, RideSpan
<1>5. TicketInv' /\ PaidInv'
  <2>1. TicketInv'
    BY <1>1, <1>2, TicketsStay
  <2> QED BY <1>2, <2>1 DEF PaidInv
<1>6. EndInv'
  BY <1>2 DEF EndInv, RefusedForARide
<1> QED BY <1>3, <1>4, <1>5, <1>6

LEMMA ShrinkSpanStep ==
  ASSUME FareInv, ShrinkSpan
  PROVE  FareInv'
<1> USE DEF FareInv
<1>1. /\ pc = "group" /\ j > i /\ j' = j - 1
      /\ UNCHANGED <<tariff, journey, pc, i, end, tickets>>
      /\ i \in Nat \ {0} /\ j \in Nat /\ end \in Nat /\ j <= end /\ Len(journey) \in Nat
  BY JourneyFacts DEF ShrinkSpan, TypeOK
<1>2. TypeOK'
  BY <1>1 DEF TypeOK
<1>3. GroupInv'
  <2>1. ~SurelyPaid(i, j)
    BY GivenUp DEF ShrinkSpan
  <2>2. \A b \in (j' + 1) .. end : b = j \/ b \in (j + 1) .. end
    BY <1>1
  <2>3. \A b \in (j' + 1) .. end : ~SurelyPaid(i, b)
    BY <1>1, <2>1, <2>2 DEF GroupInv
  <2> QED BY <1>1, <2>3 DEF GroupInv, RideSpan, SurelyPaid, Model
<1>4. TicketInv' /\ PaidInv'
  <2>1. TicketInv'
    BY <1>1, TicketsStay
  <2> QED BY <1>1, <2>1 DEF PaidInv
<1>5. EndInv'
  BY <1>1 DEF EndInv, RefusedForARide
<1> QED BY <1>2, <1>3, <1>4, <1>5

LEMMA TakeSpanStep ==
  ASSUME FareInv, TakeSpan
  PROVE  FareInv'
<1> USE DEF FareInv
<1>1. PICK f \in SpanFares :
        /\ Permitted(f)
        /\ tickets' = Append(tickets, [from |-> i, to |-> j, fare |-> f])
  BY DEF TakeSpan
<1>2. /\ pc = "group" /\ i' = j + 1 /\ j' = end /\ pc' = IF j = end THEN "scan" ELSE "group"
      /\ UNCHANGED <<tariff, journey, end>>
      /\ i \in Nat \ {0} /\ j \in Nat /\ end \in Nat /\ i <= j /\ j <= end
      /\ end <= Len(journey) /\ Len(journey) \in Nat
      /\ DOMAIN journey = 1 .. Len(journey)
      /\ tickets \in Seq(Tickets)
  BY JourneyFacts DEF TakeSpan, TypeOK
<1> DEFINE new == [from |-> i, to |-> j, fare |-> f]
<1>3. new \in Tickets
  <2>1. f \in DOMAIN Model(i).attributes
    BY <1>1 DEF SpanFares, ThroughFare, FareForLeg, Matching
  <2>2. DOMAIN Model(i).attributes \subseteq FareIds
    BY <1>2, TariffsAssumption DEF GroupInv, Model, IsModel, TypeOK
  <2> QED BY <1>2, <2>1, <2>2 DEF Tickets
<1>4. /\ tickets' \in Seq(Tickets) /\ Len(tickets) \in Nat
      /\ DOMAIN tickets = 1 .. Len(tickets) /\ DOMAIN tickets' = 1 .. (Len(tickets) + 1)
      /\ \A k \in DOMAIN tickets : tickets'[k] = tickets[k]
      /\ tickets'[Len(tickets) + 1] = new
  BY <1>1, <1>2, <1>3
<1>5. TypeOK'
  BY <1>2, <1>4 DEF TypeOK
<1>6. GroupInv'
  <2>1. CASE j = end
    BY <1>2, <2>1 DEF GroupInv
  <2>2. CASE j < end
    <3>1. /\ RideSpan(j + 1, end)
          /\ journey[j + 1].feed = journey[i].feed
          /\ \A b \in (end + 1) .. Len(journey) : ~RideSpan(j + 1, b)
      BY <1>2, <2>2, RestOfGroup
    <3>2. journey[i].feed \in DOMAIN tariff
      BY <1>2 DEF GroupInv
    <3> QED BY <1>2, <2>2, <3>1, <3>2 DEF GroupInv, RideSpan
  <2> QED BY <1>2, <2>1, <2>2
<1>7. RideSpan(i, j) /\ \A b \in (j + 1) .. Len(journey) : RideSpan(i, b) => ~SurelyPaid(i, b)
  <2>1. \A b \in (j + 1) .. Len(journey) : b \in (j + 1) .. end \/ b \in (end + 1) .. Len(journey)
    BY <1>2
  <2> QED BY <1>2, <2>1 DEF GroupInv, RideSpan
<1>8. TicketInv'
  <2>0. \A u \in Tickets : Fits(u) => Fits(u)'
    BY <1>2, FitsStays
  <2>1. \A k \in DOMAIN tickets :
           /\ \E u \in Tickets : u = tickets'[k] /\ Fits(u)'
           /\ tickets[k].to < i
    <3> TAKE k \in DOMAIN tickets
    <3>1. PICK u \in Tickets : u = tickets[k] /\ Fits(u)
      BY <1>2 DEF TicketInv
    <3>2. u = tickets'[k] /\ Fits(u)' /\ u.to < i
      BY <1>4, <2>0, <3>1 DEF Fits
    <3> QED BY <3>1, <3>2
  <2>2. \E u \in Tickets : u = tickets'[Len(tickets) + 1] /\ Fits(u)'
    <3>1. PICK u \in Tickets : u = new
      BY <1>3
    <3>2. u.from = i /\ u.to = j /\ u.fare = f
      BY <3>1
    <3>3. RideSpan(u.from, u.to)' /\ Model(u.from)' = Model(u.from)
      BY <1>2, <1>7, <3>2, SpansStay
    <3>4. Permits(Model(u.from)'.attributes[u.fare], u.to - u.from)
      BY <1>1, <3>2, <3>3 DEF Permitted
    <3>5. \A b \in (u.to + 1) .. Len(journey) : RideSpan(u.from, b)' => ~SurelyPaid(u.from, b)'
      BY <1>2, <1>7, <3>2, SpansStay
    <3>6. u.to < i'
      BY <1>2, <3>2
    <3>7. Fits(u)'
      BY <1>2, <3>3, <3>4, <3>5, <3>6 DEF Fits
    <3> QED BY <1>4, <3>1, <3>7
  <2>3. \A k \in DOMAIN tickets' : k \in DOMAIN tickets \/ k = Len(tickets) + 1
    BY <1>4
  <2>4. \A k \in DOMAIN tickets' : \E u \in Tickets : u = tickets'[k] /\ Fits(u)'
    BY <2>1, <2>2, <2>3
  <2>5. \A k, l \in DOMAIN tickets' : k < l => tickets'[k].to < tickets'[l].from
    BY <1>4, <2>1, <2>3 DEF TicketInv
  <2>6. (\A k \in DOMAIN tickets : Fits(tickets[k]))'
    BY <2>4
  <2> QED BY <2>5, <2>6 DEF TicketInv
<1>9. PaidInv'
  <2> SUFFICES ASSUME NEW r \in DOMAIN journey, IsRide(journey[r]), r < j + 1
               PROVE  \E k \in DOMAIN tickets' : r \in tickets'[k].from .. tickets'[k].to
    BY <1>2 DEF PaidInv
  <2>1. CASE r < i
    <3>1. PICK k \in DOMAIN tickets : r \in tickets[k].from .. tickets[k].to
      BY <2>1 DEF PaidInv
    <3> QED BY <1>4, <3>1
  <2>2. CASE ~(r < i)
    <3>1. r \in i .. j
      BY <1>2, <2>2
    <3>2. Len(tickets) + 1 \in DOMAIN tickets'
      BY <1>4
    <3> QED BY <1>4, <3>1, <3>2
  <2> QED BY <2>1, <2>2
<1>10. EndInv'
  BY <1>2 DEF EndInv, RefusedForARide
<1> QED BY <1>5, <1>6, <1>8, <1>9, <1>10

(* The steps that leave the group and the tickets alone.                    *)
LEMMA OtherSteps ==
  ASSUME FareInv, SkipWalk \/ FeedWithoutFares \/ Refuse \/ Finish \/ UNCHANGED vars
  PROVE  FareInv'
<1> USE DEF FareInv
<1>1. /\ i \in Nat \ {0} /\ Len(journey) \in Nat /\ i <= Len(journey) + 1
      /\ DOMAIN journey = 1 .. Len(journey)
      /\ UNCHANGED <<tariff, journey, j, end, tickets>>
      /\ i' \in {i, i + 1}
  BY JourneyFacts DEF SkipWalk, FeedWithoutFares, Refuse, Finish, vars, TypeOK
<1>2. TypeOK'
  BY <1>1 DEF SkipWalk, FeedWithoutFares, Refuse, Finish, vars, TypeOK
<1>3. GroupInv'
  BY <1>1 DEF SkipWalk, FeedWithoutFares, Refuse, Finish, vars, GroupInv, RideSpan, SurelyPaid, Model
<1>4. TicketInv'
  BY <1>1, TicketsStay
<1>5. PaidInv'
  <2>1. \A r \in DOMAIN journey : IsRide(journey[r]) /\ r < i' => r < i
    BY <1>1 DEF SkipWalk, FeedWithoutFares, Refuse, Finish, vars
  <2> QED BY <1>1, <2>1 DEF PaidInv
<1>6. EndInv'
  <2>1. CASE SkipWalk \/ UNCHANGED vars
    BY <1>1, <2>1 DEF SkipWalk, vars, EndInv, RefusedForARide, PricedAlone, SurelyPaid, Model
  <2>2. CASE Finish
    BY <1>1, <2>2 DEF Finish, EndInv, RefusedForARide
  <2>3. CASE FeedWithoutFares
    <3>1. i \in DOMAIN journey /\ IsRide(journey[i]) /\ ~PricedAlone(i)
      BY <1>1, <2>3 DEF FeedWithoutFares, PricedAlone
    <3> QED BY <1>1, <2>3, <3>1
          DEF FeedWithoutFares, EndInv, RefusedForARide, PricedAlone, SurelyPaid, Model
  <2>4. CASE Refuse
    <3>1. i \in DOMAIN journey /\ IsRide(journey[i]) /\ ~PricedAlone(i)
      BY <1>1, <2>4, GivenUp DEF Refuse, PricedAlone, GroupInv, RideSpan, TypeOK
    <3> QED BY <1>1, <2>4, <3>1
          DEF Refuse, EndInv, RefusedForARide, PricedAlone, SurelyPaid, Model
  <2> QED BY <2>1, <2>2, <2>3, <2>4
<1> QED BY <1>2, <1>3, <1>4, <1>5, <1>6

LEMMA Inductive == Spec => []FareInv
<1>1. Init => FareInv
  BY InitInv
<1>2. FareInv /\ [Next]_vars => FareInv'
  BY OpenGroupStep, ShrinkSpanStep, TakeSpanStep, OtherSteps DEF Next
<1> QED BY <1>1, <1>2, PTL DEF Spec

-----------------------------------------------------------------------------
(* No index of total_fare leaves its slice, and no subtraction of its usize
   goes below zero, for any journey and tariff.                             *)
THEOREM FareTypeCorrect == Spec => []TypeOK
<1>1. FareInv => TypeOK
  BY DEF FareInv
<1> QED BY <1>1, Inductive, PTL

(* The greedy spans of total_fare pay each ride once, together with as many
   of its group as can surely be paid together.                             *)
THEOREM EachRidePaidOnce == Spec => []PaidOnce
<1>1. FareInv => PaidOnce
  <2> SUFFICES ASSUME FareInv
               PROVE  PaidOnce
    OBVIOUS
  <2>1. \A r \in DOMAIN journey : r <= PaidUpTo => r < i
    BY JourneyFacts DEF FareInv, PaidUpTo, EndInv
  <2> QED BY <2>1 DEF FareInv, TicketInv, PaidInv, Fits, PaidOnce
<1> QED BY <1>1, Inductive, PTL

(* A price is only refused for a ride that cannot be priced by itself.       *)
THEOREM RefusalIsForARide == Spec => []RefusedForARide
<1>1. FareInv => RefusedForARide
  BY DEF FareInv, EndInv
<1> QED BY <1>1, Inductive, PTL
=============================================================================
