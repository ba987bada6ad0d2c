----------------------------- MODULE PlanProofs -----------------------------
(***************************************************************************)
(* Proofs about the answer to a request, for any requests whose searches    *)
(* answer as they should and any limit of at least two itineraries.        *)
(***************************************************************************)
EXTENDS PlanProperties, FiniteSetTheorems, FunctionTheorems, SequenceTheorems, TLAPS

(* No two of them ride the same lines between the same stops.              *)
Distinct(its) ==
  \A i, j \in DOMAIN its : its[i].signature = its[j].signature => i = j

Sorted(its) ==
  \A i, j \in DOMAIN its : i < j => its[i].duration <= its[j].duration

(* i comes no later than j when its are ranked.                            *)
NoLater(its, i, j) ==
  \/ its[i].duration < its[j].duration
  \/ its[i].duration = its[j].duration /\ i <= j

(* What was asked of the searches: the railways are searched only after a
   bus led, and then all they answered with is considered.                 *)
SearchInv ==
  /\ pc = "links" => fastIts = <<>>
  /\ pc \in {"links", "fast"} => railIts = <<>>
  /\ pc \in {"rail", "rank"} =>
       IF FastestHasBus
       THEN \A i \in DOMAIN request.rail :
              pc = "rank" \/ i < next => Itinerary(request.rail[i]).signature \in Seen
       ELSE railIts = <<>>
  /\ pc = "rail" => FastestHasBus /\ next \in 1 .. Len(request.rail) + 1

DistinctInv ==
  /\ Distinct(fastIts)
  /\ Distinct(railIts)
  /\ Signatures(fastIts) \cap Signatures(railIts) = {}

(* NoTwins and CutFairly are about what Rank does alone: the rest says what
   it starts from.                                                         *)
PlanInv == TypeOK /\ DistinctInv /\ SearchInv /\ NoTwins /\ CutFairly
             /\ (pc # "done" => answer = <<>>)

-----------------------------------------------------------------------------
(* Ranking is putting in another order, in which equal durations keep theirs. *)
LEMMA RankedOrder ==
  ASSUME NEW its \in Seq(Itineraries)
  PROVE  \E order \in Bijection(DOMAIN its, DOMAIN its) :
           /\ Ranked(its) = [n \in DOMAIN its |-> its[order[n]]]
           /\ \A m, n \in DOMAIN its :
                m < n => NoLater(its, order[m], order[n]) /\ order[m] # order[n]
<1> DEFINE N == DOMAIN its
           before(i) == {j \in N :
                           \/ its[j].duration < its[i].duration
                           \/ its[j].duration = its[i].duration /\ j <= i}
           rank == [i \in N |-> Cardinality(before(i))]
           order == [n \in N |-> CHOOSE i \in N : Cardinality(before(i)) = n]
<1>1. N = 1 .. Len(its) /\ Len(its) \in Nat /\ IsFiniteSet(N)
      /\ Cardinality(N) = Len(its)
  <2>1. N = 1 .. Len(its) /\ Len(its) \in Nat
    OBVIOUS
  <2> QED BY <2>1, FS_Interval
<1>2. \A i \in N : its[i].duration \in Nat /\ i \in Nat
  <2>1. \A i \in N : its[i] \in Itineraries /\ i \in Nat
    BY <1>1
  <2> HIDE DEF N
  <2> QED BY <2>1 DEF Itineraries
<1>3. \A i \in N : rank[i] \in N
  <2> SUFFICES ASSUME NEW i \in N PROVE rank[i] \in N
    OBVIOUS
  <2>1. before(i) \in SUBSET N /\ i \in before(i)
    BY <1>2 DEF NoLater
  <2>2. IsFiniteSet(before(i)) /\ Cardinality(before(i)) <= Len(its)
    BY <1>1, <2>1, FS_Subset
  <2>3. Cardinality(before(i)) \in Nat /\ Cardinality(before(i)) # 0
    BY <2>1, <2>2, FS_CardinalityType, FS_EmptySet
  <2> QED BY <1>1, <2>2, <2>3
<1>4. ASSUME NEW i \in N, NEW j \in N, i # j, NoLater(its, i, j)
      PROVE  rank[i] < rank[j]
  <2>1. before(i) \in SUBSET before(j)
    <3>1. \A k \in N : NoLater(its, k, i) => NoLater(its, k, j)
      BY <1>2, <1>4 DEF NoLater
    <3> QED BY <3>1 DEF NoLater
  <2>2. j \in before(j) /\ j \notin before(i)
    BY <1>2, <1>4 DEF NoLater
  <2>3. IsFiniteSet(before(j))
    BY <1>1, FS_Subset
  <2>4. Cardinality(before(i)) <= Cardinality(before(j))
        /\ Cardinality(before(i)) # Cardinality(before(j))
    BY <2>1, <2>2, <2>3, FS_Subset
  <2>5. rank[i] \in Nat /\ rank[j] \in Nat
    BY <1>1, <1>3
  <2> QED BY <2>4, <2>5
<1>5. \A i, j \in N : i # j => NoLater(its, i, j) \/ NoLater(its, j, i)
  BY <1>2 DEF NoLater
<1>6. rank \in Injection(N, N)
  <2>1. \A i, j \in N : rank[i] = rank[j] => i = j
    <3> SUFFICES ASSUME NEW i \in N, NEW j \in N, i # j PROVE rank[i] # rank[j]
      OBVIOUS
    <3>1. rank[i] \in Nat /\ rank[j] \in Nat
      BY <1>1, <1>3
    <3> HIDE DEF rank
    <3> QED BY <1>4, <1>5, <3>1
  <2>2. rank \in [N -> N]
    BY <1>3
  <2> QED BY <2>1, <2>2, Fun_IsInj
<1>7. \A n \in N : \E i \in N : rank[i] = n
  <2>1. rank \in Surjection(N, N)
    BY <1>1, <1>6, FS_Injection
  <2> HIDE DEF rank
  <2> QED BY <2>1, Fun_SurjectionProperties
<1>8. \A n \in N : order[n] \in N /\ rank[order[n]] = n
  <2>1. \A n \in N : \E i \in N : Cardinality(before(i)) = n
    <3>1. \A i \in N : rank[i] = Cardinality(before(i))
      OBVIOUS
    <3> QED BY <1>7, <3>1
  <2> HIDE DEF before, N
  <2> QED BY <2>1
<1>9. \A i \in N : order[rank[i]] = i
  <2> SUFFICES ASSUME NEW i \in N PROVE order[rank[i]] = i
    OBVIOUS
  <2>1. order[rank[i]] \in N /\ rank[order[rank[i]]] = rank[i]
    BY <1>3, <1>8
  <2> HIDE DEF rank, order
  <2> QED BY <1>6, <2>1, Fun_InjectionProperties
<1>10. order \in Bijection(N, N)
  <2> HIDE DEF rank
  <2>1. order \in [N -> N]
    BY <1>8
  <2>2. \A m, n \in N : order[m] = order[n] => m = n
    BY <1>8
  <2>3. \A i \in N : \E n \in N : order[n] = i
    BY <1>3, <1>9
  <2> HIDE DEF order
  <2> QED BY <2>1, <2>2, <2>3, Fun_IsBij
<1>11. Ranked(its) = [n \in N |-> its[order[n]]]
  BY DEF Ranked
<1>12. ASSUME NEW m \in N, NEW n \in N, m < n
       PROVE  NoLater(its, order[m], order[n]) /\ order[m] # order[n]
  <2>1. /\ order[m] \in N /\ order[n] \in N
        /\ rank[order[m]] = m /\ rank[order[n]] = n
    BY <1>8
  <2>2. order[m] # order[n] /\ m \in Nat /\ n \in Nat
    <3> HIDE DEF rank, order
    <3> QED BY <1>1, <1>12, <2>1
  <2> HIDE DEF rank, order
  <2> QED BY <1>4, <1>5, <1>12, <2>1, <2>2
<1> QED BY <1>10, <1>11, <1>12

(* What ranking keeps and gives: the same itineraries, in order of their
   duration, the first found of equal ones first.                          *)
LEMMA RankedFacts ==
  ASSUME NEW its \in Seq(Itineraries)
  PROVE  /\ Ranked(its) \in Seq(Itineraries)
         /\ Len(Ranked(its)) = Len(its)
         /\ ToSet(Ranked(its)) = ToSet(its)
         /\ Sorted(Ranked(its))
         /\ Distinct(its) => Distinct(Ranked(its))
<1> DEFINE N == DOMAIN its
<1>1. PICK order \in Bijection(N, N) :
        /\ Ranked(its) = [n \in N |-> its[order[n]]]
        /\ \A m, n \in N : m < n => NoLater(its, order[m], order[n])
  BY RankedOrder
<1>2. N = 1 .. Len(its) /\ Len(its) \in Nat /\ \A i \in N : its[i] \in Itineraries
  OBVIOUS
<1>3. /\ order \in [N -> N]
      /\ \A m, n \in N : order[m] = order[n] => m = n
      /\ \A i \in N : \E n \in N : order[n] = i
  <2> HIDE DEF N
  <2> QED BY Fun_BijectionProperties
<1>4. DOMAIN Ranked(its) = N /\ \A n \in N : Ranked(its)[n] = its[order[n]]
  <2> HIDE DEF N
  <2> QED BY <1>1
<1>5. Ranked(its) \in Seq(Itineraries) /\ Len(Ranked(its)) = Len(its)
  <2>1. \A n \in N : its[order[n]] \in Itineraries
    BY <1>2, <1>3
  <2>2. Ranked(its) = [n \in 1 .. Len(its) |-> its[order[n]]]
    BY <1>1, <1>2
  <2> HIDE DEF N
  <2>3. \A n \in 1 .. Len(its) : its[order[n]] \in Itineraries
    BY <1>2, <2>1
  <2> QED BY <1>2, <2>2, <2>3
<1>6. ToSet(Ranked(its)) = ToSet(its)
  <2> HIDE DEF N
  <2>1. ToSet(Ranked(its)) = {its[order[n]] : n \in N}
    BY <1>4 DEF ToSet
  <2>2. ToSet(its) = {its[i] : i \in N}
    BY DEF ToSet, N
  <2> QED BY <1>3, <2>1, <2>2
<1>7. Sorted(Ranked(its))
  <2>1. \A i \in N : its[i].duration \in Nat
    BY <1>2 DEF Itineraries
  <2> HIDE DEF N
  <2>2. \A m, n \in N : m < n => its[order[m]].duration <= its[order[n]].duration
    BY <1>1, <1>3, <2>1 DEF NoLater
  <2> QED BY <1>4, <2>2 DEF Sorted
<1>8. Distinct(its) => Distinct(Ranked(its))
  <2> HIDE DEF N
  <2>1. ASSUME Distinct(its), NEW m \in N, NEW n \in N,
               its[order[m]].signature = its[order[n]].signature
        PROVE  m = n
    BY <1>3, <2>1 DEF Distinct, N
  <2> QED BY <1>4, <2>1 DEF Distinct
<1> QED BY <1>5, <1>6, <1>7, <1>8

(* Ranking is stable: of two itineraries of which the second is no faster,
   the first stays the first.                                              *)
LEMMA RankedIsStable ==
  ASSUME NEW its \in Seq(Itineraries), NEW i \in DOMAIN its, NEW j \in DOMAIN its,
         i < j, its[i].duration <= its[j].duration
  PROVE  \E m, n \in DOMAIN its :
           m < n /\ Ranked(its)[m] = its[i] /\ Ranked(its)[n] = its[j]
<1> DEFINE N == DOMAIN its
<1>1. PICK order \in Bijection(N, N) :
        /\ Ranked(its) = [n \in N |-> its[order[n]]]
        /\ \A m, n \in N : m < n => NoLater(its, order[m], order[n])
  BY RankedOrder
<1>2. N \subseteq Int /\ \A k \in N : its[k] \in Itineraries
  OBVIOUS
<1>3. its[i].duration \in Int /\ its[j].duration \in Int /\ i \in Int /\ j \in Int
  BY <1>2 DEF Itineraries
<1>4. ~NoLater(its, j, i)
  BY <1>3 DEF NoLater
<1> HIDE DEF N
<1>5. \A k \in N : \E n \in N : order[n] = k
  BY Fun_BijectionProperties
<1>6. PICK m \in N, n \in N : order[m] = i /\ order[n] = j
  BY <1>5 DEF N
<1>7. m # n /\ ~(n < m)
  BY <1>1, <1>3, <1>4, <1>6
<1>8. m < n
  BY <1>2, <1>7
<1> QED BY <1>1, <1>6, <1>8 DEF N

(* The first of the ranked is the one that Engine::plan calls the fastest.  *)
LEMMA FastestIsFirst ==
  ASSUME NEW its \in Seq(Itineraries), its # <<>>
  PROVE  Ranked(its)[1] = Fastest(its)
<1> DEFINE N == DOMAIN its
           best == {i \in N : \A j \in N : its[i].duration <= its[j].duration}
<1>1. PICK order \in Bijection(N, N) :
        /\ Ranked(its) = [n \in N |-> its[order[n]]]
        /\ \A m, n \in N : m < n => NoLater(its, order[m], order[n])
  BY RankedOrder
<1>2. 1 \in N /\ N \subseteq Nat \ {0} /\ \A i \in N : its[i] \in Itineraries
  BY EmptySeq
<1>3. \A i \in N : its[i].duration \in Nat
  BY <1>2 DEF Itineraries
<1> HIDE DEF N
<1>4. order \in [N -> N] /\ \A i \in N : \E n \in N : order[n] = i
  BY Fun_BijectionProperties
<1> DEFINE first == order[1]
<1>5. first \in N /\ first \in Nat /\ its[first].duration \in Nat
  BY <1>2, <1>3, <1>4
<1>6. \A i \in N : NoLater(its, first, i)
  <2> SUFFICES ASSUME NEW n \in N PROVE NoLater(its, first, order[n])
    BY <1>4
  <2>1. CASE n = 1
    BY <1>5, <2>1 DEF NoLater
  <2>2. CASE 1 < n
    BY <1>1, <1>2, <2>2
  <2> QED BY <1>2, <2>1, <2>2
<1>7. first \in best
  <2> HIDE DEF first
  <2>1. \A i \in N : its[first].duration <= its[i].duration
    BY <1>3, <1>5, <1>6 DEF NoLater
  <2> QED BY <1>5, <2>1
<1>8. ASSUME NEW k \in best, \A i \in best : k <= i
      PROVE  k = first
  <2>1. k \in N /\ k \in Nat /\ its[k].duration <= its[first].duration
    BY <1>2, <1>5
  <2>2. its[first].duration = its[k].duration => first <= k
    BY <1>3, <1>5, <1>6, <2>1 DEF NoLater
  <2>3. its[first].duration <= its[k].duration
    BY <1>7, <2>1
  <2>4. k <= first
    BY <1>7, <1>8
  <2> HIDE DEF first, best
  <2> QED BY <1>3, <1>5, <2>1, <2>2, <2>3, <2>4
<1>9. ASSUME NEW k \in best
      PROVE  first <= k
  <2>1. k \in N /\ k \in Nat /\ its[k].duration <= its[first].duration
    BY <1>2, <1>5
  <2> HIDE DEF first, best
  <2> QED BY <1>3, <1>5, <1>6, <2>1 DEF NoLater
<1>10. Min(best) = first
  <2> HIDE DEF best, first
  <2> QED BY <1>7, <1>8, <1>9 DEF Min
<1> QED BY <1>1, <1>2, <1>10 DEF Fastest, N

-----------------------------------------------------------------------------
(* Conversion of a journey gives an itinerary.                             *)
LEMMA ItineraryType ==
  ASSUME request \in Requests,
         NEW journey \in ToSet(request.fast) \cup ToSet(request.rail)
  PROVE  Itinerary(journey) \in Itineraries
<1> DEFINE rides  == RidesOf(journey)
           depart == IF request.arriveBy THEN DepartureOf(journey) ELSE request.time
           signature == [i \in DOMAIN rides |->
                           <<rides[i].line, rides[i].from, rides[i].to>>]
<1>1. rides \in Seq(RideLeg) /\ DepartureOf(journey) \in Int
  BY LegsAssumption
<1>2. request.time \in Nat /\ request.fast \in Seq(Journey) /\ request.rail \in Seq(Journey)
  BY RequestsAssumption DEF AnswerOfSearch
<1>3. journey \in Journey
  BY <1>2 DEF ToSet
<1>4. journey.arrival \in Nat /\ depart \in Int
  BY <1>1, <1>2, <1>3 DEF Journey
<1>5. signature \in Seq(Lines \X Names \X Names)
  <2>1. \A i \in DOMAIN rides : rides[i] \in RideLeg
    BY <1>1
  <2>2. \A i \in DOMAIN rides :
          <<rides[i].line, rides[i].from, rides[i].to>> \in Lines \X Names \X Names
    BY <2>1 DEF RideLeg
  <2>3. DOMAIN rides = 1 .. Len(rides) /\ Len(rides) \in Nat
    BY <1>1
  <2> HIDE DEF rides
  <2>4. \A i \in 1 .. Len(rides) :
          <<rides[i].line, rides[i].from, rides[i].to>> \in Lines \X Names \X Names
    BY <2>2, <2>3
  <2>5. signature = [i \in 1 .. Len(rides) |-> <<rides[i].line, rides[i].from, rides[i].to>>]
    BY <2>3
  <2> QED BY <2>3, <2>4, <2>5
<1>6. \A n \in Int : Max({0, n}) \in Nat
  <2> SUFFICES ASSUME NEW n \in Int PROVE Max({0, n}) \in Nat
    OBVIOUS
  <2>1. CASE n <= 0
    <3>1. \A y \in {0, n} : 0 >= y
      BY <2>1
    <3>2. \A x \in {0, n} : (\A y \in {0, n} : x >= y) => x \in Nat
      OBVIOUS
    <3> QED BY <3>1, <3>2 DEF Max
  <2>2. CASE n > 0
    <3>1. \A y \in {0, n} : n >= y
      BY <2>2
    <3>2. \A x \in {0, n} : (\A y \in {0, n} : x >= y) => x \in Nat
      OBVIOUS
    <3> QED BY <3>1, <3>2 DEF Max
  <2> QED BY <2>1, <2>2
<1>7. Max({0, journey.arrival - depart}) \in Nat /\ Max({0, Len(rides) - 1}) \in Nat
  <2>1. journey.arrival - depart \in Int /\ Len(rides) - 1 \in Int
    BY <1>1, <1>4
  <2> HIDE DEF depart, rides
  <2> QED BY <1>6, <2>1
<1>8. TakesBus(journey) \in BOOLEAN
  BY DEF TakesBus
<1>9. Itinerary(journey) =
        [signature |-> signature,
         duration  |-> Max({0, journey.arrival - depart}),
         transfers |-> Max({0, Len(rides) - 1}),
         bus       |-> TakesBus(journey),
         depart    |-> depart]
  BY DEF Itinerary
<1> HIDE DEF signature, depart, rides
<1> QED BY <1>4, <1>5, <1>7, <1>8, <1>9 DEF Itineraries

(* An itinerary that is no twin of one found before joins its search's, and
   one that is changes nothing.                                            *)
LEMMA WithNewFacts ==
  ASSUME NEW its \in Seq(Itineraries), NEW it \in Itineraries,
         Distinct(its), Signatures(its) \subseteq Seen
  PROVE  /\ WithNew(its, it) \in Seq(Itineraries)
         /\ Distinct(WithNew(its, it))
         /\ Signatures(WithNew(its, it)) \subseteq Signatures(its) \cup {it.signature}
         /\ Signatures(its) \subseteq Signatures(WithNew(its, it))
         /\ it.signature \in Seen => WithNew(its, it) = its
         /\ it.signature \notin Seen => it.signature \in Signatures(WithNew(its, it))
<1>1. CASE it.signature \in Seen
  BY <1>1 DEF WithNew
<1>2. CASE it.signature \notin Seen
  <2> DEFINE new == Append(its, it)
  <2>1. /\ WithNew(its, it) = new /\ new \in Seq(Itineraries)
        /\ Len(its) \in Nat /\ DOMAIN its = 1 .. Len(its)
        /\ DOMAIN new = 1 .. Len(its) + 1
        /\ new[Len(its) + 1] = it
        /\ \A i \in DOMAIN its : new[i] = its[i]
    BY <1>2 DEF WithNew
  <2>2. it.signature \notin Signatures(its)
    BY <1>2
  <2> HIDE DEF new
  <2>3. \A i \in DOMAIN new : i = Len(its) + 1 \/ i \in DOMAIN its
    BY <2>1
  <2>4. Distinct(new)
    BY <2>1, <2>2, <2>3 DEF Distinct, Signatures
  <2>5. Signatures(new) = Signatures(its) \cup {it.signature}
    <3>1. Len(its) + 1 \in DOMAIN new /\ DOMAIN its \subseteq DOMAIN new
      BY <2>1
    <3> QED BY <2>1, <2>3, <3>1 DEF Signatures
  <2> QED BY <1>2, <2>1, <2>4, <2>5
<1> QED BY <1>1, <1>2

-----------------------------------------------------------------------------
(* An index of two sequences put together is one of either.                *)
LEMMA IndexOfTwo ==
  ASSUME NEW a \in Nat, NEW b \in Nat, NEW i \in 1 .. a + b
  PROVE  i \in 1 .. a \/ (i > a /\ i - a \in 1 .. b)
OBVIOUS

(* What is ranked for the answer: both searches' itineraries, all different,
   in order, and a railway one that was found later only when faster.       *)
LEMMA AllFacts ==
  ASSUME fastIts \in Seq(Itineraries), railIts \in Seq(Itineraries), DistinctInv
  PROVE  /\ AllRanked \in Seq(Itineraries)
         /\ ToSet(AllRanked) = ToSet(fastIts \o railIts)
         /\ ToSet(AllRanked) = ToSet(fastIts) \cup ToSet(railIts)
         /\ Sorted(AllRanked)
         /\ Distinct(AllRanked)
<1> DEFINE fast == Ranked(fastIts)
           rail == Ranked(railIts)
           both == fast \o rail
<1>1. /\ fast \in Seq(Itineraries) /\ rail \in Seq(Itineraries)
      /\ ToSet(fast) = ToSet(fastIts) /\ ToSet(rail) = ToSet(railIts)
      /\ Distinct(fast) /\ Distinct(rail)
  BY RankedFacts DEF DistinctInv
<1> HIDE DEF fast, rail
<1>2. /\ both \in Seq(Itineraries)
      /\ DOMAIN both = 1 .. Len(fast) + Len(rail)
      /\ Len(fast) \in Nat /\ Len(rail) \in Nat
      /\ DOMAIN fast = 1 .. Len(fast) /\ DOMAIN rail = 1 .. Len(rail)
      /\ \A i \in DOMAIN both :
           both[i] = IF i <= Len(fast) THEN fast[i] ELSE rail[i - Len(fast)]
  BY <1>1, ConcatProperties
<1>3. ToSet(fastIts \o railIts) = ToSet(fastIts) \cup ToSet(railIts)
  <2>1. /\ DOMAIN (fastIts \o railIts) = 1 .. Len(fastIts) + Len(railIts)
        /\ Len(fastIts) \in Nat /\ Len(railIts) \in Nat
        /\ DOMAIN fastIts = 1 .. Len(fastIts) /\ DOMAIN railIts = 1 .. Len(railIts)
        /\ \A i \in DOMAIN (fastIts \o railIts) :
             (fastIts \o railIts)[i]
               = IF i <= Len(fastIts) THEN fastIts[i] ELSE railIts[i - Len(fastIts)]
    BY ConcatProperties
  <2>2. \A k \in DOMAIN railIts :
          /\ k + Len(fastIts) \in DOMAIN (fastIts \o railIts)
          /\ (fastIts \o railIts)[k + Len(fastIts)] = railIts[k]
    BY <2>1
  <2>3. \A i \in DOMAIN (fastIts \o railIts) :
          i \in DOMAIN fastIts \/ (i > Len(fastIts) /\ i - Len(fastIts) \in DOMAIN railIts)
    <3> DEFINE a == Len(fastIts)
               b == Len(railIts)
    <3>1. a \in Nat /\ b \in Nat
      BY <2>1
    <3> HIDE DEF a, b
    <3>2. \A i \in 1 .. a + b : i \in 1 .. a \/ (i > a /\ i - a \in 1 .. b)
      BY <3>1, IndexOfTwo
    <3> QED BY <2>1, <3>2 DEF a, b
  <2>4. ToSet(fastIts \o railIts) \subseteq ToSet(fastIts) \cup ToSet(railIts)
    BY <2>1, <2>3 DEF ToSet
  <2>5. \A i \in DOMAIN fastIts :
          i \in DOMAIN (fastIts \o railIts) /\ (fastIts \o railIts)[i] = fastIts[i]
    BY <2>1
  <2>6. ToSet(fastIts) \cup ToSet(railIts) \subseteq ToSet(fastIts \o railIts)
    BY <2>2, <2>5 DEF ToSet
  <2> QED BY <2>4, <2>6
<1>4. ToSet(both) = ToSet(fast) \cup ToSet(rail)
  <2>1. \A k \in DOMAIN rail :
          k + Len(fast) \in DOMAIN both /\ both[k + Len(fast)] = rail[k]
    BY <1>2
  <2>2. \A i \in DOMAIN both :
          i \in DOMAIN fast \/ (i > Len(fast) /\ i - Len(fast) \in DOMAIN rail)
    <3> DEFINE a == Len(fast)
               b == Len(rail)
    <3>1. a \in Nat /\ b \in Nat
      BY <1>2
    <3> HIDE DEF a, b
    <3>2. \A i \in 1 .. a + b : i \in 1 .. a \/ (i > a /\ i - a \in 1 .. b)
      BY <3>1, IndexOfTwo
    <3> QED BY <1>2, <3>2 DEF a, b
  <2>3. \A i \in DOMAIN fast : i \in DOMAIN both /\ both[i] = fast[i]
    BY <1>2
  <2> HIDE DEF both
  <2>4. ToSet(both) \subseteq ToSet(fast) \cup ToSet(rail)
    BY <1>2, <2>2 DEF ToSet
  <2>5. ToSet(fast) \cup ToSet(rail) \subseteq ToSet(both)
    BY <2>1, <2>3 DEF ToSet
  <2> QED BY <2>4, <2>5
<1>5. Distinct(both)
  <2>1. \A i \in DOMAIN fast, j \in DOMAIN rail :
          fast[i].signature # rail[j].signature
    <3> SUFFICES ASSUME NEW i \in DOMAIN fast, NEW j \in DOMAIN rail
                 PROVE  fast[i].signature # rail[j].signature
      OBVIOUS
    <3>1. fast[i] \in ToSet(fastIts) /\ rail[j] \in ToSet(railIts)
      BY <1>1 DEF ToSet
    <3> QED BY <3>1 DEF DistinctInv, Signatures, ToSet
  <2> HIDE DEF both
  <2> SUFFICES ASSUME NEW i \in DOMAIN both, NEW j \in DOMAIN both,
                      both[i].signature = both[j].signature
               PROVE  i = j
    BY DEF Distinct
  <2>2. CASE i <= Len(fast) /\ j <= Len(fast)
    BY <1>1, <1>2, <2>2 DEF Distinct
  <2>3. CASE i > Len(fast) /\ j > Len(fast)
    <3>1. i - Len(fast) \in DOMAIN rail /\ j - Len(fast) \in DOMAIN rail
      BY <1>2, <2>3
    <3>2. both[i] = rail[i - Len(fast)] /\ both[j] = rail[j - Len(fast)]
      BY <1>2, <2>3
    <3>3. i - Len(fast) = j - Len(fast)
      BY <1>1, <3>1, <3>2 DEF Distinct
    <3> QED BY <1>2, <3>3
  <2>4. CASE i <= Len(fast) /\ j > Len(fast)
    <3>1. i \in DOMAIN fast /\ j - Len(fast) \in DOMAIN rail
      BY <1>2, <2>4
    <3>2. both[i] = fast[i] /\ both[j] = rail[j - Len(fast)]
      BY <1>2, <2>4
    <3> QED BY <2>1, <3>1, <3>2
  <2>5. CASE i > Len(fast) /\ j <= Len(fast)
    <3>1. j \in DOMAIN fast /\ i - Len(fast) \in DOMAIN rail
      BY <1>2, <2>5
    <3>2. both[j] = fast[j] /\ both[i] = rail[i - Len(fast)]
      BY <1>2, <2>5
    <3> QED BY <2>1, <3>1, <3>2
  <2> QED BY <1>2, <2>2, <2>3, <2>4, <2>5
<1>6. AllRanked = Ranked(both)
  BY DEF AllRanked, fast, rail
<1> HIDE DEF both
<1> QED BY <1>1, <1>2, <1>3, <1>4, <1>5, <1>6, RankedFacts

(* The best railway itinerary of the second search is ranked before the
   others of that search, among all as among its own.                      *)
LEMMA BestIsFirstRail ==
  ASSUME fastIts \in Seq(Itineraries), railIts \in Seq(Itineraries), DistinctInv,
         NEW b \in DOMAIN AllRanked, AllRanked[b] = Ranked(railIts)[1],
         NEW k \in DOMAIN AllRanked, AllRanked[k] \in ToSet(railIts)
  PROVE  b <= k
<1> DEFINE fast == Ranked(fastIts)
           rail == Ranked(railIts)
           both == fast \o rail
           all  == AllRanked
<1>1. /\ fast \in Seq(Itineraries) /\ rail \in Seq(Itineraries)
      /\ ToSet(rail) = ToSet(railIts) /\ Sorted(rail)
  BY RankedFacts DEF DistinctInv
<1>2. all \in Seq(Itineraries) /\ Distinct(all) /\ DOMAIN all \subseteq Int
  BY AllFacts
<1>3. all = Ranked(both)
  BY DEF AllRanked
<1>4. all[b] = rail[1] /\ all[k] \in ToSet(rail) /\ b \in DOMAIN all /\ k \in DOMAIN all
  BY <1>1
<1> HIDE DEF fast, rail, all
<1>5. PICK m \in DOMAIN rail : all[k] = rail[m]
  BY <1>4 DEF ToSet
<1>6. /\ both \in Seq(Itineraries)
      /\ DOMAIN both = 1 .. Len(fast) + Len(rail)
      /\ Len(fast) \in Nat /\ Len(rail) \in Nat /\ DOMAIN rail = 1 .. Len(rail)
      /\ \A i \in DOMAIN both :
           both[i] = IF i <= Len(fast) THEN fast[i] ELSE rail[i - Len(fast)]
  BY <1>1, ConcatProperties
<1>7. CASE m = 1
  BY <1>2, <1>4, <1>5, <1>7 DEF Distinct
<1>8. CASE m # 1
  <2> DEFINE i == Len(fast) + 1
             j == Len(fast) + m
  <2>1. i \in DOMAIN both /\ j \in DOMAIN both /\ i < j
    BY <1>5, <1>6, <1>8
  <2>2. both[i] = rail[1] /\ both[j] = rail[m]
    BY <1>6, <2>1
  <2>3. 1 \in DOMAIN rail /\ rail[1].duration <= rail[m].duration
    <3>1. 1 \in DOMAIN rail /\ 1 < m
      BY <1>5, <1>6, <1>8
    <3> QED BY <1>1, <1>5, <3>1 DEF Sorted
  <2> HIDE DEF i, j, both
  <2>4. both \in Seq(Itineraries) /\ both[i].duration <= both[j].duration
    BY <1>6, <2>2, <2>3
  <2>5. PICK p \in DOMAIN both, q \in DOMAIN both :
          p < q /\ all[p] = rail[1] /\ all[q] = rail[m]
    BY <1>3, <2>1, <2>2, <2>4, RankedIsStable
  <2>6. DOMAIN all = DOMAIN both
    BY <1>2, <1>3, <1>6, RankedFacts
  <2>7. p = b /\ q = k
    BY <1>2, <1>4, <1>5, <2>5, <2>6 DEF Distinct
  <2> QED BY <1>2, <1>4, <2>5, <2>7
<1> QED BY <1>7, <1>8

-----------------------------------------------------------------------------
(* The limit and the last place, case by case.  What FastestFirst and
   RailsConsidered say of an answer, said of these itineraries.            *)
LeftOutSlower(its) ==
  LET rails == {i \in DOMAIN its : its[i] \in ToSet(railIts)}
  IN  \A it \in ToSet(fastIts \o railIts) \ ToSet(its) :
        /\ it.duration >= its[1].duration
        /\ \A i \in DOMAIN its : its[i].duration <= it.duration \/ rails = {i}

RailIfAny(its) ==
  railIts # <<>> => \E i \in DOMAIN its : its[i] \in ToSet(railIts)

FitToAnswer(its) ==
  /\ its \in Seq(Itineraries) /\ Len(its) <= MaxItineraries
  /\ Distinct(its) /\ Sorted(its)
  /\ LeftOutSlower(its) /\ RailIfAny(its)

LEMMA BestFacts ==
  ASSUME fastIts \in Seq(Itineraries), railIts \in Seq(Itineraries), DistinctInv,
         railIts # <<>>
  PROVE  /\ Ranked(railIts)[1] \in ToSet(railIts)
         /\ Ranked(railIts)[1] \in Itineraries
         /\ Ranked(railIts)[1] \in ToSet(AllRanked)
<1> DEFINE rail == Ranked(railIts)
<1>1. rail \in Seq(Itineraries) /\ Len(rail) = Len(railIts) /\ ToSet(rail) = ToSet(railIts)
  BY RankedFacts
<1>2. Len(railIts) \in Nat \ {0}
  BY EmptySeq
<1> HIDE DEF rail
<1>3. 1 \in DOMAIN rail
  BY <1>1, <1>2
<1>4. rail[1] \in ToSet(rail) /\ rail[1] \in Itineraries
  BY <1>1, <1>3 DEF ToSet
<1> QED BY <1>1, <1>4, AllFacts DEF rail

LEMMA AllFit ==
  ASSUME fastIts \in Seq(Itineraries), railIts \in Seq(Itineraries), DistinctInv,
         Len(AllRanked) <= MaxItineraries
  PROVE  FitToAnswer(AllRanked)
<1> DEFINE all == AllRanked
<1>1. /\ all \in Seq(Itineraries) /\ ToSet(all) = ToSet(fastIts \o railIts)
      /\ Sorted(all) /\ Distinct(all)
  BY AllFacts
<1>2. LeftOutSlower(all)
  <2> HIDE DEF all
  <2> QED BY <1>1 DEF LeftOutSlower
<1>3. RailIfAny(all)
  BY BestFacts DEF RailIfAny, ToSet
<1> QED BY <1>1, <1>2, <1>3 DEF FitToAnswer

(* The first of them, and those it leaves out.                             *)
LEMMA KeptFacts ==
  ASSUME fastIts \in Seq(Itineraries), railIts \in Seq(Itineraries), DistinctInv,
         Len(AllRanked) > MaxItineraries
  PROVE  LET kept == SubSeq(AllRanked, 1, MaxItineraries)
         IN  /\ kept \in Seq(Itineraries) /\ Len(kept) = MaxItineraries
             /\ DOMAIN kept = 1 .. MaxItineraries
             /\ \A i \in 1 .. MaxItineraries :
                  i \in DOMAIN AllRanked /\ kept[i] = AllRanked[i]
             /\ Distinct(kept) /\ Sorted(kept)
<1> DEFINE all  == AllRanked
           kept == SubSeq(all, 1, MaxItineraries)
<1>1. all \in Seq(Itineraries) /\ Sorted(all) /\ Distinct(all)
  BY AllFacts
<1>2. MaxItineraries \in Nat /\ MaxItineraries >= 2
  BY MaxAssumption
<1> HIDE DEF all
<1>3. Len(all) > MaxItineraries /\ Len(all) \in Nat /\ DOMAIN all = 1 .. Len(all)
  BY <1>1 DEF all
<1>4. \A i \in 1 .. MaxItineraries : i \in DOMAIN all /\ all[i] \in Itineraries
  BY <1>1, <1>2, <1>3
<1>5. /\ kept \in Seq(Itineraries) /\ Len(kept) = MaxItineraries
      /\ \A i \in 1 .. MaxItineraries : kept[i] = all[i]
  <2>1. /\ kept \in Seq(Itineraries)
        /\ Len(kept) = IF 1 <= MaxItineraries THEN MaxItineraries - 1 + 1 ELSE 0
        /\ \A i \in 1 .. MaxItineraries - 1 + 1 : kept[i] = all[1 + i - 1]
    BY <1>2, <1>4, SubSeqProperties
  <2>2. MaxItineraries - 1 + 1 = MaxItineraries /\ \A i \in Int : 1 + i - 1 = i
    BY <1>2
  <2> HIDE DEF kept
  <2> QED BY <1>2, <2>1, <2>2
<1> HIDE DEF kept
<1>6. DOMAIN kept = 1 .. MaxItineraries
  BY <1>5
<1>7. Distinct(kept) /\ Sorted(kept)
  BY <1>1, <1>4, <1>5, <1>6 DEF Distinct, Sorted
<1> QED BY <1>4, <1>5, <1>6, <1>7 DEF kept, all

(* What is left out of the first of all is no faster than any of them.      *)
LEMMA BeyondIsSlower ==
  ASSUME fastIts \in Seq(Itineraries), railIts \in Seq(Itineraries), DistinctInv,
         NEW i \in DOMAIN AllRanked, NEW k \in DOMAIN AllRanked, i <= k
  PROVE  /\ AllRanked[i].duration <= AllRanked[k].duration
         /\ AllRanked[i].duration \in Nat /\ AllRanked[k].duration \in Nat
<1>1. AllRanked \in Seq(Itineraries) /\ Sorted(AllRanked)
  BY AllFacts
<1>2. AllRanked[i] \in Itineraries /\ AllRanked[k] \in Itineraries /\ i \in Int /\ k \in Int
  BY <1>1
<1>3. AllRanked[i].duration \in Nat /\ AllRanked[k].duration \in Nat
  BY <1>2 DEF Itineraries
<1>4. CASE i = k
  BY <1>3, <1>4
<1>5. CASE i < k
  BY <1>1, <1>3, <1>5 DEF Sorted
<1> QED BY <1>2, <1>4, <1>5

LEMMA KeptFit ==
  ASSUME fastIts \in Seq(Itineraries), railIts \in Seq(Itineraries), DistinctInv,
         Len(AllRanked) > MaxItineraries,
         \/ railIts = <<>>
         \/ Ranked(railIts)[1].signature
              \in Signatures(SubSeq(AllRanked, 1, MaxItineraries))
  PROVE  FitToAnswer(SubSeq(AllRanked, 1, MaxItineraries))
<1> DEFINE all  == AllRanked
           kept == SubSeq(all, 1, MaxItineraries)
           best == Ranked(railIts)[1]
<1>1. /\ all \in Seq(Itineraries) /\ Distinct(all)
      /\ ToSet(all) = ToSet(fastIts \o railIts)
  BY AllFacts
<1>2. /\ kept \in Seq(Itineraries) /\ Len(kept) = MaxItineraries
      /\ DOMAIN kept = 1 .. MaxItineraries
      /\ \A i \in 1 .. MaxItineraries : i \in DOMAIN all /\ kept[i] = all[i]
      /\ Distinct(kept) /\ Sorted(kept)
  BY KeptFacts
<1>3. MaxItineraries \in Nat /\ MaxItineraries >= 2 /\ DOMAIN all \subseteq Nat \ {0}
  BY <1>1, MaxAssumption
<1>4. \A i, k \in DOMAIN all : i <= k =>
        /\ all[i].duration <= all[k].duration
        /\ all[i].duration \in Nat /\ all[k].duration \in Nat
  BY BeyondIsSlower
<1>5. railIts # <<>> => best \in ToSet(railIts) /\ best \in ToSet(all)
  BY BestFacts
<1>6. railIts = <<>> \/ best.signature \in Signatures(kept)
  OBVIOUS
<1> HIDE DEF all, kept, best
<1>7. RailIfAny(kept)
  <2> SUFFICES ASSUME railIts # <<>>
               PROVE  \E i \in DOMAIN kept : kept[i] \in ToSet(railIts)
    BY DEF RailIfAny
  <2>1. PICK i \in DOMAIN kept : kept[i].signature = best.signature
    BY <1>6 DEF Signatures
  <2>2. PICK b \in DOMAIN all : all[b] = best
    BY <1>5 DEF ToSet
  <2>3. i = b
    BY <1>1, <1>2, <2>1, <2>2 DEF Distinct
  <2> QED BY <1>2, <1>5, <2>1, <2>2, <2>3
<1>8. LeftOutSlower(kept)
  <2> SUFFICES ASSUME NEW it \in ToSet(all), it \notin ToSet(kept)
               PROVE  /\ it.duration >= kept[1].duration
                      /\ \A i \in DOMAIN kept : kept[i].duration <= it.duration
    BY <1>1 DEF LeftOutSlower
  <2>1. PICK k \in DOMAIN all : it = all[k]
    BY DEF ToSet
  <2>2. k \notin 1 .. MaxItineraries
    BY <1>2, <2>1 DEF ToSet
  <2>3. \A i \in 1 .. MaxItineraries : i <= k
    BY <1>3, <2>2
  <2>4. \A i \in DOMAIN kept :
          /\ kept[i].duration <= it.duration
          /\ kept[i].duration \in Nat /\ it.duration \in Nat
    BY <1>2, <1>4, <2>1, <2>3
  <2>5. 1 \in DOMAIN kept
    BY <1>2, <1>3
  <2> QED BY <2>4, <2>5
<1> QED BY <1>2, <1>3, <1>7, <1>8 DEF FitToAnswer, all, kept

(* The railway alternative in the last place: it is the only one of the
   second search that is kept, and the only one that may be slower than what
   is left out.                                                            *)
LEMMA ReplacedFit ==
  ASSUME fastIts \in Seq(Itineraries), railIts \in Seq(Itineraries), DistinctInv,
         Len(AllRanked) > MaxItineraries, railIts # <<>>,
         Ranked(railIts)[1].signature
           \notin Signatures(SubSeq(AllRanked, 1, MaxItineraries))
  PROVE  FitToAnswer(Ranked([SubSeq(AllRanked, 1, MaxItineraries)
                               EXCEPT ![MaxItineraries] = Ranked(railIts)[1]]))
<1> DEFINE all  == AllRanked
           kept == SubSeq(all, 1, MaxItineraries)
           best == Ranked(railIts)[1]
           with == [kept EXCEPT ![MaxItineraries] = best]
           its  == Ranked(with)
           last == MaxItineraries
<1>1. /\ all \in Seq(Itineraries) /\ Distinct(all)
      /\ ToSet(all) = ToSet(fastIts \o railIts)
  BY AllFacts
<1>2. /\ kept \in Seq(Itineraries) /\ Len(kept) = last
      /\ DOMAIN kept = 1 .. last
      /\ \A i \in 1 .. last : i \in DOMAIN all /\ kept[i] = all[i]
      /\ Distinct(kept)
  BY KeptFacts
<1>3. last \in Nat /\ last >= 2 /\ DOMAIN all \subseteq Nat \ {0}
  BY <1>1, MaxAssumption
<1>4. \A i, k \in DOMAIN all : i <= k =>
        /\ all[i].duration <= all[k].duration
        /\ all[i].duration \in Nat /\ all[k].duration \in Nat
  BY BeyondIsSlower
<1>5. best \in ToSet(railIts) /\ best \in Itineraries /\ best \in ToSet(all)
  BY BestFacts
<1>6. \A b, k \in DOMAIN all : all[b] = best /\ all[k] \in ToSet(railIts) => b <= k
  BY BestIsFirstRail
<1>7. best.signature \notin Signatures(kept)
  OBVIOUS
<1> HIDE DEF all, kept, best
<1>8. /\ with \in Seq(Itineraries) /\ Len(with) = last
      /\ DOMAIN with = 1 .. last /\ with[last] = best
      /\ \A i \in 1 .. last : i # last => with[i] = all[i]
  BY <1>2, <1>3, <1>5
<1>9. Distinct(with)
  <2>1. \A i \in 1 .. last : kept[i].signature # best.signature
    BY <1>2, <1>7 DEF Signatures
  <2> HIDE DEF with
  <2>2. \A i \in 1 .. last : i # last => with[i] = kept[i]
    BY <1>2, <1>8
  <2> QED BY <1>2, <1>8, <2>1, <2>2 DEF Distinct
<1> HIDE DEF with
<1>10. /\ its \in Seq(Itineraries) /\ Len(its) = last
       /\ ToSet(its) = ToSet(with)
       /\ Sorted(its) /\ Distinct(its)
  BY <1>8, <1>9, RankedFacts
<1> HIDE DEF its
<1>11. DOMAIN its = 1 .. last /\ \A i \in DOMAIN its : its[i] \in Itineraries
  BY <1>10
<1>12. best \in ToSet(its)
  <2>1. last \in 1 .. last
    BY <1>3
  <2> QED BY <1>8, <1>10, <2>1 DEF ToSet
<1>13. PICK p \in DOMAIN its : its[p] = best
  BY <1>12 DEF ToSet
<1>14. \A i \in DOMAIN its :
         i # p => \E n \in 1 .. last : n # last /\ its[i] = all[n]
  <2> SUFFICES ASSUME NEW i \in DOMAIN its, i # p
               PROVE  \E n \in 1 .. last : n # last /\ its[i] = all[n]
    OBVIOUS
  <2>1. its[i] \in ToSet(with)
    BY <1>10 DEF ToSet
  <2>2. PICK n \in 1 .. last : its[i] = with[n]
    BY <1>8, <2>1 DEF ToSet
  <2>3. its[i] # best
    BY <1>10, <1>13 DEF Distinct
  <2> QED BY <1>8, <2>2, <2>3
<1>15. PICK b \in DOMAIN all : all[b] = best
  BY <1>5 DEF ToSet
<1>16. b > last
  <2>1. b \notin 1 .. last
    BY <1>2, <1>7, <1>15 DEF Signatures
  <2> QED BY <1>3, <2>1
<1>17. {i \in DOMAIN its : its[i] \in ToSet(railIts)} = {p}
  <2>1. its[p] \in ToSet(railIts)
    BY <1>5, <1>13
  <2>2. ASSUME NEW i \in DOMAIN its, its[i] \in ToSet(railIts), i # p
        PROVE  FALSE
    <3>1. PICK n \in 1 .. last : its[i] = all[n]
      BY <1>14, <2>2
    <3>2. n \in DOMAIN all
      BY <1>2
    <3>3. b <= n
      BY <1>6, <1>15, <2>2, <3>1, <3>2
    <3> QED BY <1>3, <1>16, <3>3
  <2> QED BY <2>1, <2>2
<1>18. RailIfAny(its)
  BY <1>5, <1>13 DEF RailIfAny
<1>19. LeftOutSlower(its)
  <2> SUFFICES ASSUME NEW it \in ToSet(all), it \notin ToSet(its)
               PROVE  /\ it.duration >= its[1].duration
                      /\ \A i \in DOMAIN its :
                           its[i].duration <= it.duration \/ i = p
    BY <1>1, <1>17 DEF LeftOutSlower
  <2>1. PICK k \in DOMAIN all : it = all[k]
    BY DEF ToSet
  <2>2. ASSUME NEW n \in 1 .. last, n # last
        PROVE  n < k /\ all[n] \in ToSet(its)
    <3>1. \A m \in 1 .. last : m # last => all[m] \in ToSet(with)
      BY <1>8 DEF ToSet
    <3>2. \A m \in 1 .. last : m # last => k # m
      BY <1>10, <2>1, <3>1
    <3>3. k >= last
      BY <1>3, <3>2
    <3> QED BY <1>3, <1>10, <2>2, <3>1, <3>3
  <2>3. \A n \in 1 .. last : n # last =>
          /\ all[n].duration <= it.duration
          /\ all[n].duration \in Nat /\ it.duration \in Nat
    <3> SUFFICES ASSUME NEW n \in 1 .. last, n # last
                 PROVE  /\ all[n].duration <= it.duration
                        /\ all[n].duration \in Nat /\ it.duration \in Nat
      OBVIOUS
    <3>1. n < k /\ n \in DOMAIN all
      BY <1>2, <2>2
    <3>2. n <= k
      BY <1>3, <3>1
    <3> QED BY <1>4, <2>1, <3>1, <3>2
  <2>4. \A i \in DOMAIN its : its[i].duration <= it.duration \/ i = p
    BY <1>14, <2>3
  <2>5. 1 \in 1 .. last /\ 1 # last
    BY <1>3
  <2>6. PICK m \in DOMAIN its : its[m] = all[1]
    BY <2>2, <2>5 DEF ToSet
  <2>7. its[1].duration <= its[m].duration
    <3>1. 1 \in DOMAIN its /\ its[1] \in Itineraries /\ m \in 1 .. last
      BY <1>11, <2>5
    <3>2. its[1].duration \in Nat
      BY <3>1 DEF Itineraries
    <3>3. CASE m = 1
      BY <3>2, <3>3
    <3>4. CASE 1 < m
      BY <1>10, <3>1, <3>4 DEF Sorted
    <3> QED BY <3>1, <3>3, <3>4
  <2>8. its[1].duration \in Nat
    BY <1>11, <2>5 DEF Itineraries
  <2>9. /\ its[m].duration <= it.duration
        /\ its[m].duration \in Nat /\ it.duration \in Nat
    BY <2>3, <2>5, <2>6
  <2> QED BY <2>4, <2>7, <2>8, <2>9
<1>20. FitToAnswer(its)
  BY <1>3, <1>10, <1>18, <1>19 DEF FitToAnswer
<1> QED BY <1>20 DEF its, with, best, kept, all

LEMMA CutFits ==
  ASSUME fastIts \in Seq(Itineraries), railIts \in Seq(Itineraries), DistinctInv
  PROVE  FitToAnswer(Cut(AllRanked))
<1>1. Len(AllRanked) \in Nat /\ MaxItineraries \in Nat
  BY AllFacts, MaxAssumption
<1>2. CASE Len(AllRanked) <= MaxItineraries
  BY <1>2, AllFit DEF Cut
<1>3. CASE /\ Len(AllRanked) > MaxItineraries
           /\ \/ railIts = <<>>
              \/ Ranked(railIts)[1].signature
                   \in Signatures(SubSeq(AllRanked, 1, MaxItineraries))
  <2>1. Cut(AllRanked) = SubSeq(AllRanked, 1, MaxItineraries)
    BY <1>1, <1>3 DEF Cut
  <2> QED BY <1>3, <2>1, KeptFit
<1>4. CASE /\ Len(AllRanked) > MaxItineraries
           /\ railIts # <<>>
           /\ Ranked(railIts)[1].signature
                \notin Signatures(SubSeq(AllRanked, 1, MaxItineraries))
  <2>1. Cut(AllRanked) = Ranked([SubSeq(AllRanked, 1, MaxItineraries)
                                   EXCEPT ![MaxItineraries] = Ranked(railIts)[1]])
    BY <1>1, <1>4 DEF Cut
  <2> QED BY <1>4, <2>1, ReplacedFit
<1> QED BY <1>1, <1>2, <1>3, <1>4

(* With nothing from a second search, the answer is led by what plan took for
   the fastest when it decided against one.                                *)
LEMMA LedByFastest ==
  ASSUME fastIts \in Seq(Itineraries), railIts = <<>>, DistinctInv,
         Cut(AllRanked) # <<>>
  PROVE  fastIts # <<>> /\ Cut(AllRanked)[1] = Fastest(fastIts)
<1> DEFINE fast == Ranked(fastIts)
           all  == AllRanked
<1>1. railIts \in Seq(Itineraries)
  OBVIOUS
<1>2. /\ fast \in Seq(Itineraries) /\ Len(fast) = Len(fastIts)
      /\ ToSet(fast) = ToSet(fastIts) /\ Sorted(fast)
  BY RankedFacts
<1>3. all = Ranked(fast)
  <2>1. Ranked(railIts) \in Seq(Itineraries) /\ Len(Ranked(railIts)) = 0
    BY <1>1, RankedFacts, EmptySeq
  <2>2. Ranked(railIts) = <<>>
    BY <2>1, EmptySeq
  <2> HIDE DEF fast
  <2> QED BY <1>2, <2>2, ConcatEmptySeq DEF AllRanked, fast
<1>4. all \in Seq(Itineraries) /\ Len(all) = Len(fast)
  <2> HIDE DEF fast, all
  <2> QED BY <1>2, <1>3, RankedFacts
<1>5. MaxItineraries \in Nat /\ MaxItineraries >= 2
  BY MaxAssumption
<1>6. all # <<>> /\ Cut(all)[1] = all[1]
  <2>1. CASE Len(all) <= MaxItineraries
    BY <2>1 DEF Cut
  <2>2. CASE Len(all) > MaxItineraries
    <3>1. Cut(all) = SubSeq(all, 1, MaxItineraries)
      BY <1>4, <1>5, <2>2 DEF Cut
    <3>2. 1 \in 1 .. MaxItineraries /\ all # <<>>
      BY <1>4, <1>5, <2>2, EmptySeq
    <3> QED BY <1>1, <2>2, <3>1, <3>2, KeptFacts
  <2> QED BY <1>4, <1>5, <2>1, <2>2
<1>7. fast # <<>> /\ fastIts # <<>>
  <2>1. Len(all) # 0
    BY <1>4, <1>6, EmptySeq
  <2> QED BY <1>2, <1>4, <2>1, EmptySeq
<1>8. all[1] = Fastest(fast)
  <2> HIDE DEF fast, all
  <2> QED BY <1>2, <1>3, <1>7, FastestIsFirst
<1>9. Fastest(fast) = fast[1]
  <2> DEFINE best == {i \in DOMAIN fast : \A j \in DOMAIN fast :
                        fast[i].duration <= fast[j].duration}
  <2>1. Len(fast) \in Nat \ {0}
    BY <1>2, <1>7, EmptySeq
  <2> HIDE DEF fast
  <2>2. 1 \in DOMAIN fast /\ DOMAIN fast \subseteq Nat \ {0}
        /\ \A i \in DOMAIN fast : fast[i] \in Itineraries
    BY <1>2, <2>1
  <2>3. fast[1].duration \in Nat
    BY <2>2 DEF Itineraries
  <2>4. 1 \in best
    <3>1. \A j \in DOMAIN fast : fast[1].duration <= fast[j].duration
      <4> SUFFICES ASSUME NEW j \in DOMAIN fast
                   PROVE  fast[1].duration <= fast[j].duration
        OBVIOUS
      <4>1. CASE j = 1
        BY <2>3, <4>1
      <4>2. CASE 1 < j
        BY <1>2, <2>2, <4>2 DEF Sorted
      <4> QED BY <2>2, <4>1, <4>2
    <3> QED BY <2>2, <3>1
  <2>5. best \subseteq Nat \ {0}
    BY <2>2
  <2> HIDE DEF best
  <2>6. \A x \in best : 1 <= x
    BY <2>5
  <2>7. \A x \in best : (\A y \in best : x <= y) => x = 1
    BY <2>4, <2>5
  <2>8. Min(best) = 1
    BY <2>4, <2>6, <2>7 DEF Min
  <2> QED BY <2>8 DEF Fastest, best
<1>10. fast[1] = Fastest(fastIts)
  BY <1>7, FastestIsFirst
<1> QED BY <1>6, <1>7, <1>8, <1>9, <1>10

-----------------------------------------------------------------------------
LEMMA InitInv ==
  ASSUME Init
  PROVE  PlanInv
<1>1. TypeOK
  BY MaxAssumption, EmptySeq DEF Init, TypeOK
<1>2. DistinctInv
  BY DEF Init, DistinctInv, Distinct, Signatures
<1>3. SearchInv /\ NoTwins /\ CutFairly
  BY DEF Init, SearchInv, NoTwins, CutFairly
<1> QED BY <1>1, <1>2, <1>3 DEF PlanInv, Init

(* Only Rank fills the answer.                                             *)
LEMMA RankStep ==
  ASSUME PlanInv, Rank
  PROVE  PlanInv'
<1> DEFINE its == Cut(AllRanked)
<1> USE DEF PlanInv
<1>1. /\ request' = request /\ next' = next /\ fastIts' = fastIts /\ railIts' = railIts
      /\ pc = "rank" /\ pc' = "done" /\ answer' = its
  BY DEF Rank
<1>2. fastIts \in Seq(Itineraries) /\ railIts \in Seq(Itineraries) /\ DistinctInv
  BY DEF TypeOK
<1>3. FitToAnswer(its)
  BY <1>2, CutFits
<1>4. railIts = <<>> /\ its # <<>> => fastIts # <<>> /\ its[1] = Fastest(fastIts)
  BY <1>2, LedByFastest
<1> HIDE DEF its
<1>5. TypeOK'
  BY <1>1, <1>3 DEF TypeOK, FitToAnswer
<1>6. DistinctInv' /\ SearchInv'
  <2>1. DistinctInv'
    BY <1>1, <1>2 DEF DistinctInv
  <2>2. SearchInv'
    BY <1>1 DEF SearchInv
  <2> QED BY <2>1, <2>2
<1>7. NoTwins'
  BY <1>1, <1>3 DEF NoTwins, FitToAnswer, Distinct
<1>8. FastestFirst'
  BY <1>1, <1>3 DEF FastestFirst, FitToAnswer, Sorted, LeftOutSlower
<1>9. RailsConsidered'
  <2>1. (railIts # <<>> => \E i \in DOMAIN answer : answer[i] \in ToSet(railIts))'
    BY <1>1, <1>3 DEF FitToAnswer, RailIfAny
  <2>2. ASSUME its # <<>>, its[1].bus, NEW i \in DOMAIN request.rail
        PROVE  Itinerary(request.rail[i]).signature \in Seen
    <3>1. FastestHasBus
      BY <1>1, <1>4, <2>2 DEF SearchInv, FastestHasBus
    <3> QED BY <1>1, <2>2, <3>1 DEF SearchInv
  <2>3. (answer # <<>> /\ answer[1].bus =>
           \A i \in DOMAIN request.rail : Itinerary(request.rail[i]).signature \in Seen)'
    <3>1. Seen' = Seen
      BY <1>1 DEF Seen, Signatures
    <3>2. \A i : Itinerary(request.rail[i])' = Itinerary(request.rail[i])
      BY <1>1 DEF Itinerary
    <3> QED BY <1>1, <2>2, <3>1, <3>2
  <2> QED BY <2>1, <2>3 DEF RailsConsidered
<1> QED BY <1>1, <1>5, <1>6, <1>7, <1>8, <1>9 DEF CutFairly

(* A journey of either search is converted: its itinerary is no twin.       *)
LEMMA ConvertFastStep ==
  ASSUME PlanInv, ConvertFast
  PROVE  PlanInv'
<1> DEFINE it == Itinerary(request.fast[next])
<1> USE DEF PlanInv
<1>1. /\ pc = "fast" /\ pc' = "fast" /\ next \in DOMAIN request.fast /\ next' = next + 1
      /\ fastIts' = WithNew(fastIts, it) /\ railIts' = railIts
      /\ request' = request /\ answer' = answer
  BY DEF ConvertFast
<1>2. request \in Requests /\ next \in Nat /\ answer = <<>>
      /\ fastIts \in Seq(Itineraries) /\ railIts = <<>>
  BY <1>1 DEF TypeOK, SearchInv
<1>3. it \in Itineraries
  BY <1>1, <1>2, ItineraryType DEF ToSet
<1>4. Signatures(fastIts) \subseteq Seen
  BY DEF Seen
<1> HIDE DEF it
<1>5. fastIts' \in Seq(Itineraries) /\ Distinct(fastIts')
  BY <1>1, <1>2, <1>3, <1>4, WithNewFacts DEF DistinctInv
<1>6. TypeOK'
  BY <1>1, <1>2, <1>5 DEF TypeOK
<1>7. DistinctInv'
  <2>1. Signatures(railIts') = {} /\ Distinct(railIts')
    BY <1>1, <1>2 DEF Signatures, Distinct
  <2> QED BY <1>5, <2>1 DEF DistinctInv
<1>8. SearchInv' /\ NoTwins' /\ CutFairly'
  BY <1>1, <1>2 DEF SearchInv, NoTwins, CutFairly
<1> QED BY <1>1, <1>2, <1>6, <1>7, <1>8

LEMMA ConvertRailStep ==
  ASSUME PlanInv, ConvertRail
  PROVE  PlanInv'
<1> DEFINE it == Itinerary(request.rail[next])
<1> USE DEF PlanInv
<1>1. /\ pc = "rail" /\ pc' = "rail" /\ next \in DOMAIN request.rail /\ next' = next + 1
      /\ railIts' = WithNew(railIts, it) /\ fastIts' = fastIts
      /\ request' = request /\ answer' = answer
  BY DEF ConvertRail
<1>2. request \in Requests /\ next \in Nat /\ answer = <<>>
      /\ fastIts \in Seq(Itineraries) /\ railIts \in Seq(Itineraries)
  BY <1>1 DEF TypeOK
<1>3. it \in Itineraries
  BY <1>1, <1>2, ItineraryType DEF ToSet
<1>4. Signatures(railIts) \subseteq Seen
  BY DEF Seen
<1> HIDE DEF it
<1>5. /\ railIts' \in Seq(Itineraries) /\ Distinct(railIts')
      /\ Signatures(railIts') \subseteq Signatures(railIts) \cup {it.signature}
      /\ Signatures(railIts) \subseteq Signatures(railIts')
      /\ it.signature \in Seen => railIts' = railIts
      /\ it.signature \notin Seen => it.signature \in Signatures(railIts')
  BY <1>1, <1>2, <1>3, <1>4, WithNewFacts DEF DistinctInv
<1>6. TypeOK'
  BY <1>1, <1>2, <1>5 DEF TypeOK
<1>7. DistinctInv'
  <2>1. Signatures(fastIts) \cap Signatures(railIts') = {}
    BY <1>5 DEF DistinctInv, Seen
  <2>2. Distinct(fastIts)
    BY DEF DistinctInv
  <2> QED BY <1>1, <1>5, <2>1, <2>2 DEF DistinctInv
<1>8. Seen \subseteq Seen' /\ it.signature \in Seen'
  <2>1. Signatures(fastIts') = Signatures(fastIts)
    BY <1>1
  <2> QED BY <1>5, <2>1 DEF Seen
<1>9. FastestHasBus /\ FastestHasBus'
  BY <1>1 DEF SearchInv, FastestHasBus
<1>10. ASSUME NEW i \in DOMAIN request.rail, i < next + 1
       PROVE  Itinerary(request.rail[i]).signature \in Seen'
  <2>1. CASE i = next
    BY <1>8, <2>1 DEF it
  <2>2. CASE i < next
    BY <1>1, <1>8, <1>9, <2>2 DEF SearchInv
  <2>3. i \in Int
    BY <1>2, RequestsAssumption DEF AnswerOfSearch
  <2> QED BY <1>2, <1>10, <2>1, <2>2, <2>3
<1>11. SearchInv'
  <2>1. \A i : Itinerary(request.rail[i])' = Itinerary(request.rail[i])
    BY <1>1 DEF Itinerary
  <2>2. next + 1 \in 1 .. Len(request.rail) + 1
    BY <1>1, <1>2, RequestsAssumption DEF AnswerOfSearch
  <2> QED BY <1>1, <1>9, <1>10, <2>1, <2>2 DEF SearchInv
<1>12. NoTwins' /\ CutFairly'
  BY <1>1, <1>2 DEF NoTwins, CutFairly
<1> QED BY <1>1, <1>2, <1>6, <1>7, <1>11, <1>12

(* The steps that only go on to the next one.                              *)
LEMMA PhaseStep ==
  ASSUME PlanInv,
         NoLinks \/ SearchFast \/ SearchRail \/ FastIsEnough \/ RailDone
  PROVE  PlanInv'
<1> USE DEF PlanInv
<1>1. /\ request' = request /\ fastIts' = fastIts /\ railIts' = railIts
      /\ answer' = answer /\ answer = <<>> /\ next' \in Nat
  BY DEF NoLinks, SearchFast, SearchRail, FastIsEnough, RailDone, TypeOK
<1>2. TypeOK'
  BY <1>1 DEF NoLinks, SearchFast, SearchRail, FastIsEnough, RailDone, TypeOK
<1>3. DistinctInv'
  BY <1>1 DEF DistinctInv
<1>4. NoTwins'
  BY <1>1 DEF NoTwins
<1>5. FastestHasBus' = FastestHasBus
  BY <1>1 DEF FastestHasBus
<1>6. Seen' = Seen /\ \A i : Itinerary(request.rail[i])' = Itinerary(request.rail[i])
  BY <1>1 DEF Seen, Itinerary
<1>7. CASE NoLinks
  <2>1. pc = "links" /\ pc' = "done" /\ fastIts = <<>> /\ railIts = <<>>
    BY <1>7 DEF NoLinks, SearchInv
  <2>2. ToSet(fastIts \o railIts) = {}
    BY <2>1 DEF ToSet
  <2>3. FastestFirst'
    BY <1>1, <2>2 DEF FastestFirst
  <2>4. RailsConsidered'
    BY <1>1, <2>1 DEF RailsConsidered
  <2>5. SearchInv'
    BY <2>1 DEF SearchInv
  <2> QED BY <1>1, <1>2, <1>3, <1>4, <2>1, <2>3, <2>4, <2>5 DEF CutFairly
<1>8. CASE SearchFast
  <2>1. SearchInv' /\ CutFairly'
    BY <1>1, <1>8 DEF SearchFast, SearchInv, CutFairly
  <2> QED BY <1>1, <1>2, <1>3, <1>4, <2>1
<1>9. CASE SearchRail
  <2>1. /\ \A i \in DOMAIN request.rail : ~(i < 1)
        /\ 1 \in 1 .. Len(request.rail) + 1
    BY RequestsAssumption DEF TypeOK, AnswerOfSearch
  <2>2. pc' = "rail" /\ next' = 1 /\ FastestHasBus
    BY <1>9 DEF SearchRail
  <2>3. SearchInv' /\ CutFairly'
    BY <1>1, <1>5, <2>1, <2>2 DEF SearchInv, CutFairly
  <2> QED BY <1>1, <1>2, <1>3, <1>4, <2>3
<1>10. CASE FastIsEnough
  <2>1. pc = "fast" /\ pc' = "rank" /\ ~FastestHasBus /\ railIts = <<>>
    BY <1>10 DEF FastIsEnough, SearchInv
  <2>2. SearchInv' /\ CutFairly'
    BY <1>1, <1>5, <2>1 DEF SearchInv, CutFairly
  <2> QED BY <1>1, <1>2, <1>3, <1>4, <2>2
<1>11. CASE RailDone
  <2>1. /\ pc = "rail" /\ pc' = "rank" /\ next \notin DOMAIN request.rail
        /\ FastestHasBus
    BY <1>11 DEF RailDone, SearchInv
  <2>2. \A i \in DOMAIN request.rail : Itinerary(request.rail[i]).signature \in Seen
    <3>1. request.rail \in Seq(Journey)
      BY RequestsAssumption DEF TypeOK, AnswerOfSearch
    <3>2. next \in 1 .. Len(request.rail) + 1 /\ next \notin 1 .. Len(request.rail)
      BY <2>1, <3>1 DEF SearchInv
    <3>3. \A i \in DOMAIN request.rail : i < next
      BY <3>1, <3>2
    <3> QED BY <2>1, <3>3 DEF SearchInv
  <2>3. SearchInv' /\ CutFairly'
    BY <1>1, <1>5, <1>6, <2>1, <2>2 DEF SearchInv, CutFairly
  <2> QED BY <1>1, <1>2, <1>3, <1>4, <2>3
<1> QED BY <1>7, <1>8, <1>9, <1>10, <1>11

LEMMA NextInv ==
  ASSUME PlanInv, [Next]_vars
  PROVE  PlanInv'
<1>1. CASE UNCHANGED vars
  <2> USE <1>1 DEF vars, PlanInv
  <2>1. TypeOK' /\ DistinctInv' /\ NoTwins'
    BY DEF TypeOK, DistinctInv, NoTwins
  <2>2. /\ Seen' = Seen /\ FastestHasBus' = FastestHasBus
        /\ \A i : Itinerary(request.rail[i])' = Itinerary(request.rail[i])
    BY DEF Seen, FastestHasBus, Itinerary
  <2>3. SearchInv'
    BY <2>2 DEF SearchInv
  <2>4. CutFairly'
    BY <2>2 DEF CutFairly, FastestFirst, RailsConsidered
  <2> QED BY <2>1, <2>3, <2>4
<1>2. CASE Next
  BY <1>2, PhaseStep, ConvertFastStep, ConvertRailStep, RankStep DEF Next
<1> QED BY <1>1, <1>2

LEMMA PlanInvariant == Spec => []PlanInv
<1> QED BY InitInv, NextInv, PTL DEF Spec

-----------------------------------------------------------------------------
(* Engine::plan answers with itineraries, at most MaxItineraries of them.   *)
THEOREM PlanTypeCorrect == Spec => []TypeOK
<1>1. PlanInv => TypeOK
  BY DEF PlanInv
<1> QED BY <1>1, PlanInvariant, PTL

(* However many journeys the two searches answer with, no two itineraries of
   an answer ride the same lines between the same stops.                    *)
THEOREM AnswerHasNoTwins == Spec => []NoTwins
<1>1. PlanInv => NoTwins
  BY DEF PlanInv
<1> QED BY <1>1, PlanInvariant, PTL

(* Whatever the limit, it drops none but the slowest, save that a railway
   alternative of the second search always has its place, and a bus leads an
   answer only after all railways were considered.                          *)
THEOREM LimitCutsFairly == Spec => []CutFairly
<1>1. PlanInv => CutFairly
  BY DEF PlanInv
<1> QED BY <1>1, PlanInvariant, PTL
=============================================================================
