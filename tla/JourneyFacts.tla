---------------------------- MODULE JourneyFacts ----------------------------
(***************************************************************************)
(* What the two searches' proofs share: facts about well-formed timetables *)
(* and queries, about legs, and about the least and the greatest of a set. *)
(***************************************************************************)
EXTENDS Journeys, Travel, FiniteSetTheorems, SequenceTheorems, TLAPS

(* A set of naturals has a least element, and that is what Min returns.    *)
LEMMA MinOfNats ==
  ASSUME NEW S \in SUBSET Nat, S # {}
  PROVE  Min(S) \in S /\ \A y \in S : Min(S) <= y
<1> DEFINE T == {1 .. n : n \in S}
<1>1. T \subseteq FiniteSubsetsOf(Nat)
  <2>1. \A n \in S : IsFiniteSet(1 .. n)
    BY FS_Interval
  <2> QED BY <2>1 DEF FiniteSubsetsOf
<1>2. PICK x \in T : \A y \in T : <<y, x>> \notin StrictSubsetOrdering(Nat)
  <2>1. T # {}
    OBVIOUS
  <2> QED BY <1>1, <2>1, WFMin, FS_StrictSubsetOrderingWellFounded
<1>3. PICK m \in S : x = 1 .. m
  OBVIOUS
<1>4. ASSUME NEW n \in S, n < m
      PROVE  FALSE
  <2>1. (1 .. n) \in T
    OBVIOUS
  <2>2. (1 .. n) \subseteq (1 .. m) /\ (1 .. n) # (1 .. m)
    BY <1>4
  <2> QED BY <1>1, <1>2, <1>3, <2>1, <2>2 DEF StrictSubsetOrdering, FiniteSubsetsOf
<1>5. \A n \in S : m <= n
  BY <1>4
<1> QED BY <1>5 DEF Min

(* Whatever integers the members of a finite set have, one has the greatest. *)
LEMMA GreatestValue ==
  ASSUME NEW I, IsFiniteSet(I), I # {}, NEW f \in [I -> Int]
  PROVE  \E i \in I : \A j \in I : f[j] <= f[i]
<1> DEFINE Above(i) == {j \in I : f[i] <= f[j]}
           T == {Above(i) : i \in I}
<1>1. T \subseteq FiniteSubsetsOf(I)
  <2>1. \A i \in I : Above(i) \subseteq I /\ IsFiniteSet(Above(i))
    BY FS_Subset
  <2> QED BY <2>1 DEF FiniteSubsetsOf
<1>2. PICK x \in T : \A y \in T : <<y, x>> \notin StrictSubsetOrdering(I)
  <2>1. T # {}
    <3> HIDE DEF Above
    <3> QED OBVIOUS
  <2> QED BY <1>1, <2>1, WFMin, FS_StrictSubsetOrderingWellFounded
<1>3. PICK i \in I : x = Above(i)
  OBVIOUS
<1>4. ASSUME NEW j \in I, f[i] < f[j]
      PROVE  FALSE
  <2>1. Above(j) \in T
    OBVIOUS
  <2>2. Above(j) \subseteq Above(i)
    <3>1. f[i] \in Int /\ f[j] \in Int /\ \A k \in I : f[k] \in Int
      OBVIOUS
    <3>2. \A k \in I : f[j] <= f[k] => f[i] <= f[k]
      BY <1>4, <3>1
    <3> QED BY <3>2
  <2>3. i \in Above(i) /\ i \notin Above(j)
    BY <1>4
  <2> HIDE DEF Above
  <2>4. Above(j) \in FiniteSubsetsOf(I) /\ x \in FiniteSubsetsOf(I)
    BY <1>1, <2>1
  <2>5. <<Above(j), x>> \in StrictSubsetOrdering(I)
    BY <1>3, <2>2, <2>3, <2>4 DEF StrictSubsetOrdering, FiniteSubsetsOf
  <2> QED BY <1>2, <2>1, <2>5
<1>5. \A j \in I : f[j] <= f[i]
  BY <1>4
<1> QED BY <1>5

(* A set of bounded naturals has a greatest element: what Max returns.     *)
LEMMA MaxOfBounded ==
  ASSUME NEW n \in Nat, NEW S \in SUBSET (1 .. n), S # {}
  PROVE  Max(S) \in S /\ \A y \in S : y <= Max(S)
<1> DEFINE f == [y \in S |-> y]
<1>1. IsFiniteSet(S)
  <2>1. IsFiniteSet(1 .. n) /\ S \subseteq 1 .. n
    BY FS_Interval
  <2> QED BY <2>1, FS_Subset
<1>2. f \in [S -> Int]
  OBVIOUS
<1>3. \E i \in S : \A j \in S : f[j] <= f[i]
  <2> HIDE DEF f
  <2> QED BY <1>1, <1>2, GreatestValue
<1>4. \E i \in S : \A j \in S : i >= j
  BY <1>3
<1>5. Max(S) \in S /\ \A y \in S : Max(S) >= y
  BY <1>4 DEF Max
<1>6. Max(S) \in Int /\ \A y \in S : y \in Int
  <2>1. S \subseteq Int
    OBVIOUS
  <2> QED BY <1>5, <2>1
<1> QED BY <1>5, <1>6

(* What well-formedness says of one trip of one pattern.                   *)
LEMMA PatternFacts ==
  ASSUME NEW t \in Timetables, NEW p \in DOMAIN t.patterns
  PROVE  /\ p \in Nat
         /\ t.patterns[p].stops \in Seq(Stops)
         /\ Len(t.patterns[p].stops) >= 2
         /\ t.patterns[p].trips \in Seq(PatternTrip)
<1>1. t.patterns \in Seq(Pattern) /\ Len(t.patterns[p].stops) >= 2
  BY TimetablesAssumption DEF WellFormedTimetable
<1>2. t.patterns[p] \in Pattern /\ p \in Nat
  BY <1>1
<1> QED BY <1>1, <1>2 DEF Pattern

LEMMA TripFacts ==
  ASSUME NEW t \in Timetables, NEW p \in DOMAIN t.patterns,
         NEW i \in DOMAIN t.patterns[p].trips
  PROVE  LET stops == t.patterns[p].stops
             trip  == t.patterns[p].trips[i]
         IN  /\ i \in Nat \ {0}
             /\ \A x \in DOMAIN stops :
                  trip.arrivals[x] \in Nat /\ trip.departures[x] \in Nat
             /\ \A x, y \in DOMAIN stops :
                  x < y => trip.departures[x] <= trip.arrivals[y]
<1> DEFINE stops == t.patterns[p].stops
           trip  == t.patterns[p].trips[i]
<1>1. t.patterns[p].trips \in Seq(PatternTrip) /\ stops \in Seq(Stops)
  BY PatternFacts
<1>2. trip \in PatternTrip /\ i \in Nat \ {0}
  BY <1>1
<1>3. trip.arrivals \in Seq(Nat) /\ trip.departures \in Seq(Nat)
  BY <1>2 DEF PatternTrip
<1>4. TripInOrder(t.patterns[p], trip)
  BY TimetablesAssumption DEF WellFormedTimetable
<1>5. /\ DOMAIN trip.arrivals = DOMAIN stops
      /\ DOMAIN trip.departures = DOMAIN stops
  BY <1>1, <1>3, <1>4, LenProperties DEF TripInOrder
<1>6. \A x \in DOMAIN stops :
        trip.arrivals[x] \in Nat /\ trip.departures[x] \in Nat
  BY <1>3, <1>5, LenProperties
<1>7. \A x, y \in DOMAIN stops : x < y => trip.departures[x] <= trip.arrivals[y]
  BY <1>4, <1>5 DEF TripInOrder
<1> QED BY <1>2, <1>6, <1>7

LEMMA WalkFacts ==
  ASSUME NEW t \in Timetables, NEW e \in DOMAIN t.walks
  PROVE  /\ t.walks[e] \in Nat
         /\ t.walks[e] > 0
         /\ e[1] # e[2]
<1>1. WalksAreTransfers(t.walks)
  BY TimetablesAssumption DEF WellFormedTimetable
<1>2. /\ t.walks[e] \in Nat
      /\ t.walks[e] >= Buffer
      /\ e[1] # e[2]
  BY <1>1, Zenon DEF WalksAreTransfers
<1> QED BY <1>2, BufferAssumption

LEMMA QueryFacts ==
  ASSUME NEW qu \in Queries
  PROVE  /\ qu.access \in Seq(StreetLink)
         /\ qu.egress \in Seq(StreetLink)
         /\ qu.time \in Nat
         /\ \A i \in DOMAIN qu.access :
              qu.access[i].stop \in Stops /\ qu.access[i].duration \in Nat
         /\ \A i \in DOMAIN qu.egress :
              qu.egress[i].stop \in Stops /\ qu.egress[i].duration \in Nat
<1>1. qu \in RaptorQuery
  BY QueriesAssumption DEF WellFormedQuery
<1>2. /\ qu.access \in Seq(StreetLink)
      /\ qu.egress \in Seq(StreetLink)
      /\ qu.time \in Nat
  BY <1>1 DEF RaptorQuery
<1>3. \A i \in DOMAIN qu.access : qu.access[i] \in StreetLink
  BY <1>2
<1>4. \A i \in DOMAIN qu.egress : qu.egress[i] \in StreetLink
  BY <1>2
<1> QED BY <1>2, <1>3, <1>4 DEF StreetLink

LEMMA TripDomain ==
  ASSUME NEW t \in Timetables, NEW p \in DOMAIN t.patterns,
         NEW i \in DOMAIN t.patterns[p].trips
  PROVE  DOMAIN t.patterns[p].trips[i].arrivals = DOMAIN t.patterns[p].stops
<1>1. /\ t.patterns[p].trips \in Seq(PatternTrip)
      /\ t.patterns[p].stops \in Seq(Stops)
  BY PatternFacts
<1>2. t.patterns[p].trips[i].arrivals \in Seq(Nat)
  <2>1. t.patterns[p].trips[i] \in PatternTrip
    BY <1>1
  <2> QED BY <2>1 DEF PatternTrip
<1>3. TripInOrder(t.patterns[p], t.patterns[p].trips[i])
  BY TimetablesAssumption DEF WellFormedTimetable
<1> QED BY <1>1, <1>2, <1>3, LenProperties DEF TripInOrder

-----------------------------------------------------------------------------
LEMMA WalkIfAnyType ==
  ASSUME NEW s \in Stops, NEW d \in Nat
  PROVE  WalkIfAny(s, d) \in Seq(Legs)
<1>1. Walk(s, d) \in Legs
  BY DEF Walk, Legs
<1> QED BY <1>1 DEF WalkIfAny

LEMMA RidesFinite ==
  ASSUME NEW legs \in Seq(Legs)
  PROVE  /\ IsFiniteSet(Rides(legs)) /\ Rides(legs) \in SUBSET (Nat \ {0})
         /\ RideCount(legs) \in Nat
<1>1. Rides(legs) \subseteq 1 .. Len(legs)
  BY DEF Rides
<1>2. IsFiniteSet(Rides(legs))
  BY <1>1, FS_Interval, FS_Subset
<1> QED BY <1>1, <1>2, FS_CardinalityType DEF RideCount

LEMMA RideCountType ==
  ASSUME NEW legs \in Seq(Legs)
  PROVE  Transfers(legs) \in Nat
BY RidesFinite DEF Transfers

-----------------------------------------------------------------------------
(* A clock of a journey: after a ride its arrival, after a walk so much later. *)
IsClock(t, legs, start, c) ==
  /\ c \in [0 .. Len(legs) -> Int]
  /\ c[0] = start
  /\ \A i \in 1 .. Len(legs) :
       c[i] = IF IsRide(legs[i]) THEN AlightTime(t, legs[i])
              ELSE c[i - 1] + legs[i].duration

(* Clock is one, by induction over the legs.                                *)
LEMMA ClockFacts ==
  ASSUME NEW t, NEW legs \in Seq(Legs), NEW start \in Int,
         \A i \in DOMAIN legs : IsRide(legs[i]) => AlightTime(t, legs[i]) \in Int,
         \A i \in DOMAIN legs : ~IsRide(legs[i]) => legs[i].duration \in Nat
  PROVE  IsClock(t, legs, start, Clock(t, legs, start))
<1> DEFINE N == Len(legs)
           After(i, x) == IF IsRide(legs[i]) THEN AlightTime(t, legs[i])
                          ELSE x + legs[i].duration
           Clocks(m) == {g \in [0 .. m -> Int] :
                           /\ g[0] = start
                           /\ \A i \in 1 .. m : g[i] = After(i, g[i - 1])}
           without == {m \in 0 .. N : Clocks(m) = {}}
<1>1. N \in Nat /\ DOMAIN legs = 1 .. N
  BY LenProperties
<1>2. \A i \in 1 .. N, x \in Int : After(i, x) \in Int
  BY <1>1
<1>3. without = {}
  <2> SUFFICES ASSUME without # {} PROVE FALSE
    OBVIOUS
  <2>1. without \in SUBSET Nat
    OBVIOUS
  <2> DEFINE m == Min(without)
  <2>2. m \in without /\ \A y \in without : m <= y
    <3> HIDE DEF without
    <3> QED BY <2>1, MinOfNats
  <2>3. m \in 0 .. N /\ Clocks(m) = {}
    BY <2>2
  <2> HIDE DEF m
  <2>4. m # 0
    <3>1. [i \in 0 .. 0 |-> start] \in Clocks(0)
      OBVIOUS
    <3> HIDE DEF Clocks
    <3> QED BY <2>3, <3>1
  <2>5. m - 1 \in 0 .. N /\ m - 1 \notin without
    <3> HIDE DEF without
    <3> QED BY <1>1, <2>1, <2>2, <2>3, <2>4
  <2>6. PICK g : g \in Clocks(m - 1)
    <3> HIDE DEF Clocks
    <3> QED BY <2>5 DEF without
  <2> DEFINE h == [i \in 0 .. m |-> IF i = m THEN After(m, g[m - 1]) ELSE g[i]]
  <2>7. g \in [0 .. m - 1 -> Int] /\ g[0] = start
        /\ \A i \in 1 .. m - 1 : g[i] = After(i, g[i - 1])
    BY <2>6
  <2>8. g[m - 1] \in Int /\ After(m, g[m - 1]) \in Int
    <3> HIDE DEF After
    <3> QED BY <1>1, <1>2, <2>3, <2>4, <2>7
  <2> HIDE DEF After
  <2>9. h \in [0 .. m -> Int]
    BY <2>7, <2>8, <2>3
  <2>10. h[0] = start /\ h[m] = After(m, h[m - 1])
    BY <2>3, <2>4, <2>7, <1>1
  <2>11. \A i \in 1 .. m : h[i] = After(i, h[i - 1])
    <3> SUFFICES ASSUME NEW i \in 1 .. m, i # m PROVE h[i] = After(i, h[i - 1])
      BY <2>10
    <3>1. h[i] = g[i] /\ h[i - 1] = g[i - 1] /\ i \in 1 .. m - 1
      BY <2>3, <1>1
    <3> QED BY <2>7, <3>1
  <2>12. h \in Clocks(m)
    <3> HIDE DEF h
    <3> QED BY <2>9, <2>10, <2>11
  <2> HIDE DEF Clocks
  <2> QED BY <2>3, <2>12
<1>4. PICK g : g \in Clocks(N)
  <2> HIDE DEF Clocks
  <2>1. N \notin without
    <3> HIDE DEF without
    <3> QED BY <1>3
  <2> QED BY <1>1, <2>1 DEF without
<1>5. g \in [0 .. N -> Int] /\ g[0] = start /\ \A i \in 1 .. N : g[i] = After(i, g[i - 1])
  BY <1>4
<1> DEFINE Body(f) == [i \in 0 .. N |-> IF i = 0 THEN start
                         ELSE IF IsRide(legs[i]) THEN AlightTime(t, legs[i])
                         ELSE f[i - 1] + legs[i].duration]
           c == Clock(t, legs, start)
<1>6. g = Body(g)
  BY <1>1, <1>5
<1>7. c = CHOOSE f : f = Body(f)
  BY DEF Clock
<1>8. c = Body(c)
  <2> HIDE DEF Body, c
  <2> QED BY <1>6, <1>7
<1>9. DOMAIN c = 0 .. N /\ c[0] = start
      /\ \A i \in 1 .. N : c[i] = After(i, c[i - 1])
  <2> HIDE DEF c
  <2> QED BY <1>1, <1>8
<1> HIDE DEF c
<1>10. \A i \in 0 .. N : c[i] \in Int
  <2> DEFINE odd == {i \in 0 .. N : c[i] \notin Int}
  <2> SUFFICES ASSUME odd # {} PROVE FALSE
    OBVIOUS
  <2>1. odd \in SUBSET Nat
    OBVIOUS
  <2> DEFINE m == Min(odd)
  <2>2. m \in odd /\ \A y \in odd : m <= y
    <3> HIDE DEF odd
    <3> QED BY <2>1, MinOfNats
  <2>3. m \in 0 .. N /\ c[m] \notin Int
    BY <2>2
  <2> HIDE DEF m
  <2>4. m # 0
    BY <1>9, <2>3
  <2>5. m - 1 \in 0 .. N /\ m - 1 \notin odd
    <3> HIDE DEF odd
    <3> QED BY <1>1, <2>1, <2>2, <2>3, <2>4
  <2>6. c[m - 1] \in Int
    BY <2>5
  <2>7. m \in 1 .. N
    BY <2>3, <2>4, <1>1
  <2> HIDE DEF After
  <2> QED BY <1>2, <1>9, <2>3, <2>6, <2>7
<1>11. c \in [0 .. N -> Int]
  <2>1. c = [i \in 0 .. N |-> c[i]]
    BY <1>8
  <2> QED BY <1>10, <2>1
<1> QED BY <1>9, <1>11 DEF c, IsClock


(* A ride of the timetable that this query may take.                       *)
Allowed(t, qu, ride) ==
  /\ ride.pattern \in DOMAIN t.patterns
  /\ PatternAllowed(t.patterns[ride.pattern], qu)
  /\ ride.trip \in DOMAIN t.patterns[ride.pattern].trips
  /\ Boardable(t.patterns[ride.pattern].trips[ride.trip], qu)
  /\ ride.board \in DOMAIN t.patterns[ride.pattern].stops
  /\ ride.alight \in DOMAIN t.patterns[ride.pattern].stops
  /\ ride.board < ride.alight

(* Where leg i starts, and how long before it one must have got there.     *)
PlaceBefore(t, legs, from, i) ==
  IF i = 1 THEN from ELSE LegEnd(t, legs[i - 1])

PauseBefore(legs, i) == IF i > 1 /\ IsRide(legs[i - 1]) THEN Buffer ELSE 0

LastPlace(t, legs, from) ==
  IF legs = <<>> THEN from ELSE LegEnd(t, legs[Len(legs)])

(* Whoever is at from by times[0] and takes the legs is through with leg i by
   times[i].                                                               *)
Timely(t, qu, legs, from, times) ==
  \A i \in DOMAIN legs :
    IF IsRide(legs[i])
    THEN /\ Allowed(t, qu, legs[i])
         /\ t.patterns[legs[i].pattern].stops[legs[i].board]
              = PlaceBefore(t, legs, from, i)
         /\ times[i - 1] + PauseBefore(legs, i) <= BoardTime(t, legs[i])
         /\ AlightTime(t, legs[i]) <= times[i]
    ELSE /\ <<PlaceBefore(t, legs, from, i), legs[i].stop>> \in DOMAIN t.walks
         /\ t.walks[<<PlaceBefore(t, legs, from, i), legs[i].stop>>]
              = legs[i].duration
         /\ times[i - 1] + legs[i].duration <= times[i]

LEMMA RideTimes ==
  ASSUME NEW t \in Timetables, NEW qu, NEW ride, Allowed(t, qu, ride)
  PROVE  BoardTime(t, ride) \in Nat /\ AlightTime(t, ride) \in Nat
BY TripFacts DEF Allowed, BoardTime, AlightTime

(* Legs that are timely can be travelled, and the clock keeps to the times. *)
LEMMA TimelyIsTravelled ==
  ASSUME NEW t \in Timetables, NEW qu, NEW legs \in Seq(Legs), NEW from,
         NEW times \in [0 .. Len(legs) -> Int], NEW start \in Int,
         Timely(t, qu, legs, from, times), start <= times[0]
  PROVE  /\ \A i \in DOMAIN legs :
              CanTravel(t, qu, legs, i, from, Clock(t, legs, start))
         /\ Clock(t, legs, start)[Len(legs)] \in Int
         /\ Clock(t, legs, start)[Len(legs)] <= times[Len(legs)]
<1> DEFINE c == Clock(t, legs, start)
           N == Len(legs)
<1>1. N \in Nat /\ DOMAIN legs = 1 .. N
  BY LenProperties
<1>2. \A i \in DOMAIN legs : IsRide(legs[i]) =>
        /\ Allowed(t, qu, legs[i])
        /\ BoardTime(t, legs[i]) \in Nat /\ AlightTime(t, legs[i]) \in Nat
  BY RideTimes DEF Timely
<1>3. \A i \in DOMAIN legs : ~IsRide(legs[i]) => legs[i].duration \in Nat
  <2> SUFFICES ASSUME NEW i \in DOMAIN legs, ~IsRide(legs[i])
               PROVE  legs[i].duration \in Nat
    OBVIOUS
  <2>1. legs[i] \in Legs
    BY <1>1
  <2> QED BY <2>1 DEF Legs, IsRide
<1>4. /\ c \in [0 .. N -> Int] /\ c[0] = start
      /\ \A i \in 1 .. N : c[i] = IF IsRide(legs[i]) THEN AlightTime(t, legs[i])
                                  ELSE c[i - 1] + legs[i].duration
  <2>1. \A i \in DOMAIN legs : IsRide(legs[i]) => AlightTime(t, legs[i]) \in Int
    BY <1>2
  <2> HIDE DEF c
  <2>2. IsClock(t, legs, start, c)
    BY <1>3, <2>1, ClockFacts DEF c
  <2> QED BY <2>2 DEF IsClock
<1> HIDE DEF c
<1>5. \A i \in 0 .. N : c[i] <= times[i]
  <2> DEFINE late == {i \in 0 .. N : ~(c[i] <= times[i])}
  <2> SUFFICES ASSUME late # {} PROVE FALSE
    OBVIOUS
  <2>1. late \in SUBSET Nat
    OBVIOUS
  <2> DEFINE m == Min(late)
  <2>2. m \in late /\ \A y \in late : m <= y
    <3> HIDE DEF late
    <3> QED BY <2>1, MinOfNats
  <2>3. m \in 0 .. N /\ ~(c[m] <= times[m])
    BY <2>2
  <2> HIDE DEF m
  <2>4. m # 0
    BY <1>4, <2>3
  <2>5. m - 1 \in 0 .. N /\ m - 1 \notin late
    <3> HIDE DEF late
    <3> QED BY <1>1, <2>1, <2>2, <2>3, <2>4
  <2>6. c[m - 1] <= times[m - 1] /\ m \in 1 .. N
    BY <1>1, <2>3, <2>4, <2>5
  <2>7. CASE IsRide(legs[m])
    <3>1. AlightTime(t, legs[m]) <= times[m]
      BY <1>1, <2>6, <2>7 DEF Timely
    <3>2. c[m] = AlightTime(t, legs[m])
      BY <1>4, <2>6, <2>7
    <3> QED BY <2>3, <3>1, <3>2
  <2>8. CASE ~IsRide(legs[m])
    <3>1. times[m - 1] + legs[m].duration <= times[m]
      BY <1>1, <2>6, <2>8 DEF Timely
    <3>2. c[m] = c[m - 1] + legs[m].duration /\ legs[m].duration \in Nat
      BY <1>1, <1>3, <1>4, <2>6, <2>8
    <3>3. c[m] \in Int /\ c[m - 1] \in Int /\ times[m] \in Int /\ times[m - 1] \in Int
      BY <1>1, <1>4, <2>3, <2>5
    <3> QED BY <2>3, <2>6, <3>1, <3>2, <3>3
  <2> QED BY <2>7, <2>8
<1>6. ASSUME NEW i \in DOMAIN legs
      PROVE  CanTravel(t, qu, legs, i, from, c)
  <2>1. i \in 1 .. N /\ i - 1 \in 0 .. N
    BY <1>1
  <2>2. CASE IsRide(legs[i])
    <3>1. /\ Allowed(t, qu, legs[i])
          /\ t.patterns[legs[i].pattern].stops[legs[i].board]
               = PlaceBefore(t, legs, from, i)
          /\ times[i - 1] + PauseBefore(legs, i) <= BoardTime(t, legs[i])
      BY <2>2 DEF Timely
    <3>2. c[i - 1] <= times[i - 1] /\ c[i - 1] \in Int /\ times[i - 1] \in Int
      BY <1>4, <1>5, <2>1
    <3>3. PauseBefore(legs, i) \in Nat
      BY BufferAssumption DEF PauseBefore
    <3>4. BoardTime(t, legs[i]) >= c[i - 1] + PauseBefore(legs, i)
      BY <1>2, <2>2, <3>1, <3>2, <3>3
    <3> QED BY <2>2, <3>1, <3>4 DEF CanTravel, Allowed, PlaceBefore, PauseBefore
  <2>3. CASE ~IsRide(legs[i])
    BY <2>3 DEF CanTravel, Timely, PlaceBefore
  <2> QED BY <2>2, <2>3
<1> QED BY <1>1, <1>4, <1>5, <1>6 DEF c

(* Timely legs between two walks on the streets are a journey.             *)
LEMMA TimelyIsFeasible ==
  ASSUME NEW t \in Timetables, NEW qu, NEW legs \in Seq(Legs),
         NEW a \in StreetLink, NEW e \in StreetLink,
         NEW times \in [0 .. Len(legs) -> Int], NEW start \in Int, NEW end \in Int,
         Timely(t, qu, legs, a.stop, times), start + a.duration <= times[0],
         LastPlace(t, legs, a.stop) = e.stop,
         times[Len(legs)] + e.duration <= end
  PROVE  Feasible(t, qu, WalkIfAny(a.stop, a.duration) \o legs
                           \o WalkIfAny(e.stop, e.duration), a, e, start, end)
<1> DEFINE out == WalkIfAny(a.stop, a.duration)
           in  == WalkIfAny(e.stop, e.duration)
           all == out \o legs \o in
           middle == SubSeq(all, Len(out) + 1, Len(all) - Len(in))
           c == Clock(t, legs, start + a.duration)
<1>1. /\ a.stop \in Stops /\ a.duration \in Nat
      /\ e.stop \in Stops /\ e.duration \in Nat
  BY DEF StreetLink
<1>2. out \in Seq(Legs) /\ in \in Seq(Legs)
  BY <1>1, WalkIfAnyType
<1> HIDE DEF out, in
<1>3. /\ all \in Seq(Legs) /\ Len(all) = Len(out) + Len(legs) + Len(in)
      /\ Len(out) \in Nat /\ Len(legs) \in Nat /\ Len(in) \in Nat
      /\ \A i \in 1 .. Len(legs) : all[Len(out) + i] = legs[i]
  BY <1>2
<1>4. middle = legs
  <2> DEFINE m == Len(out) + 1
             n == Len(all) - Len(in)
  <2>1. m \in Int /\ n \in Int /\ n - m + 1 = Len(legs)
    BY <1>3
  <2>2. \A i \in m .. n : all[i] \in Legs
    <3>1. \A i \in m .. n : i \in 1 .. Len(all)
      BY <1>3
    <3> HIDE DEF m, n, all
    <3> QED BY <1>3, <3>1
  <2>3. /\ middle \in Seq(Legs)
        /\ Len(middle) = IF m <= n THEN n - m + 1 ELSE 0
        /\ \A i \in 1 .. n - m + 1 : middle[i] = all[m + i - 1]
    <3> HIDE DEF m, n, all
    <3>1. middle = SubSeq(all, m, n)
      BY DEF m, n
    <3> HIDE DEF middle
    <3> QED BY <2>1, <2>2, <3>1, SubSeqProperties
  <2>4. Len(middle) = Len(legs)
    <3> HIDE DEF m, n, all, middle
    <3>1. m <= n <=> n - m + 1 > 0
      BY <2>1
    <3> QED BY <1>3, <2>1, <2>3, <3>1
  <2>5. \A i \in 1 .. Len(legs) : middle[i] = legs[i]
    <3> SUFFICES ASSUME NEW i \in 1 .. Len(legs) PROVE middle[i] = legs[i]
      OBVIOUS
    <3>1. m + i - 1 = Len(out) + i
      BY <1>3
    <3> HIDE DEF m, n, all, middle
    <3> QED BY <1>3, <2>1, <2>3, <3>1
  <2> HIDE DEF middle
  <2> QED BY <2>3, <2>4, <2>5, SeqEqual
<1>5. /\ \A i \in DOMAIN legs : CanTravel(t, qu, legs, i, a.stop, c)
      /\ c[Len(legs)] \in Int
      /\ c[Len(legs)] <= times[Len(legs)]
  <2>1. start + a.duration \in Int
    BY <1>1
  <2> HIDE DEF c
  <2> QED BY <2>1, TimelyIsTravelled, Zenon DEF c
<1>6. c[Len(legs)] + e.duration <= end
  <2> HIDE DEF c
  <2>1. times[Len(legs)] \in Int
    BY <1>3
  <2> QED BY <1>1, <1>5, <2>1
<1> HIDE DEF c, all, middle
<1>7. Feasible(t, qu, all, a, e, start, end)
  <2>1. Feasible(t, qu, all, a, e, start, end) <=>
          /\ all = out \o middle \o in
          /\ \A i \in DOMAIN middle : CanTravel(t, qu, middle, i, a.stop,
                 Clock(t, middle, start + a.duration))
          /\ LastPlace(t, middle, a.stop) = e.stop
          /\ Clock(t, middle, start + a.duration)[Len(middle)] + e.duration <= end
    BY Zenon DEF Feasible, LastPlace, out, in, middle
  <2>2. all = out \o middle \o in
    BY <1>4 DEF all
  <2> QED BY <1>4, <1>5, <1>6, <2>1, <2>2 DEF c
<1> QED BY <1>7 DEF all, out, in


(* May a leg from a place and a time of its own go in front of timely legs? *)
MayPrecede(t, qu, leg, from, start, legs, times) ==
  /\ IsRide(leg) => /\ Allowed(t, qu, leg)
                    /\ t.patterns[leg.pattern].stops[leg.board] = from
                    /\ start <= BoardTime(t, leg)
                    /\ AlightTime(t, leg) <= times[0]
  /\ ~IsRide(leg) => /\ <<from, leg.stop>> \in DOMAIN t.walks
                     /\ t.walks[<<from, leg.stop>>] = leg.duration
                     /\ start + leg.duration <= times[0]
  /\ IsRide(leg) /\ legs # <<>> =>
       (IsRide(legs[1]) => times[0] + Buffer <= BoardTime(t, legs[1]))

MoreInFront(t, qu, leg, from, start, legs, via, times, all) ==
  /\ all \in Seq(Legs) /\ Len(all) = Len(legs) + 1 /\ all[1] = leg
  /\ LastPlace(t, all, from) = LastPlace(t, legs, via)
  /\ \E later \in [0 .. Len(legs) + 1 -> Int] :
       /\ later[0] = start
       /\ later[Len(legs) + 1] = times[Len(legs)]
       /\ Timely(t, qu, all, from, later)

(* One leg more in front of timely legs, from a place and a time of its own. *)
LEMMA OneMoreInFront ==
  ASSUME NEW t, NEW qu, NEW legs \in Seq(Legs), NEW from, NEW via,
         NEW times \in [0 .. Len(legs) -> Int], NEW start \in Int,
         Timely(t, qu, legs, via, times), NEW leg \in Legs,
         LegEnd(t, leg) = via,
         MayPrecede(t, qu, leg, from, start, legs, times)
  PROVE  MoreInFront(t, qu, leg, from, start, legs, via, times, <<leg>> \o legs)
<1> DEFINE all == <<leg>> \o legs
           N == Len(legs)
           later == [i \in 0 .. N + 1 |-> IF i = 0 THEN start ELSE times[i - 1]]
<1> USE DEF MayPrecede
<1>1. N \in Nat /\ DOMAIN legs = 1 .. N
  BY LenProperties
<1>2. /\ all \in Seq(Legs) /\ Len(all) = N + 1 /\ DOMAIN all = 1 .. N + 1
      /\ all[1] = leg
      /\ \A i \in 2 .. N + 1 : all[i] = legs[i - 1]
  BY <1>1
<1>3. /\ later \in [0 .. N + 1 -> Int] /\ later[0] = start
      /\ \A i \in 1 .. N + 1 : later[i] = times[i - 1]
  BY <1>1
<1> HIDE DEF all, later
<1>4. LastPlace(t, all, from) = LastPlace(t, legs, via)
  <2>1. all # <<>>
    BY <1>1, <1>2
  <2>2. CASE legs = <<>>
    <3>1. Len(all) = 1
      BY <1>2, <2>2
    <3> QED BY <1>2, <2>1, <2>2, <3>1 DEF LastPlace
  <2>3. CASE legs # <<>>
    <3>1. N + 1 \in 2 .. N + 1 /\ (N + 1) - 1 = N
      BY <1>1, <2>3, EmptySeq
    <3>2. all[N + 1] = legs[N]
      BY <1>2, <3>1
    <3> QED BY <1>2, <2>1, <2>3, <3>2 DEF LastPlace
  <2> QED BY <2>2, <2>3
<1>5. Timely(t, qu, all, from, later)
  <2>1. /\ PlaceBefore(t, all, from, 1) = from /\ PauseBefore(all, 1) = 0
    BY DEF PlaceBefore, PauseBefore
  <2>2. later[1] = times[0] /\ later[1 - 1] = start /\ times[0] \in Int
    <3>1. 1 \in 1 .. N + 1 /\ 1 - 1 = 0 /\ 0 \in 0 .. N
      BY <1>1
    <3>2. times[0] \in Int
      BY <3>1
    <3> QED BY <1>3, <3>1, <3>2
  <2>3. ASSUME NEW i \in DOMAIN all, i # 1
        PROVE  /\ i - 1 \in DOMAIN legs /\ all[i] = legs[i - 1]
               /\ later[i] = times[i - 1] /\ later[i - 1] = times[(i - 1) - 1]
               /\ PlaceBefore(t, all, from, i) = PlaceBefore(t, legs, via, i - 1)
               /\ i # 2 => PauseBefore(all, i) = PauseBefore(legs, i - 1)
    <3>1. i \in 2 .. N + 1 /\ i - 1 \in 1 .. N /\ i - 1 \in 1 .. N + 1
      BY <1>1, <1>2, <2>3
    <3>2. all[i] = legs[i - 1] /\ later[i] = times[i - 1]
          /\ later[i - 1] = times[(i - 1) - 1]
      BY <1>2, <1>3, <3>1
    <3>3. CASE i = 2
      <4>1. PlaceBefore(t, all, from, i) = LegEnd(t, leg)
        BY <1>2, <3>3 DEF PlaceBefore
      <4> QED BY <1>1, <3>1, <3>2, <3>3, <4>1 DEF PlaceBefore
    <3>4. CASE i # 2
      <4>1. i - 1 \in 2 .. N + 1 /\ i - 1 # 1 /\ i - 1 > 1 /\ i > 1
        BY <1>1, <3>1, <3>4
      <4>2. all[i - 1] = legs[(i - 1) - 1]
        BY <1>2, <4>1
      <4> QED BY <1>1, <2>3, <3>1, <3>2, <4>1, <4>2 DEF PlaceBefore, PauseBefore
    <3> QED BY <3>3, <3>4
  <2>4. ASSUME 2 \in DOMAIN all, IsRide(all[2])
        PROVE  later[2 - 1] + PauseBefore(all, 2) <= BoardTime(t, all[2])
    <3>1. all[2] = legs[1] /\ legs # <<>> /\ 1 \in DOMAIN legs
      <4>1. 2 \in 1 .. N + 1
        BY <1>2, <2>4
      <4>2. N >= 1 /\ 2 \in 2 .. N + 1 /\ 2 - 1 = 1
        BY <1>1, <4>1
      <4>3. all[2] = legs[1] /\ 1 \in DOMAIN legs
        BY <1>1, <1>2, <4>2
      <4>4. legs # <<>>
        BY <1>1, <4>2
      <4> QED BY <4>3, <4>4
    <3>2. PauseBefore(all, 2) = IF IsRide(leg) THEN Buffer ELSE 0
      BY <1>2 DEF PauseBefore
    <3>3. times[0] + PauseBefore(legs, 1) <= BoardTime(t, legs[1])
      <4>1. IsRide(legs[1])
        BY <2>4, <3>1
      <4>2. times[1 - 1] + PauseBefore(legs, 1) <= BoardTime(t, legs[1])
        BY <3>1, <4>1 DEF Timely
      <4> QED BY <4>2
    <3>4. PauseBefore(legs, 1) = 0
      BY DEF PauseBefore
    <3> QED BY <2>2, <2>4, <3>1, <3>2, <3>3, <3>4
  <2> SUFFICES ASSUME NEW i \in DOMAIN all
               PROVE  IF IsRide(all[i])
                      THEN /\ Allowed(t, qu, all[i])
                           /\ t.patterns[all[i].pattern].stops[all[i].board]
                                = PlaceBefore(t, all, from, i)
                           /\ later[i - 1] + PauseBefore(all, i) <= BoardTime(t, all[i])
                           /\ AlightTime(t, all[i]) <= later[i]
                      ELSE /\ <<PlaceBefore(t, all, from, i), all[i].stop>> \in DOMAIN t.walks
                           /\ t.walks[<<PlaceBefore(t, all, from, i), all[i].stop>>]
                                = all[i].duration
                           /\ later[i - 1] + all[i].duration <= later[i]
    BY DEF Timely
  <2>5. CASE i = 1
    <3>1. start + 0 = start
      OBVIOUS
    <3> QED BY <1>2, <2>1, <2>2, <2>5, <3>1
  <2>6. CASE i # 1
    <3> DEFINE j == i - 1
    <3>1. /\ j \in DOMAIN legs /\ all[i] = legs[j]
          /\ later[i] = times[j] /\ later[i - 1] = times[j - 1]
          /\ PlaceBefore(t, all, from, i) = PlaceBefore(t, legs, via, j)
          /\ i # 2 => PauseBefore(all, i) = PauseBefore(legs, j)
      BY <2>3, <2>6
    <3> HIDE DEF j
    <3>2. IF IsRide(legs[j])
          THEN /\ Allowed(t, qu, legs[j])
               /\ t.patterns[legs[j].pattern].stops[legs[j].board]
                    = PlaceBefore(t, legs, via, j)
               /\ times[j - 1] + PauseBefore(legs, j) <= BoardTime(t, legs[j])
               /\ AlightTime(t, legs[j]) <= times[j]
          ELSE /\ <<PlaceBefore(t, legs, via, j), legs[j].stop>> \in DOMAIN t.walks
               /\ t.walks[<<PlaceBefore(t, legs, via, j), legs[j].stop>>]
                    = legs[j].duration
               /\ times[j - 1] + legs[j].duration <= times[j]
      BY <3>1, Zenon DEF Timely
    <3> QED BY <2>4, <3>1, <3>2
  <2> QED BY <2>5, <2>6
<1>6. all = <<leg>> \o legs /\ later \in [0 .. N + 1 -> Int]
      /\ later[N + 1] = times[N]
  <2>1. N + 1 \in 1 .. N + 1 /\ (N + 1) - 1 = N
    BY <1>1
  <2> QED BY <1>3, <2>1 DEF all
<1> HIDE DEF MayPrecede
<1> QED BY <1>2, <1>3, <1>4, <1>5, <1>6 DEF MoreInFront

-----------------------------------------------------------------------------
(* sum adds up f over every set of indices up to n.                         *)
AddsUp(f, n, sum) ==
  /\ sum \in [SUBSET (1 .. n) -> Int]
  /\ sum[{}] = 0
  /\ \A s \in SUBSET (1 .. n) : \A x \in s : sum[s] = f[x] + sum[s \ {x}]

(* There is such a sum, by induction over n.                                *)
LEMMA SumExists ==
  ASSUME NEW n \in Nat, NEW f \in [1 .. n -> Int]
  PROVE  \E sum : AddsUp(f, n, sum)
<1> DEFINE without == {m \in 0 .. n : ~ \E sum : AddsUp(f, m, sum)}
<1> SUFFICES ASSUME without # {} PROVE FALSE
  <2>1. n \notin without
    OBVIOUS
  <2> QED BY <2>1
<1> DEFINE m == Min(without)
<1>1. without \in SUBSET Nat
  OBVIOUS
<1>2. m \in without /\ \A y \in without : m <= y
  <2> HIDE DEF without
  <2> QED BY <1>1, MinOfNats
<1>3. m \in 0 .. n /\ ~ \E sum : AddsUp(f, m, sum)
  BY <1>2
<1> HIDE DEF m
<1>4. m # 0
  <2> DEFINE none == [s \in SUBSET (1 .. 0) |-> 0]
  <2>1. SUBSET (1 .. 0) = {{}}
    OBVIOUS
  <2>2. AddsUp(f, 0, none)
    BY <2>1 DEF AddsUp
  <2> QED BY <1>3, <2>2
<1>5. m - 1 \in 0 .. n /\ m - 1 \notin without
  <2> HIDE DEF without
  <2> QED BY <1>1, <1>2, <1>3, <1>4
<1>6. PICK sum : AddsUp(f, m - 1, sum)
  BY <1>5
<1> DEFINE more == [s \in SUBSET (1 .. m) |->
                      sum[s \ {m}] + (IF m \in s THEN f[m] ELSE 0)]
<1>7. /\ sum \in [SUBSET (1 .. m - 1) -> Int] /\ sum[{}] = 0
      /\ \A s \in SUBSET (1 .. m - 1) : \A x \in s : sum[s] = f[x] + sum[s \ {x}]
  BY <1>6 DEF AddsUp
<1>8. \A s \in SUBSET (1 .. m) : s \ {m} \in SUBSET (1 .. m - 1)
  BY <1>3
<1>9. \A s \in SUBSET (1 .. m) : sum[s \ {m}] \in Int
  BY <1>7, <1>8
<1>10. \A x \in 1 .. m : f[x] \in Int
  BY <1>3
<1>11. more \in [SUBSET (1 .. m) -> Int]
  <2>1. m \in 1 .. m
    BY <1>3, <1>4
  <2>2. \A s \in SUBSET (1 .. m) : sum[s \ {m}] + (IF m \in s THEN f[m] ELSE 0) \in Int
    <3> TAKE s \in SUBSET (1 .. m)
    <3>1. sum[s \ {m}] \in Int /\ f[m] \in Int
      BY <1>9, <1>10, <2>1
    <3> QED BY <3>1
  <2> QED BY <2>2
<1>12. more[{}] = 0
  <2>1. {} \ {m} = {} /\ {} \in SUBSET (1 .. m)
    OBVIOUS
  <2> QED BY <1>7, <2>1
<1>13. ASSUME NEW s \in SUBSET (1 .. m), NEW x \in s
       PROVE  more[s] = f[x] + more[s \ {x}]
  <2>1. s \ {x} \in SUBSET (1 .. m) /\ x \in 1 .. m
    OBVIOUS
  <2>2. /\ more[s] = sum[s \ {m}] + (IF m \in s THEN f[m] ELSE 0)
        /\ more[s \ {x}] = sum[(s \ {x}) \ {m}] + (IF m \in s \ {x} THEN f[m] ELSE 0)
    BY <2>1
  <2> HIDE DEF more
  <2>3. CASE x = m
    <3>1. (s \ {x}) \ {m} = s \ {m}
      BY <2>3
    <3>2. more[s] = sum[s \ {m}] + f[m] /\ more[s \ {x}] = sum[s \ {m}] + 0
      BY <2>2, <2>3, <3>1
    <3>3. sum[s \ {m}] \in Int /\ f[m] \in Int
      BY <1>9, <1>10, <2>1, <2>3
    <3> QED BY <2>3, <3>2, <3>3
  <2>4. CASE x # m
    <3>1. x \in s \ {m} /\ (s \ {x}) \ {m} = (s \ {m}) \ {x}
      BY <2>4
    <3>2. sum[s \ {m}] = f[x] + sum[(s \ {m}) \ {x}]
      BY <1>7, <1>8, <3>1
    <3>3. sum[(s \ {x}) \ {m}] \in Int /\ f[x] \in Int /\ f[m] \in Int
      <4>1. m \in 1 .. m
        BY <1>3, <1>4
      <4> QED BY <1>9, <1>10, <2>1, <4>1
    <3>4. m \in s <=> m \in s \ {x}
      BY <2>4
    <3>5. /\ more[s] = (f[x] + sum[(s \ {x}) \ {m}]) + (IF m \in s THEN f[m] ELSE 0)
          /\ more[s \ {x}] = sum[(s \ {x}) \ {m}] + (IF m \in s THEN f[m] ELSE 0)
      BY <2>2, <3>1, <3>2, <3>4
    <3> QED BY <3>3, <3>5
  <2> QED BY <2>3, <2>4
<1>14. AddsUp(f, m, more)
  <2> HIDE DEF more
  <2> QED BY <1>11, <1>12, <1>13 DEF AddsUp
<1> QED BY <1>3, <1>14

(* The sum of a sequence of numbers.                                        *)
SumOf(f) == FoldFunction(+, 0, f)

(* Whichever element a fold takes first, it comes to that sum.              *)
LEMMA SumIsFold ==
  ASSUME NEW n \in Nat, NEW f \in [1 .. n -> Int], NEW sum, AddsUp(f, n, sum)
  PROVE  SumOf(f) = sum[1 .. n]
<1> DEFINE D == 1 .. n
           Body(g) == [s \in SUBSET D |->
             IF s = {} THEN 0
             ELSE f[CHOOSE x \in s : TRUE] + g[s \ {CHOOSE x \in s : TRUE}]]
           iter == CHOOSE g : g = Body(g)
<1>1. SumOf(f) = iter[D]
  BY DEF SumOf, FoldFunction, FoldFunctionOnSet, MapThenFoldSet
<1>2. sum = Body(sum)
  <2>1. sum \in [SUBSET D -> Int] /\ sum[{}] = 0
    BY DEF AddsUp
  <2>2. \A s \in SUBSET D : s # {} => (CHOOSE x \in s : TRUE) \in s
    OBVIOUS
  <2>3. \A s \in SUBSET D : s # {} =>
          sum[s] = f[CHOOSE x \in s : TRUE] + sum[s \ {CHOOSE x \in s : TRUE}]
    BY <2>2 DEF AddsUp
  <2>4. sum = [s \in SUBSET D |-> sum[s]]
    BY <2>1
  <2>5. \A s \in SUBSET D : sum[s] =
          IF s = {} THEN 0
          ELSE f[CHOOSE x \in s : TRUE] + sum[s \ {CHOOSE x \in s : TRUE}]
    BY <2>1, <2>3
  <2> QED BY <2>4, <2>5
<1>3. iter = Body(iter)
  <2> HIDE DEF Body
  <2> QED BY <1>2
<1>4. \A s \in SUBSET D : iter[s] =
        IF s = {} THEN 0
        ELSE f[CHOOSE x \in s : TRUE] + iter[s \ {CHOOSE x \in s : TRUE}]
  <2> HIDE DEF iter
  <2> QED BY <1>3
<1> HIDE DEF iter, Body
<1>5. \A s \in SUBSET D : IsFiniteSet(s)
  <2>1. IsFiniteSet(D)
    BY FS_Interval
  <2> HIDE DEF D
  <2> QED BY <2>1, FS_Subset
<1>6. \A s \in SUBSET D : iter[s] = sum[s]
  <2> DEFINE sizes == {Cardinality(s) : s \in {r \in SUBSET D : iter[r] # sum[r]}}
  <2> SUFFICES ASSUME sizes # {} PROVE FALSE
    OBVIOUS
  <2>1. sizes \in SUBSET Nat
    BY <1>5, FS_CardinalityType
  <2>2. Min(sizes) \in sizes /\ \A y \in sizes : Min(sizes) <= y
    <3> HIDE DEF sizes
    <3> QED BY <2>1, MinOfNats
  <2>3. PICK s \in SUBSET D : iter[s] # sum[s] /\ Cardinality(s) = Min(sizes)
    BY <2>2
  <2>4. s # {}
    BY <1>4, <2>3 DEF AddsUp
  <2> DEFINE x == CHOOSE y \in s : TRUE
  <2>5. x \in s
    BY <2>4
  <2>6. /\ iter[s] = f[x] + iter[s \ {x}]
        /\ sum[s] = f[x] + sum[s \ {x}]
    BY <1>4, <2>4, <2>5 DEF AddsUp
  <2> HIDE DEF x
  <2>7. s \ {x} \in SUBSET D /\ iter[s \ {x}] # sum[s \ {x}]
    BY <2>3, <2>6
  <2>8. Cardinality(s \ {x}) \in sizes
    BY <2>7
  <2>9. Cardinality(s \ {x}) = Cardinality(s) - 1 /\ Cardinality(s) \in Nat
    BY <1>5, <2>5, FS_RemoveElement, FS_CardinalityType
  <2> HIDE DEF sizes
  <2> QED BY <2>2, <2>3, <2>8, <2>9
<1> QED BY <1>1, <1>6

(* A fold over one more element.                                            *)
LEMMA SumOfOneMore ==
  ASSUME NEW n \in Nat, NEW f \in [1 .. n -> Int], NEW g \in [1 .. n + 1 -> Int],
         \A i \in 1 .. n : g[i] = f[i]
  PROVE  SumOf(f) \in Int /\ SumOf(g) = SumOf(f) + g[n + 1]
<1>1. PICK sum : AddsUp(g, n + 1, sum)
  BY SumExists
<1> DEFINE less == [s \in SUBSET (1 .. n) |-> sum[s]]
<1>2. /\ sum \in [SUBSET (1 .. n + 1) -> Int] /\ sum[{}] = 0
      /\ \A s \in SUBSET (1 .. n + 1) : \A x \in s : sum[s] = g[x] + sum[s \ {x}]
  BY <1>1, Zenon DEF AddsUp
<1>3. \A s \in SUBSET (1 .. n) : s \in SUBSET (1 .. n + 1) /\ less[s] = sum[s]
  OBVIOUS
<1>4. AddsUp(f, n, less)
  <2>1. less \in [SUBSET (1 .. n) -> Int]
    BY <1>2, <1>3
  <2>2. less[{}] = 0
    BY <1>2, <1>3
  <2>3. ASSUME NEW s \in SUBSET (1 .. n), NEW x \in s
        PROVE  less[s] = f[x] + less[s \ {x}]
    <3>1. s \ {x} \in SUBSET (1 .. n) /\ x \in 1 .. n
      OBVIOUS
    <3>2. less[s \ {x}] = sum[s \ {x}] /\ less[s] = sum[s] /\ s \in SUBSET (1 .. n + 1)
      BY <1>3, <3>1
    <3> HIDE DEF less
    <3> QED BY <1>2, <3>1, <3>2
  <2> HIDE DEF less
  <2> QED BY <2>1, <2>2, <2>3 DEF AddsUp
<1>5. SumOf(f) = less[1 .. n] /\ SumOf(g) = sum[1 .. n + 1]
  <2>1. n + 1 \in Nat
    OBVIOUS
  <2> HIDE DEF less
  <2> QED BY <1>1, <1>4, <2>1, SumIsFold
<1>6. less[1 .. n] = sum[1 .. n] /\ sum[1 .. n] \in Int
  BY <1>2, <1>3
<1>7. sum[1 .. n + 1] = g[n + 1] + sum[1 .. n]
  <2>1. (1 .. n + 1) \ {n + 1} = 1 .. n /\ n + 1 \in 1 .. n + 1
    OBVIOUS
  <2>2. (1 .. n + 1) \in SUBSET (1 .. n + 1)
    OBVIOUS
  <2>3. sum[1 .. n + 1] = g[n + 1] + sum[(1 .. n + 1) \ {n + 1}]
    <3> DEFINE all == 1 .. n + 1
    <3>1. \A s \in SUBSET all : \A x \in s : sum[s] = g[x] + sum[s \ {x}]
      BY <1>2
    <3>2. all \in SUBSET all /\ n + 1 \in all
      BY <2>1
    <3> HIDE DEF all
    <3>3. sum[all] = g[n + 1] + sum[all \ {n + 1}]
      BY <3>1, <3>2
    <3> QED BY <3>3 DEF all
  <2> QED BY <2>1, <2>3
<1>8. g[n + 1] \in Int
  OBVIOUS
<1> HIDE DEF less
<1> QED BY <1>5, <1>6, <1>7, <1>8

(* Walks take as long as their durations add up to.                         *)
LEMMA NoWalks == SumWalks(<<>>) = 0
<1> DEFINE none == [s \in SUBSET (1 .. 0) |-> 0]
           f == [i \in DOMAIN <<>> |-> <<>>[i].duration]
<1>1. SUBSET (1 .. 0) = {{}}
  OBVIOUS
<1>2. f \in [1 .. 0 -> Int]
  OBVIOUS
<1>3. AddsUp(f, 0, none)
  BY <1>1 DEF AddsUp
<1>4. SumOf(f) = none[1 .. 0]
  <2> HIDE DEF f, none
  <2> QED BY <1>2, <1>3, SumIsFold
<1> QED BY <1>1, <1>4 DEF SumWalks, SumOf

LEMMA SumOfWalks ==
  ASSUME NEW legs \in Seq(Legs), Rides(legs) = {}
  PROVE  SumWalks(legs) \in Int
<1> DEFINE n == Len(legs)
           f == [i \in DOMAIN legs |-> legs[i].duration]
<1>1. n \in Nat /\ DOMAIN legs = 1 .. n
  BY LenProperties
<1>2. f \in [1 .. n -> Int]
  <2>1. \A x \in Legs : ~IsRide(x) => x.duration \in Nat
    BY DEF Legs, IsRide
  <2>2. \A i \in 1 .. n : legs[i] \in Legs /\ ~IsRide(legs[i])
    BY <1>1 DEF Rides
  <2> QED BY <1>1, <2>1, <2>2
<1>3. PICK sum : AddsUp(f, n, sum)
  <2> HIDE DEF f, n
  <2> QED BY <1>1, <1>2, SumExists
<1>4. SumOf(f) = sum[1 .. n]
  <2> HIDE DEF f, n
  <2> QED BY <1>1, <1>2, <1>3, SumIsFold
<1>5. sum[1 .. n] \in Int
  BY <1>3, Zenon DEF AddsUp
<1> QED BY <1>4, <1>5 DEF SumWalks, SumOf

LEMMA OneMoreWalk ==
  ASSUME NEW legs \in Seq(Legs), Rides(legs) = {}, NEW leg \in Legs, ~IsRide(leg)
  PROVE  /\ SumWalks(legs) \in Int /\ leg.duration \in Nat
         /\ SumWalks(Append(legs, leg)) = SumWalks(legs) + leg.duration
<1> DEFINE all == Append(legs, leg)
           n == Len(legs)
           f == [i \in DOMAIN legs |-> legs[i].duration]
           g == [i \in DOMAIN all |-> all[i].duration]
<1>1. n \in Nat /\ DOMAIN legs = 1 .. n
  BY LenProperties
<1>2. /\ all \in Seq(Legs) /\ DOMAIN all = 1 .. n + 1
      /\ all[n + 1] = leg /\ \A i \in 1 .. n : all[i] = legs[i]
  BY <1>1
<1>3. \A x \in Legs : ~IsRide(x) => x.duration \in Nat
  BY DEF Legs, IsRide
<1>4. f \in [1 .. n -> Int]
  <2>1. \A i \in 1 .. n : legs[i] \in Legs /\ ~IsRide(legs[i])
    BY <1>1 DEF Rides
  <2> QED BY <1>1, <1>3, <2>1
<1> HIDE DEF all
<1>5. g \in [1 .. n + 1 -> Int]
  <2>1. \A i \in 1 .. n + 1 : i \in 1 .. n \/ i = n + 1
    BY <1>1
  <2>2. \A i \in 1 .. n + 1 : all[i] \in Legs /\ ~IsRide(all[i])
    BY <1>1, <1>2, <2>1 DEF Rides
  <2> QED BY <1>2, <1>3, <2>2
<1>6. \A i \in 1 .. n : g[i] = f[i]
  BY <1>1, <1>2
<1>7. g[n + 1] = leg.duration
  BY <1>1, <1>2
<1>8. SumOf(f) \in Int /\ SumOf(g) = SumOf(f) + g[n + 1]
  <2> HIDE DEF f, g, n
  <2> QED BY <1>1, <1>4, <1>5, <1>6, SumOfOneMore
<1>9. SumWalks(legs) = SumOf(f) /\ SumWalks(all) = SumOf(g)
  BY DEF SumWalks, SumOf
<1> QED BY <1>3, <1>7, <1>8, <1>9 DEF all

(* May a leg that ends at a time of its own follow timely legs?             *)
MayFollow(t, qu, leg, from, legs, times, end) ==
  LET n == Len(legs)
  IN  /\ IsRide(leg) =>
           /\ Allowed(t, qu, leg)
           /\ t.patterns[leg.pattern].stops[leg.board] = LastPlace(t, legs, from)
           /\ times[n] + (IF legs # <<>> /\ IsRide(legs[n]) THEN Buffer ELSE 0)
                <= BoardTime(t, leg)
           /\ AlightTime(t, leg) <= end
      /\ ~IsRide(leg) =>
           /\ <<LastPlace(t, legs, from), leg.stop>> \in DOMAIN t.walks
           /\ t.walks[<<LastPlace(t, legs, from), leg.stop>>] = leg.duration
           /\ times[n] + leg.duration <= end

MoreBehind(t, qu, leg, from, legs, times, end, all) ==
  /\ all \in Seq(Legs) /\ Len(all) = Len(legs) + 1
  /\ LastPlace(t, all, from) = LegEnd(t, leg)
  /\ all # <<>> /\ all[Len(all)] = leg
  /\ \E later \in [0 .. Len(legs) + 1 -> Int] :
       /\ later[0] = times[0]
       /\ later[Len(legs) + 1] = end
       /\ Timely(t, qu, all, from, later)

(* One leg more behind timely legs.                                         *)
LEMMA OneMoreBehind ==
  ASSUME NEW t, NEW qu, NEW legs \in Seq(Legs), NEW from,
         NEW times \in [0 .. Len(legs) -> Int], NEW end \in Int,
         Timely(t, qu, legs, from, times), NEW leg \in Legs,
         MayFollow(t, qu, leg, from, legs, times, end)
  PROVE  MoreBehind(t, qu, leg, from, legs, times, end, Append(legs, leg))
<1> DEFINE all == Append(legs, leg)
           N == Len(legs)
           later == [i \in 0 .. N + 1 |-> IF i = N + 1 THEN end ELSE times[i]]
<1>1. N \in Nat /\ DOMAIN legs = 1 .. N
  BY LenProperties
<1>2. /\ all \in Seq(Legs) /\ Len(all) = N + 1 /\ DOMAIN all = 1 .. N + 1
      /\ all[N + 1] = leg /\ all # <<>>
      /\ \A i \in 1 .. N : all[i] = legs[i]
  BY <1>1
<1>3. /\ later \in [0 .. N + 1 -> Int] /\ later[N + 1] = end
      /\ \A i \in 0 .. N : later[i] = times[i]
  BY <1>1
<1> HIDE DEF all, later
<1>4. LastPlace(t, all, from) = LegEnd(t, leg)
  BY <1>2 DEF LastPlace
<1>5. legs = <<>> <=> N = 0
  BY <1>1, EmptySeq
<1>6. /\ PlaceBefore(t, all, from, N + 1) = LastPlace(t, legs, from)
      /\ PauseBefore(all, N + 1)
           = IF legs # <<>> /\ IsRide(legs[N]) THEN Buffer ELSE 0
  <2>1. CASE N = 0
    <3>1. N + 1 = 1 /\ ~(N + 1 > 1)
      BY <2>1
    <3> QED BY <1>5, <2>1, <3>1 DEF PlaceBefore, LastPlace, PauseBefore
  <2>2. CASE N # 0
    <3>1. N + 1 # 1 /\ (N + 1) - 1 = N /\ N + 1 > 1 /\ all[N] = legs[N]
      BY <1>1, <1>2, <2>2
    <3> QED BY <1>5, <2>2, <3>1 DEF PlaceBefore, LastPlace, PauseBefore
  <2> QED BY <2>1, <2>2
<1>7. Timely(t, qu, all, from, later)
  <2> SUFFICES ASSUME NEW i \in DOMAIN all
               PROVE  IF IsRide(all[i])
                      THEN /\ Allowed(t, qu, all[i])
                           /\ t.patterns[all[i].pattern].stops[all[i].board]
                                = PlaceBefore(t, all, from, i)
                           /\ later[i - 1] + PauseBefore(all, i) <= BoardTime(t, all[i])
                           /\ AlightTime(t, all[i]) <= later[i]
                      ELSE /\ <<PlaceBefore(t, all, from, i), all[i].stop>> \in DOMAIN t.walks
                           /\ t.walks[<<PlaceBefore(t, all, from, i), all[i].stop>>]
                                = all[i].duration
                           /\ later[i - 1] + all[i].duration <= later[i]
    BY DEF Timely
  <2>1. CASE i = N + 1
    <3>1. later[i - 1] = times[N] /\ later[i] = end /\ all[i] = leg
      BY <1>1, <1>2, <1>3, <2>1
    <3>2. CASE IsRide(leg)
      BY <1>6, <2>1, <3>1, <3>2 DEF MayFollow
    <3>3. CASE ~IsRide(leg)
      BY <1>6, <2>1, <3>1, <3>3 DEF MayFollow
    <3> QED BY <3>1, <3>2, <3>3
  <2>2. CASE i # N + 1
    <3>1. i \in 1 .. N /\ i \in DOMAIN legs /\ i - 1 \in 0 .. N
      BY <1>1, <1>2, <2>2
    <3>2. all[i] = legs[i] /\ later[i] = times[i] /\ later[i - 1] = times[i - 1]
      BY <1>2, <1>3, <3>1
    <3>3. /\ PlaceBefore(t, all, from, i) = PlaceBefore(t, legs, from, i)
          /\ PauseBefore(all, i) = PauseBefore(legs, i)
      <4>1. i > 1 => all[i - 1] = legs[i - 1]
        BY <1>2, <3>1
      <4>2. i = 1 \/ i > 1
        BY <3>1
      <4> QED BY <4>1, <4>2 DEF PlaceBefore, PauseBefore
    <3> QED BY <3>1, <3>2, <3>3, Zenon DEF Timely
  <2> QED BY <2>1, <2>2
<1>8. later[0] = times[0]
  BY <1>1, <1>3
<1> QED BY <1>2, <1>3, <1>4, <1>7, <1>8 DEF MoreBehind, all

(* Are the legs timely so much later, too?                                  *)
TimelyAt(t, qu, legs, from, times, by) ==
  \E moved \in [0 .. Len(legs) -> Int] :
    /\ \A i \in 0 .. Len(legs) : moved[i] = times[i] + by
    /\ Timely(t, qu, legs, from, moved)

(* Legs without a ride may be walked at any time.                           *)
LEMMA WalksMayShift ==
  ASSUME NEW t \in Timetables, NEW qu, NEW legs \in Seq(Legs), Rides(legs) = {},
         NEW from, NEW times \in [0 .. Len(legs) -> Int], NEW by \in Int,
         Timely(t, qu, legs, from, times)
  PROVE  TimelyAt(t, qu, legs, from, times, by)
<1> DEFINE moved == [i \in 0 .. Len(legs) |-> times[i] + by]
<1>1. moved \in [0 .. Len(legs) -> Int]
      /\ \A i \in 0 .. Len(legs) : moved[i] = times[i] + by
  OBVIOUS
<1>2. Timely(t, qu, legs, from, moved)
  <2> SUFFICES ASSUME NEW i \in DOMAIN legs
               PROVE  /\ ~IsRide(legs[i])
                      /\ <<PlaceBefore(t, legs, from, i), legs[i].stop>> \in DOMAIN t.walks
                      /\ t.walks[<<PlaceBefore(t, legs, from, i), legs[i].stop>>]
                           = legs[i].duration
                      /\ moved[i - 1] + legs[i].duration <= moved[i]
    BY DEF Timely
  <2>1. ~IsRide(legs[i])
    BY DEF Rides
  <2>2. /\ <<PlaceBefore(t, legs, from, i), legs[i].stop>> \in DOMAIN t.walks
        /\ t.walks[<<PlaceBefore(t, legs, from, i), legs[i].stop>>]
             = legs[i].duration
        /\ times[i - 1] + legs[i].duration <= times[i]
    BY <2>1 DEF Timely
  <2>3. legs[i].duration \in Nat
    BY <2>2, WalkFacts
  <2>4. i \in 0 .. Len(legs) /\ i - 1 \in 0 .. Len(legs)
    BY LenProperties
  <2>5. /\ moved[i] = times[i] + by /\ moved[i - 1] = times[i - 1] + by
        /\ times[i] \in Int /\ times[i - 1] \in Int
    BY <2>4
  <2>6. moved[i - 1] + legs[i].duration <= moved[i]
    <3> HIDE DEF moved
    <3> QED BY <2>2, <2>3, <2>5
  <2> QED BY <2>1, <2>2, <2>6
<1> HIDE DEF moved
<1> QED BY <1>1, <1>2 DEF TimelyAt

-----------------------------------------------------------------------------
(* One leg more, and which of the legs are rides.                           *)
LEMMA RidesOfMore ==
  ASSUME NEW legs \in Seq(Legs), NEW leg \in Legs
  PROVE  LET all == Append(legs, leg)
             n   == Len(legs)
         IN  /\ n \in Nat
             /\ all \in Seq(Legs) /\ Len(all) = n + 1 /\ all[n + 1] = leg
             /\ \A i \in 1 .. n : all[i] = legs[i]
             /\ Rides(legs) \in SUBSET (1 .. n)
             /\ Rides(all) = IF IsRide(leg) THEN Rides(legs) \cup {n + 1} ELSE Rides(legs)
<1> DEFINE all == Append(legs, leg)
           n == Len(legs)
<1>1. n \in Nat /\ DOMAIN legs = 1 .. n
  BY LenProperties
<1>2. /\ all \in Seq(Legs) /\ DOMAIN all = 1 .. n + 1 /\ Len(all) = n + 1
      /\ all[n + 1] = leg /\ \A i \in 1 .. n : all[i] = legs[i]
  BY <1>1
<1> HIDE DEF all, n
<1>3. Rides(legs) \in SUBSET (1 .. n)
  BY <1>1 DEF Rides
<1>4. \A i : i \in 1 .. n + 1 <=> i \in 1 .. n \/ i = n + 1
  BY <1>1
<1>5. n + 1 \notin 1 .. n
  BY <1>1
<1>6. \A i : i \in Rides(all) <=> i \in Rides(legs) \/ (IsRide(leg) /\ i = n + 1)
  BY <1>1, <1>2, <1>4, <1>5 DEF Rides
<1>7. Rides(all) = IF IsRide(leg) THEN Rides(legs) \cup {n + 1} ELSE Rides(legs)
  BY <1>6
<1> QED BY <1>1, <1>2, <1>3, <1>7 DEF all, n

(* Minimum and maximum are what they are found to be.                       *)
LEMMA LeastIs ==
  ASSUME NEW S \in SUBSET Nat, NEW x \in S, \A y \in S : x <= y
  PROVE  Min(S) = x
<1>1. Min(S) \in S /\ \A y \in S : Min(S) <= y
  BY MinOfNats
<1>2. Min(S) <= x /\ x <= Min(S) /\ Min(S) \in Nat /\ x \in Nat
  BY <1>1
<1> QED BY <1>2

LEMMA GreatestIs ==
  ASSUME NEW n \in Nat, NEW S \in SUBSET (1 .. n), NEW x \in S, \A y \in S : y <= x
  PROVE  Max(S) = x
<1>1. Max(S) \in S /\ \A y \in S : y <= Max(S)
  BY MaxOfBounded
<1>2. Max(S) <= x /\ x <= Max(S) /\ Max(S) \in 1 .. n /\ x \in 1 .. n
  BY <1>1
<1> QED BY <1>2

(* What is before the first ride stays what it is.                          *)
LEMMA FirstRideStays ==
  ASSUME NEW legs \in Seq(Legs), Rides(legs) # {}, NEW leg \in Legs
  PROVE  LET all == Append(legs, leg)
             m   == Min(Rides(legs))
         IN  /\ Rides(all) # {} /\ Min(Rides(all)) = m
             /\ all[m] = legs[m]
             /\ SubSeq(all, 1, m - 1) = SubSeq(legs, 1, m - 1)
<1> DEFINE all == Append(legs, leg)
           n == Len(legs)
           m == Min(Rides(legs))
<1>1. /\ n \in Nat
      /\ all \in Seq(Legs) /\ Len(all) = n + 1 /\ all[n + 1] = leg
      /\ \A i \in 1 .. n : all[i] = legs[i]
      /\ Rides(legs) \in SUBSET (1 .. n)
      /\ Rides(all) = IF IsRide(leg) THEN Rides(legs) \cup {n + 1} ELSE Rides(legs)
  BY RidesOfMore, Zenon
<1> HIDE DEF all, n
<1>2. m \in Rides(legs) /\ \A y \in Rides(legs) : m <= y
  <2>1. Rides(legs) \in SUBSET Nat
    BY <1>1
  <2> QED BY <2>1, MinOfNats
<1> HIDE DEF m
<1>3. m \in 1 .. n
  BY <1>1, <1>2
<1>4. Min(Rides(all)) = m
  <2>1. Rides(all) \in SUBSET Nat /\ m \in Rides(all) /\ \A y \in Rides(all) : m <= y
    BY <1>1, <1>2, <1>3
  <2> QED BY <2>1, LeastIs
<1>5. all[m] = legs[m]
  BY <1>1, <1>3
<1>6. SubSeq(all, 1, m - 1) = SubSeq(legs, 1, m - 1)
  <2>1. \A i \in 1 .. m - 1 : i \in 1 .. n
    BY <1>1, <1>3
  <2>2. \A i \in 1 .. m - 1 : all[i] = legs[i]
    BY <1>1, <2>1
  <2> QED BY <1>1, <1>3, <2>2 DEF n
<1> QED BY <1>1, <1>2, <1>4, <1>5, <1>6 DEF all, m

(* The first ride has all the walks before it.                              *)
LEMMA FirstRide ==
  ASSUME NEW legs \in Seq(Legs), Rides(legs) = {}, NEW leg \in Legs, IsRide(leg)
  PROVE  LET all == Append(legs, leg)
             m   == Min(Rides(all))
         IN  /\ Rides(all) # {} /\ all[m] = leg
             /\ SubSeq(all, 1, m - 1) = legs
<1> DEFINE all == Append(legs, leg)
           n == Len(legs)
<1>1. /\ n \in Nat
      /\ all \in Seq(Legs) /\ Len(all) = n + 1 /\ all[n + 1] = leg
      /\ \A i \in 1 .. n : all[i] = legs[i]
      /\ Rides(all) = IF IsRide(leg) THEN Rides(legs) \cup {n + 1} ELSE Rides(legs)
  BY RidesOfMore, Zenon
<1> HIDE DEF all
<1>2. Rides(all) = {n + 1}
  BY <1>1
<1>3. Min(Rides(all)) = n + 1
  <2>1. {n + 1} \in SUBSET Nat /\ n + 1 <= n + 1
    BY <1>1
  <2> QED BY <1>2, <2>1, LeastIs
<1>4. SubSeq(all, 1, (n + 1) - 1) = legs
  <2>1. (n + 1) - 1 = n
    BY <1>1
  <2>2. SubSeq(all, 1, n) = legs
    BY <1>1
  <2> QED BY <2>1, <2>2
<1> QED BY <1>1, <1>2, <1>3, <1>4 DEF all

(* The last ride has nothing behind it yet.                                 *)
LEMMA LastRide ==
  ASSUME NEW legs \in Seq(Legs), NEW leg \in Legs, IsRide(leg)
  PROVE  LET all == Append(legs, leg)
             m   == Max(Rides(all))
         IN  /\ Rides(all) # {} /\ all[m] = leg
             /\ SubSeq(all, m + 1, Len(all)) = <<>>
<1> DEFINE all == Append(legs, leg)
           n == Len(legs)
<1>1. /\ n \in Nat
      /\ all \in Seq(Legs) /\ Len(all) = n + 1 /\ all[n + 1] = leg
      /\ Rides(legs) \in SUBSET (1 .. n)
      /\ Rides(all) = IF IsRide(leg) THEN Rides(legs) \cup {n + 1} ELSE Rides(legs)
  BY RidesOfMore, Zenon
<1> HIDE DEF all, n
<1>2. Max(Rides(all)) = n + 1
  <2>1. /\ n + 1 \in Nat /\ Rides(all) \in SUBSET (1 .. n + 1)
        /\ n + 1 \in Rides(all) /\ \A y \in Rides(all) : y <= n + 1
    BY <1>1
  <2> QED BY <2>1, GreatestIs
<1>3. SubSeq(all, (n + 1) + 1, n + 1) = <<>>
  BY <1>1
<1> QED BY <1>1, <1>2, <1>3 DEF all

(* A walk comes behind the last ride and the walks behind that.             *)
LEMMA LastRideStays ==
  ASSUME NEW legs \in Seq(Legs), Rides(legs) # {}, NEW leg \in Legs, ~IsRide(leg)
  PROVE  LET all == Append(legs, leg)
             m   == Max(Rides(legs))
             end == SubSeq(legs, m + 1, Len(legs))
         IN  /\ Rides(all) = Rides(legs) /\ m \in Rides(legs)
             /\ all[m] = legs[m]
             /\ end \in Seq(Legs) /\ Rides(end) = {}
             /\ SubSeq(all, m + 1, Len(all)) = Append(end, leg)
<1> DEFINE all == Append(legs, leg)
           n == Len(legs)
           m == Max(Rides(legs))
           end == SubSeq(legs, m + 1, n)
<1>1. /\ n \in Nat
      /\ all \in Seq(Legs) /\ Len(all) = n + 1 /\ all[n + 1] = leg
      /\ \A i \in 1 .. n : all[i] = legs[i]
      /\ Rides(legs) \in SUBSET (1 .. n)
      /\ Rides(all) = IF IsRide(leg) THEN Rides(legs) \cup {n + 1} ELSE Rides(legs)
  BY RidesOfMore, Zenon
<1>2. m \in Rides(legs) /\ \A y \in Rides(legs) : y <= m
  BY <1>1, MaxOfBounded
<1> HIDE DEF all, m
<1>3. m \in 1 .. n /\ all[m] = legs[m]
  BY <1>1, <1>2
<1>4. /\ end \in Seq(Legs) /\ Len(end) = n - m
      /\ \A i \in 1 .. n - m : end[i] = legs[m + i]
  BY <1>1, <1>3
<1>5. Rides(end) = {}
  <2> SUFFICES ASSUME NEW i \in DOMAIN end, IsRide(end[i]) PROVE FALSE
    BY DEF Rides
  <2>1. i \in 1 .. n - m
    BY <1>4
  <2>2. end[i] = legs[m + i] /\ m + i \in 1 .. n /\ ~(m + i <= m)
    BY <1>1, <1>3, <1>4, <2>1
  <2> HIDE DEF end
  <2>3. m + i \in Rides(legs)
    BY <2>2 DEF Rides
  <2> QED BY <1>2, <2>2, <2>3
<1>6. SubSeq(all, m + 1, n + 1) = Append(end, leg)
  <2> DEFINE x == SubSeq(all, m + 1, n + 1)
             y == Append(end, leg)
  <2>1. /\ x \in Seq(Legs) /\ Len(x) = n - m + 1
        /\ \A i \in 1 .. n - m + 1 : x[i] = all[m + i]
    BY <1>1, <1>3
  <2>2. /\ y \in Seq(Legs) /\ Len(y) = n - m + 1
        /\ \A i \in 1 .. n - m : y[i] = end[i]
        /\ y[n - m + 1] = leg
    <3> HIDE DEF end
    <3> QED BY <1>1, <1>3, <1>4
  <2> HIDE DEF x, y
  <2>3. \A i \in 1 .. n - m + 1 : x[i] = y[i]
    <3> SUFFICES ASSUME NEW i \in 1 .. n - m + 1 PROVE x[i] = y[i]
      OBVIOUS
    <3>1. CASE i \in 1 .. n - m
      <4>1. m + i \in 1 .. n
        BY <1>1, <1>3, <3>1
      <4> HIDE DEF end
      <4> QED BY <1>1, <1>4, <2>1, <2>2, <3>1, <4>1
    <3>2. CASE i \notin 1 .. n - m
      <4>1. i = n - m + 1 /\ m + i = n + 1
        BY <1>1, <1>3, <3>2
      <4> QED BY <1>1, <2>1, <2>2, <4>1
    <3> QED BY <3>1, <3>2
  <2>4. x = y
    BY <2>1, <2>2, <2>3, SeqEqual
  <2> QED BY <2>4 DEF x, y
<1>7. Rides(all) = Rides(legs)
  BY <1>1
<1> HIDE DEF end
<1> QED BY <1>1, <1>2, <1>3, <1>4, <1>5, <1>6, <1>7 DEF all, m, n, end

-----------------------------------------------------------------------------
(* A ride of the reference is a trip of a pattern, boarded and left.       *)
LEMMA RideFromFacts ==
  ASSUME NEW t, NEW qu, NEW a, NEW r \in RidesFrom(t, qu, a)
  PROVE  \E p \in DOMAIN t.patterns :
           LET stops == t.patterns[p].stops
               trips == t.patterns[p].trips
           IN  /\ PatternAllowed(t.patterns[p], qu)
               /\ \E i \in DOMAIN trips, b, c \in DOMAIN stops :
                    /\ Boardable(trips[i], qu)
                    /\ stops[b] = a.stop
                    /\ trips[i].departures[b] >= ReadyAt(a)
                    /\ b < c
                    /\ r.stop = stops[c] /\ r.time = trips[i].arrivals[c]
<1> DEFINE stops(p) == t.patterns[p].stops
           trips(p) == t.patterns[p].trips
           found(p) == {y \in (DOMAIN trips(p)) \X (DOMAIN stops(p)) \X (DOMAIN stops(p)) :
                         /\ Boardable(trips(p)[y[1]], qu)
                         /\ stops(p)[y[2]] = a.stop
                         /\ trips(p)[y[1]].departures[y[2]] >= ReadyAt(a)
                         /\ y[2] < y[3]}
           rides(p) == {Arrival(stops(p)[x[3]], trips(p)[x[1]].arrivals[x[3]],
                                "ride", a.rides + 1) : x \in found(p)}
<1>1. PICK p \in {q \in DOMAIN t.patterns : PatternAllowed(t.patterns[q], qu)} :
        r \in rides(p)
  BY Zenon DEF RidesFrom
<1>2. PICK x \in found(p) :
        r = Arrival(stops(p)[x[3]], trips(p)[x[1]].arrivals[x[3]], "ride", a.rides + 1)
  <2> HIDE DEF found
  <2> QED BY <1>1
<1>3. /\ x[1] \in DOMAIN trips(p) /\ x[2] \in DOMAIN stops(p) /\ x[3] \in DOMAIN stops(p)
      /\ Boardable(trips(p)[x[1]], qu)
      /\ stops(p)[x[2]] = a.stop
      /\ trips(p)[x[1]].departures[x[2]] >= ReadyAt(a)
      /\ x[2] < x[3]
  <2> HIDE DEF stops, trips
  <2> QED BY <1>2
<1>4. r.stop = stops(p)[x[3]] /\ r.time = trips(p)[x[1]].arrivals[x[3]]
  BY <1>2 DEF Arrival
<1> QED BY <1>1, <1>3, <1>4, Zenon

LEMMA RideKind ==
  ASSUME NEW t, NEW qu, NEW a, NEW r \in RidesFrom(t, qu, a)
  PROVE  r.kind = "ride"
<1> DEFINE stops(p) == t.patterns[p].stops
           trips(p) == t.patterns[p].trips
           found(p) == {y \in (DOMAIN trips(p)) \X (DOMAIN stops(p)) \X (DOMAIN stops(p)) :
                         /\ Boardable(trips(p)[y[1]], qu)
                         /\ stops(p)[y[2]] = a.stop
                         /\ trips(p)[y[1]].departures[y[2]] >= ReadyAt(a)
                         /\ y[2] < y[3]}
           rides(p) == {Arrival(stops(p)[x[3]], trips(p)[x[1]].arrivals[x[3]],
                                "ride", a.rides + 1) : x \in found(p)}
<1>1. PICK p \in {q \in DOMAIN t.patterns : PatternAllowed(t.patterns[q], qu)} :
        r \in rides(p)
  BY Zenon DEF RidesFrom
<1>2. PICK x \in found(p) :
        r = Arrival(stops(p)[x[3]], trips(p)[x[1]].arrivals[x[3]], "ride", a.rides + 1)
  <2> HIDE DEF found
  <2> QED BY <1>1
<1> QED BY <1>2 DEF Arrival

(* One ride more, and the walks from where it ends.                        *)
RideFurther(t, qu, arrivals) ==
  LET rides == UNION {RidesFrom(t, qu, a) : a \in arrivals}
  IN  arrivals \cup rides \cup UNION {WalksFrom(t, a) : a \in rides}

(* Reach is what its definition says, by induction over the rides.         *)
LEMMA ReachFacts ==
  ASSUME NEW t, NEW qu, qu.maxRounds \in Nat
  PROVE  /\ Reach(t, qu)[0] = AccessArrivals(qu)
         /\ \A n \in 1 .. qu.maxRounds :
              Reach(t, qu)[n] = RideFurther(t, qu, Reach(t, qu)[n - 1])
<1> DEFINE N == qu.maxRounds
           Good(m, g) == /\ g[0] = AccessArrivals(qu)
                         /\ \A i \in 1 .. m : g[i] = RideFurther(t, qu, g[i - 1])
           without == {m \in 0 .. N : ~ \E g : Good(m, g)}
<1>1. without = {}
  <2> SUFFICES ASSUME without # {} PROVE FALSE
    OBVIOUS
  <2>1. without \in SUBSET Nat
    OBVIOUS
  <2> DEFINE m == Min(without)
  <2>2. m \in without /\ \A y \in without : m <= y
    <3> HIDE DEF without
    <3> QED BY <2>1, MinOfNats
  <2>3. m \in 0 .. N /\ ~ \E g : Good(m, g)
    <3> HIDE DEF Good, m
    <3> QED BY <2>2
  <2> HIDE DEF m
  <2>4. m # 0
    <3>1. Good(0, [i \in 0 .. 0 |-> AccessArrivals(qu)])
      OBVIOUS
    <3> HIDE DEF Good
    <3> QED BY <2>3, <3>1
  <2>5. m - 1 \in 0 .. N /\ m - 1 \notin without
    <3> HIDE DEF without
    <3> QED BY <2>1, <2>2, <2>3, <2>4
  <2>6. PICK g : Good(m - 1, g)
    <3> HIDE DEF Good
    <3> QED BY <2>5 DEF without
  <2> DEFINE h == [i \in 0 .. m |-> IF i = m THEN RideFurther(t, qu, g[m - 1])
                                    ELSE g[i]]
  <2>7. h[0] = AccessArrivals(qu)
    BY <2>3, <2>4, <2>6
  <2>8. ASSUME NEW i \in 1 .. m
        PROVE  h[i] = RideFurther(t, qu, h[i - 1])
    <3>1. h[i - 1] = g[i - 1]
      BY <2>3
    <3>2. CASE i = m
      BY <2>3, <3>1, <3>2
    <3>3. CASE i # m
      <4>1. i \in 1 .. m - 1 /\ h[i] = g[i]
        BY <2>3, <3>3
      <4> QED BY <2>6, <3>1, <4>1
    <3> QED BY <3>2, <3>3
  <2>9. Good(m, h)
    <3> HIDE DEF h
    <3> QED BY <2>7, <2>8
  <2> HIDE DEF Good, h
  <2> QED BY <2>3, <2>9
<1>2. PICK g : Good(N, g)
  <2> HIDE DEF Good
  <2>1. N \in 0 .. N
    OBVIOUS
  <2> QED BY <1>1, <2>1
<1> DEFINE Body(f) == [n \in 0 .. N |->
                        IF n = 0 THEN AccessArrivals(qu)
                        ELSE RideFurther(t, qu, f[n - 1])]
           c == Reach(t, qu)
           G == [n \in 0 .. N |-> g[n]]
<1>3. G = Body(G)
  <2>1. \A n \in 0 .. N : G[n] = Body(G)[n]
    <3> SUFFICES ASSUME NEW n \in 0 .. N PROVE G[n] = Body(G)[n]
      OBVIOUS
    <3>1. CASE n = 0
      BY <1>2, <3>1
    <3>2. CASE n # 0
      <4>1. n \in 1 .. N /\ n - 1 \in 0 .. N
        BY <3>2
      <4> QED BY <1>2, <3>2, <4>1
    <3> QED BY <3>1, <3>2
  <2> QED BY <2>1
<1>4. c = CHOOSE f : f = Body(f)
  BY DEF Reach, RideFurther
<1>5. c = Body(c)
  <2> HIDE DEF Body, c, G
  <2> QED BY <1>3, <1>4
<1> HIDE DEF c
<1>6. c[0] = AccessArrivals(qu)
  BY <1>5
<1>7. ASSUME NEW n \in 1 .. N
      PROVE  c[n] = RideFurther(t, qu, c[n - 1])
  <2>1. n \in 0 .. N /\ n # 0
    OBVIOUS
  <2> QED BY <1>5, <2>1
<1> QED BY <1>6, <1>7 DEF c

=============================================================================
