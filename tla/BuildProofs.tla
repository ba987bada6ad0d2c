----------------------------- MODULE BuildProofs -----------------------------
(***************************************************************************)
(* Proofs that platforms and their stations become one stop, in whatever   *)
(* order the rows of all feeds come, that the timetable that is built is   *)
(* one the searches can rely on, that its services run on the days of the  *)
(* calendar, and that every run of a definite feed is packed exactly once  *)
(* and nothing else is.                                                    *)
(***************************************************************************)
EXTENDS BuildProperties, FiniteSetTheorems, TLAPS


-----------------------------------------------------------------------------
(* The first of two in the order.                                          *)
Before(key, q, r) == key[q] < key[r] \/ (key[q] = key[r] /\ q <= r)

(* A sequence of all of the set, by key.                                   *)
IsOrder(rows, key, order) ==
  LET n == Cardinality(rows)
  IN  /\ n \in Nat
      /\ order \in [1 .. n -> rows]
      /\ \A i, j \in 1 .. n : i < j => key[order[i]] <= key[order[j]]
      /\ \A r \in rows : \E i \in 1 .. n : order[i] = r

(* Each at the place that counts those up to it.                           *)
IsRanked(rows, key, order) ==
  \A r \in rows : LET rank == Cardinality(UpTo(rows, key, r))
                  IN  rank \in 1 .. Cardinality(rows) /\ order[rank] = r

(* InOrder goes through all of the set, by key and then number.            *)
LEMMA InOrderSorts ==
  ASSUME NEW rows, IsFiniteSet(rows), rows \subseteq Int,
         NEW key, \A r \in rows : key[r] \in Int
  PROVE  /\ IsOrder(rows, key, InOrder(rows, key))
         /\ IsRanked(rows, key, InOrder(rows, key))
<1> DEFINE n     == Cardinality(rows)
           rank  == [r \in rows |-> Cardinality(UpTo(rows, key, r))]
           order == InOrder(rows, key)
<1>1. n \in Nat
  BY FS_CardinalityType
<1>2. \A r \in rows : /\ UpTo(rows, key, r) = {q \in rows : Before(key, q, r)}
                      /\ UpTo(rows, key, r) \subseteq rows
                      /\ r \in UpTo(rows, key, r)
  BY DEF UpTo, Before
<1>3. \A r \in rows : /\ IsFiniteSet(UpTo(rows, key, r))
                      /\ rank[r] \in 1 .. n
  <2> TAKE r \in rows
  <2>1. /\ IsFiniteSet(UpTo(rows, key, r))
        /\ Cardinality(UpTo(rows, key, r)) <= n
    BY <1>2, FS_Subset
  <2>2. /\ Cardinality(UpTo(rows, key, r)) \in Nat
        /\ Cardinality(UpTo(rows, key, r)) # 0
    BY <1>2, <2>1, FS_CardinalityType, FS_EmptySet
  <2> QED BY <1>1, <2>1, <2>2
<1>4. \A q, r \in rows : q # r /\ Before(key, q, r) => rank[q] < rank[r]
  <2> SUFFICES ASSUME NEW q \in rows, NEW r \in rows, q # r, Before(key, q, r)
               PROVE  rank[q] < rank[r]
    OBVIOUS
  <2>0. q \in Int /\ r \in Int /\ key[q] \in Int /\ key[r] \in Int
    OBVIOUS
  <2>1. r \notin UpTo(rows, key, q)
    BY <2>0, <1>2 DEF Before
  <2>2. \A x \in rows : Before(key, x, q) => Before(key, x, r)
    BY <2>0 DEF Before
  <2>3. UpTo(rows, key, q) \subseteq UpTo(rows, key, r)
    BY <1>2, <2>2
  <2>4. UpTo(rows, key, q) # UpTo(rows, key, r)
    BY <1>2, <2>1
  <2> QED BY <1>3, <2>3, <2>4, FS_Subset
<1>5. \A q, r \in rows : Before(key, q, r) \/ Before(key, r, q)
  BY DEF Before
<1>6. \A q, r \in rows : rank[q] = rank[r] => q = r
  <2>1. \A r \in rows : rank[r] \in Int
    BY <1>1, <1>3
  <2> HIDE DEF rank
  <2> QED BY <1>4, <1>5, <2>1
<1>7. \A i \in 1 .. n : \E r \in rows : rank[r] = i
  <2>1. rank \in Injection(rows, 1 .. n)
    <3>1. rank \in [rows -> 1 .. n]
      BY <1>3
    <3> HIDE DEF rank, n
    <3> QED BY <1>6, <3>1 DEF Injection, IsInjective
  <2>2. IsFiniteSet(1 .. n) /\ Cardinality(1 .. n) = n
    BY <1>1, FS_Interval
  <2>3. rank \in Surjection(rows, 1 .. n)
    BY <2>1, <2>2, FS_Injection
  <2> HIDE DEF rank, n
  <2> QED BY <2>3 DEF Surjection
<1>8. \A i \in 1 .. n : order[i] \in rows /\ rank[order[i]] = i
  <2> TAKE i \in 1 .. n
  <2>1. \E r \in rows : Cardinality(UpTo(rows, key, r)) = i
    BY <1>7
  <2> QED BY <2>1 DEF InOrder
<1>9. order \in [1 .. n -> rows]
  BY <1>8 DEF InOrder
<1>10. \A i, j \in 1 .. n : i < j => key[order[i]] <= key[order[j]]
  <2> SUFFICES ASSUME NEW i \in 1 .. n, NEW j \in 1 .. n, i < j
               PROVE  key[order[i]] <= key[order[j]]
    OBVIOUS
  <2>1. /\ order[i] \in rows /\ order[j] \in rows
        /\ rank[order[i]] = i /\ rank[order[j]] = j
    BY <1>8
  <2> HIDE DEF order, rank
  <2>2. i # j /\ ~(j < i)
    BY <1>1
  <2>3. Before(key, order[i], order[j])
    BY <1>4, <1>5, <2>1, <2>2
  <2>4. key[order[i]] \in Int /\ key[order[j]] \in Int
    BY <2>1
  <2> QED BY <2>3, <2>4 DEF Before
<1>11. \A r \in rows : rank[r] \in 1 .. n /\ order[rank[r]] = r
  <2> TAKE r \in rows
  <2>1. rank[r] \in 1 .. n
    BY <1>3
  <2>2. order[rank[r]] \in rows /\ rank[order[rank[r]]] = rank[r]
    BY <1>8, <2>1
  <2> HIDE DEF order, rank
  <2> QED BY <1>6, <2>1, <2>2
<1>12. IsRanked(rows, key, order)
  <2>1. \A r \in rows : rank[r] = Cardinality(UpTo(rows, key, r))
    OBVIOUS
  <2> HIDE DEF order, rank
  <2> QED BY <1>11, <2>1 DEF IsRanked
<1> HIDE DEF order, n
<1>13. IsOrder(rows, key, order)
  <2> HIDE DEF rank
  <2> QED BY <1>1, <1>9, <1>10, <1>11 DEF IsOrder, n
<1> QED BY <1>12, <1>13 DEF order

(* An i32 stays what it is, anything else becomes one.                     *)
LEMMA WrappedFacts ==
  ASSUME NEW n \in Int
  PROVE  /\ Wrapped(n) \in Seconds
         /\ n \in Seconds => Wrapped(n) = n
<1> DEFINE w == 2 * HalfWord
           m == n + HalfWord
<1>1. w \in Nat \ {0} /\ m \in Int /\ HalfWord \in Nat \ {0}
  BY SizesAssumption
<1>2. \A x \in Int, y \in Nat \ {0} : x % y \in 0 .. y - 1 /\ (x \in 0 .. y - 1 => x % y = x)
  OBVIOUS
<1>3. m % w \in 0 .. w - 1 /\ (m \in 0 .. w - 1 => m % w = m)
  <2> HIDE DEF m, w
  <2> QED BY <1>1, <1>2
<1>4. Wrapped(n) = (m % w) - HalfWord
  BY DEF Wrapped
<1> DEFINE rest == m % w
<1>5. rest \in 0 .. w - 1 /\ (m \in 0 .. w - 1 => rest = m) /\ Wrapped(n) = rest - HalfWord
  BY <1>3, <1>4
<1> HIDE DEF rest
<1> QED BY <1>1, <1>5 DEF Seconds

(* A table is a sequence of its rows.                                      *)
LEMMA TableFacts ==
  ASSUME NEW t, IsTable(t)
  PROVE  /\ Len(t) \in Nat
         /\ DOMAIN t = 1 .. Len(t)
         /\ IsFiniteSet(DOMAIN t)
<1>1. Len(t) \in Nat /\ DOMAIN t = 1 .. Len(t)
  BY DEF IsTable
<1> QED BY <1>1, FS_Interval

(* The indices of some rows of a table are in order what InOrder says.     *)
LEMMA RowsInOrder ==
  ASSUME NEW t, IsTable(t), NEW rows, rows \subseteq DOMAIN t,
         NEW key, \A r \in rows : key[r] \in Int
  PROVE  IsOrder(rows, key, InOrder(rows, key))
<1>1. IsFiniteSet(rows) /\ rows \subseteq Int
  BY TableFacts, FS_Subset
<1> QED BY <1>1, InOrderSorts

(* Rows that are a sequence.                                               *)
LEMMA IsSequence ==
  ASSUME NEW n \in Nat, NEW S, NEW s \in [1 .. n -> S]
  PROVE  s \in Seq(S) /\ Len(s) = n /\ DOMAIN s = 1 .. n
OBVIOUS

LEMMA TimesFacts ==
  ASSUME NEW f \in Feeds, NEW trip
  PROVE  /\ Len(TimesOf(f, trip)) \in Nat
         /\ DOMAIN TimesOf(f, trip) = 1 .. Len(TimesOf(f, trip))
         /\ \A i \in DOMAIN TimesOf(f, trip) :
              \E r \in DOMAIN f.stopTimes : TimesOf(f, trip)[i] = f.stopTimes[r]
         /\ \A i \in DOMAIN TimesOf(f, trip) :
              /\ TimesOf(f, trip)[i].arrival \in Seconds
              /\ TimesOf(f, trip)[i].departure \in Seconds
<1> DEFINE rows  == {r \in DOMAIN f.stopTimes : f.stopTimes[r].trip = trip}
           key   == [r \in rows |-> f.stopTimes[r].seq]
           order == InOrder(rows, key)
           n     == Cardinality(rows)
<1>1. IsTable(f.stopTimes) /\ rows \subseteq DOMAIN f.stopTimes
  BY FeedsAssumption DEF IsFeed
<1>2. \A r \in DOMAIN f.stopTimes :
        /\ f.stopTimes[r].seq \in Int
        /\ f.stopTimes[r].arrival \in Seconds /\ f.stopTimes[r].departure \in Seconds
  BY FeedsAssumption DEF IsFeed, Word
<1>3. n \in Nat /\ order \in [1 .. n -> rows]
  <2>1. \A r \in rows : key[r] \in Int
    BY <1>2
  <2> HIDE DEF rows, key
  <2>2. IsOrder(rows, key, order)
    BY <1>1, <2>1, RowsInOrder
  <2> QED BY <2>2 DEF IsOrder
<1>4. TimesOf(f, trip) = [i \in DOMAIN order |-> f.stopTimes[order[i]]]
  BY DEF TimesOf
<1> HIDE DEF order, n
<1>5. TimesOf(f, trip) \in [1 .. n -> {f.stopTimes[r] : r \in rows}]
  BY <1>3, <1>4
<1>6. Len(TimesOf(f, trip)) = n /\ DOMAIN TimesOf(f, trip) = 1 .. n
  <2> HIDE DEF rows
  <2> QED BY <1>3, <1>5, IsSequence
<1> QED BY <1>1, <1>2, <1>3, <1>4, <1>5, <1>6

LEMMA WindowsFacts ==
  ASSUME NEW f \in Feeds, NEW trip
  PROVE  \A i \in DOMAIN WindowsOf(f, trip) :
           /\ i \in Nat
           /\ \E w \in DOMAIN f.frequencies :
                /\ WindowsOf(f, trip)[i] = f.frequencies[w]
                /\ f.frequencies[w].trip = trip
                /\ f.frequencies[w] \in [trip : Nat, start : Seconds, end : Seconds,
                                         headway : Word]
<1> DEFINE rows  == {w \in DOMAIN f.frequencies : f.frequencies[w].trip = trip}
           key   == [w \in rows |-> w]
           order == InOrder(rows, key)
           n     == Cardinality(rows)
<1>1. IsTable(f.frequencies) /\ rows \subseteq DOMAIN f.frequencies
  BY FeedsAssumption DEF IsFeed
<1>2. n \in Nat /\ order \in [1 .. n -> rows]
  <2>1. \A r \in rows : key[r] \in Int
    BY <1>1, TableFacts
  <2> HIDE DEF rows, key
  <2>2. IsOrder(rows, key, order)
    BY <1>1, <2>1, RowsInOrder
  <2> QED BY <2>2 DEF IsOrder
<1>3. WindowsOf(f, trip) = [i \in DOMAIN order |-> f.frequencies[order[i]]]
  BY DEF WindowsOf
<1> HIDE DEF order, n
<1>4. \A i \in DOMAIN WindowsOf(f, trip) :
        i \in Nat /\ order[i] \in rows /\ WindowsOf(f, trip)[i] = f.frequencies[order[i]]
  BY <1>2, <1>3
<1>5. \A w \in DOMAIN f.frequencies :
        f.frequencies[w] \in [trip : Nat, start : Seconds, end : Seconds, headway : Word]
  BY FeedsAssumption DEF IsFeed
<1> QED BY <1>4, <1>5

(* The ends of an order are the least and the greatest.                    *)
LEMMA LeastAndGreatest ==
  ASSUME NEW S, IsFiniteSet(S), S \subseteq Int, S # {}
  PROVE  /\ Min(S) \in S /\ \A x \in S : Min(S) <= x
         /\ Max(S) \in S /\ \A x \in S : Max(S) >= x
<1> DEFINE n     == Cardinality(S)
           key   == [x \in S |-> x]
           order == InOrder(S, key)
<1>1. \A x \in S : key[x] = x /\ key[x] \in Int /\ x \in Int
  OBVIOUS
<1> HIDE DEF key
<1>2. /\ n \in Nat /\ order \in [1 .. n -> S]
      /\ \A i, j \in 1 .. n : i < j => key[order[i]] <= key[order[j]]
      /\ \A x \in S : \E i \in 1 .. n : order[i] = x
  <2>1. \A x \in S : key[x] \in Int
    BY <1>1
  <2>2. IsOrder(S, key, order)
    BY <2>1, InOrderSorts
  <2> QED BY <2>2 DEF IsOrder
<1> HIDE DEF n, order
<1>3. 1 \in 1 .. n /\ n \in 1 .. n
  <2>1. PICK x \in S : TRUE
    OBVIOUS
  <2> QED BY <1>2, <2>1
<1>4. \A i \in 1 .. n : order[i] \in S /\ order[i] \in Int /\ key[order[i]] = order[i]
  BY <1>1, <1>2
<1>5. ASSUME NEW i \in 1 .. n
      PROVE  order[1] <= order[i] /\ order[n] >= order[i]
  <2>1. /\ order[i] \in Int /\ order[n] \in Int
        /\ key[order[1]] = order[1] /\ key[order[i]] = order[i] /\ key[order[n]] = order[n]
    BY <1>3, <1>4
  <2>2. i = 1 \/ key[order[1]] <= key[order[i]]
    BY <1>2, <1>3
  <2>3. i = n \/ key[order[i]] <= key[order[n]]
    BY <1>2, <1>3
  <2> QED BY <2>1, <2>2, <2>3
<1>6. /\ order[1] \in S /\ \A x \in S : order[1] <= x
      /\ order[n] \in S /\ \A x \in S : order[n] >= x
  BY <1>2, <1>3, <1>4, <1>5
<1> QED BY <1>6 DEF Min, Max

(* A trip that is packed is a row of trips, the last of its id.            *)
LEMMA TripFacts ==
  ASSUME NEW f \in Feeds, NEW trip \in TripsToPack(f)
  PROVE  trip \in Nat /\ TripOf(f, trip).accessible \in BOOLEAN
<1> DEFINE rows == {t \in IncludedTrips(f) : f.trips[t].id = trip}
<1>1. /\ IsTable(f.trips)
      /\ \A r \in DOMAIN f.trips : f.trips[r].id \in Nat /\ f.trips[r].accessible \in BOOLEAN
  BY FeedsAssumption DEF IsFeed
<1>2. rows \subseteq DOMAIN f.trips /\ rows # {}
  BY DEF TripsToPack, IncludedTrips
<1>3. IsFiniteSet(rows) /\ rows \subseteq Int
  <2> HIDE DEF rows
  <2>1. IsFiniteSet(DOMAIN f.trips) /\ DOMAIN f.trips \subseteq Int
    BY <1>1, TableFacts
  <2> QED BY <1>2, <2>1, FS_Subset
<1>4. Max(rows) \in rows
  <2> HIDE DEF rows
  <2> QED BY <1>2, <1>3, LeastAndGreatest
<1>5. TripOf(f, trip) = f.trips[Max(rows)] /\ Max(rows) \in DOMAIN f.trips
  BY <1>2, <1>4 DEF TripOf
<1> HIDE DEF rows
<1>6. trip \in Nat
  BY <1>1 DEF TripsToPack, IncludedTrips
<1> QED BY <1>1, <1>5, <1>6

-----------------------------------------------------------------------------
(* What a packed run of n stops is: an i32 for every time, and in order if
   the feed is.                                                            *)
IsRun(f, n, run) ==
  /\ run.id[1] \in Nat
  /\ run.accessible \in BOOLEAN
  /\ run.arrivals \in [1 .. n -> Seconds]
  /\ run.departures \in [1 .. n -> Seconds]
  /\ FeedKeepsTime(f) =>
       /\ \A i \in 1 .. n : 0 <= run.arrivals[i] /\ run.arrivals[i] <= run.departures[i]
       /\ \A i, j \in 1 .. n : i < j => run.departures[i] <= run.arrivals[j]

(* A trip moved by offset does not leave the day at either end.            *)
Fits(f, trip, offset) ==
  \A i \in DOMAIN TimesOf(f, trip) :
    /\ TimesOf(f, trip)[i].arrival + offset >= 0
    /\ TimesOf(f, trip)[i].departure + offset < HalfWord

LEMMA RunIsRun ==
  ASSUME feed \in Feeds, NEW trip \in TripsToPack(feed), NEW id, id[1] = trip,
         NEW offset \in Int, FeedKeepsTime(feed) => Fits(feed, trip, offset)
  PROVE  IsRun(feed, Len(TimesOf(feed, trip)), Run(trip, id, offset))
<1> DEFINE times == TimesOf(feed, trip)
           n     == Len(times)
           run   == Run(trip, id, offset)
<1>1. /\ n \in Nat /\ DOMAIN times = 1 .. n
      /\ \A i \in 1 .. n : times[i].arrival \in Seconds /\ times[i].departure \in Seconds
  BY TimesFacts
<1>2. /\ run.id = id /\ run.accessible = TripOf(feed, trip).accessible
      /\ run.arrivals = [i \in DOMAIN times |-> Wrapped(times[i].arrival + offset)]
      /\ run.departures = [i \in DOMAIN times |-> Wrapped(times[i].departure + offset)]
  BY DEF Run
<1>3. run.id[1] \in Nat /\ run.accessible \in BOOLEAN
  BY <1>2, TripFacts
<1>4. \A x \in Seconds : x \in Int
  BY SizesAssumption DEF Seconds
<1> DEFINE arrival(i)   == times[i].arrival
           departure(i) == times[i].departure
<1>5. \A i \in 1 .. n : /\ arrival(i) \in Int /\ departure(i) \in Int
                        /\ arrival(i) + offset \in Int /\ departure(i) + offset \in Int
  BY <1>1, <1>4
<1>6. \A i \in 1 .. n : /\ run.arrivals[i] = Wrapped(arrival(i) + offset)
                        /\ run.departures[i] = Wrapped(departure(i) + offset)
                        /\ run.arrivals[i] \in Seconds /\ run.departures[i] \in Seconds
  BY <1>1, <1>2, <1>5, WrappedFacts
<1>7. run.arrivals \in [1 .. n -> Seconds] /\ run.departures \in [1 .. n -> Seconds]
  BY <1>1, <1>2, <1>5, WrappedFacts
<1>8. ASSUME FeedKeepsTime(feed)
      PROVE  /\ \A i \in 1 .. n : 0 <= run.arrivals[i] /\ run.arrivals[i] <= run.departures[i]
             /\ \A i, j \in 1 .. n : i < j => run.departures[i] <= run.arrivals[j]
  <2>1. /\ \A i \in 1 .. n : 0 <= arrival(i) /\ arrival(i) <= departure(i)
        /\ \A i, j \in 1 .. n : i < j => departure(i) <= arrival(j)
    BY <1>1, <1>8 DEF FeedKeepsTime, KeepsTime
  <2>2. \A i \in 1 .. n : arrival(i) + offset >= 0 /\ departure(i) + offset < HalfWord
    BY <1>1, <1>8 DEF Fits
  <2> HIDE DEF arrival, departure, n, run
  <2>3. \A i \in 1 .. n : arrival(i) + offset \in Seconds /\ departure(i) + offset \in Seconds
    BY <1>5, <2>1, <2>2, SizesAssumption DEF Seconds
  <2>4. \A i \in 1 .. n : /\ run.arrivals[i] = arrival(i) + offset
                          /\ run.departures[i] = departure(i) + offset
    BY <1>5, <1>6, <2>3, WrappedFacts
  <2>5. \A i \in 1 .. n : 0 <= run.arrivals[i] /\ run.arrivals[i] <= run.departures[i]
    BY <1>5, <2>1, <2>2, <2>4
  <2>6. \A i, j \in 1 .. n : i < j => run.departures[i] <= run.arrivals[j]
    BY <1>5, <2>1, <2>4
  <2> QED BY <2>5, <2>6
<1> HIDE DEF run, n
<1>9. IsRun(feed, n, run)
  BY <1>3, <1>7, <1>8 DEF IsRun
<1> QED BY <1>9 DEF run, n

(* A sort by a key.                                                        *)
LEMMA SortByFacts ==
  ASSUME NEW s, IsTable(s), NEW key, \A i \in DOMAIN s : key[i] \in Int
  PROVE  \E order \in [DOMAIN s -> DOMAIN s] :
           /\ SortBy(s, key) = [n \in DOMAIN s |-> s[order[n]]]
           /\ \A i, j \in DOMAIN s : i < j => key[order[i]] <= key[order[j]]
<1> DEFINE order == InOrder(DOMAIN s, key)
<1>1. IsOrder(DOMAIN s, key, order)
  BY RowsInOrder
<1>2. Len(s) \in Nat /\ DOMAIN s = 1 .. Len(s)
  BY TableFacts
<1>3. Cardinality(DOMAIN s) = Len(s)
  BY <1>2, FS_Interval
<1>4. SortBy(s, key) = [n \in DOMAIN s |-> s[order[n]]]
  BY DEF SortBy
<1> HIDE DEF order
<1> QED BY <1>1, <1>2, <1>3, <1>4 DEF IsOrder

(* Trips that are sorted are the same trips, by their first departure.      *)
SortsTrips(trips, new) ==
  /\ IsTable(new)
  /\ DOMAIN new = DOMAIN trips
  /\ \A i \in DOMAIN new : \E j \in DOMAIN trips : new[i] = trips[j]
  /\ \A i, j \in DOMAIN new :
       i < j => new[i].departures[1] <= new[j].departures[1]

LEMMA MapIsTable ==
  ASSUME NEW s, IsTable(s), NEW order \in [DOMAIN s -> DOMAIN s]
  PROVE  IsTable([n \in DOMAIN s |-> s[order[n]]])
<1> DEFINE new == [n \in DOMAIN s |-> s[order[n]]]
<1>1. Len(s) \in Nat /\ DOMAIN s = 1 .. Len(s)
  BY TableFacts
<1>2. new \in [1 .. Len(s) -> {new[n] : n \in DOMAIN new}]
  BY <1>1
<1> HIDE DEF new
<1>3. new \in Seq({new[n] : n \in DOMAIN new})
  BY <1>1, <1>2, IsSequence
<1>4. IsTable(new)
  BY <1>3 DEF IsTable
<1> QED BY <1>4 DEF new

LEMMA SortedSorts ==
  ASSUME NEW trips, IsTable(trips),
         \A i \in DOMAIN trips : trips[i].id[1] \in Int /\ trips[i].departures[1] \in Int
  PROVE  SortsTrips(trips, Sorted(trips))
<1> DEFINE ids  == [i \in DOMAIN trips |-> trips[i].id[1]]
           byId == SortBy(trips, ids)
           key  == [i \in DOMAIN byId |-> byId[i].departures[1]]
           new  == SortBy(byId, key)
<1>1. PICK first \in [DOMAIN trips -> DOMAIN trips] :
        byId = [n \in DOMAIN trips |-> trips[first[n]]]
  <2>1. \A i \in DOMAIN trips : ids[i] \in Int
    OBVIOUS
  <2> HIDE DEF ids
  <2> QED BY <2>1, SortByFacts
<1>2. Sorted(trips) = new
  BY DEF Sorted
<1> HIDE DEF ids, byId
<1>3. IsTable(byId) /\ DOMAIN byId = DOMAIN trips
  BY <1>1, MapIsTable
<1>4. \A i \in DOMAIN byId : key[i] \in Int
  BY <1>1, <1>3
<1>5. PICK order \in [DOMAIN byId -> DOMAIN byId] :
        /\ new = [n \in DOMAIN byId |-> byId[order[n]]]
        /\ \A i, j \in DOMAIN byId : i < j => key[order[i]] <= key[order[j]]
  <2> HIDE DEF key
  <2> QED BY <1>3, <1>4, SortByFacts
<1>6. \A i \in DOMAIN byId : key[i] = byId[i].departures[1]
  OBVIOUS
<1> HIDE DEF new, key
<1>7. IsTable(new) /\ DOMAIN new = DOMAIN byId
  BY <1>3, <1>5, MapIsTable
<1>8. \A i \in DOMAIN new : /\ new[i] = trips[first[order[i]]]
                            /\ first[order[i]] \in DOMAIN trips
                            /\ new[i].departures[1] = key[order[i]]
  BY <1>1, <1>3, <1>5, <1>6, <1>7
<1>9. \A i, j \in DOMAIN new : i < j => new[i].departures[1] <= new[j].departures[1]
  BY <1>5, <1>7, <1>8
<1> QED BY <1>2, <1>3, <1>7, <1>8, <1>9 DEF SortsTrips

-----------------------------------------------------------------------------
(* What a pattern between these stations is.                               *)
IsPattern(f, stations, pattern) ==
  /\ DOMAIN pattern = {"route", "stops", "mode", "trips"}
  /\ pattern.stops \in Seq(stations)
  /\ Len(pattern.stops) >= 2
  /\ IsTable(pattern.trips)
  /\ \A i \in DOMAIN pattern.trips :
       IsRun(f, Len(pattern.stops), pattern.trips[i])

(* A table with one more row.                                              *)
LEMMA AppendRow ==
  ASSUME NEW t, IsTable(t), NEW x
  PROVE  /\ IsTable(Append(t, x))
         /\ Len(Append(t, x)) = Len(t) + 1
         /\ DOMAIN Append(t, x) = DOMAIN t \cup {Len(t) + 1}
         /\ \A i \in DOMAIN t : Append(t, x)[i] = t[i]
         /\ Append(t, x)[Len(t) + 1] = x
<1> DEFINE S == {t[i] : i \in DOMAIN t} \cup {x}
           new == Append(t, x)
<1>1. t \in Seq(S)
  <2>1. t \in Seq({t[i] : i \in DOMAIN t})
    BY DEF IsTable
  <2> QED BY <2>1
<1> HIDE DEF S
<1>2. /\ new \in Seq(S) /\ Len(new) = Len(t) + 1
      /\ Len(t) \in Nat
      /\ \A i \in DOMAIN t : new[i] = t[i]
      /\ new[Len(t) + 1] = x
      /\ DOMAIN t = 1 .. Len(t) /\ DOMAIN new = 1 .. Len(new)
  BY <1>1 DEF S
<1> HIDE DEF new
<1>3. DOMAIN new = DOMAIN t \cup {Len(t) + 1}
  BY <1>2
<1>4. new \in [1 .. Len(new) -> {new[i] : i \in DOMAIN new}]
  BY <1>2
<1>5. new \in Seq({new[i] : i \in DOMAIN new})
  BY <1>2, <1>4, IsSequence
<1> QED BY <1>2, <1>3, <1>5 DEF IsTable, new

(* One more run.                                                           *)
LEMMA OneMoreRun ==
  ASSUME NEW f, NEW stations, NEW pattern, IsPattern(f, stations, pattern),
         NEW run, IsRun(f, Len(pattern.stops), run)
  PROVE  IsPattern(f, stations, [pattern EXCEPT !.trips = Append(@, run)])
<1> DEFINE new == [pattern EXCEPT !.trips = Append(@, run)]
<1>1. DOMAIN pattern = {"route", "stops", "mode", "trips"}
  BY DEF IsPattern
<1>2. /\ DOMAIN new = DOMAIN pattern
      /\ new.stops = pattern.stops
      /\ new.trips = Append(pattern.trips, run)
  BY <1>1
<1>3. /\ IsTable(Append(pattern.trips, run))
      /\ \A i \in DOMAIN Append(pattern.trips, run) :
           \/ i \in DOMAIN pattern.trips
                /\ Append(pattern.trips, run)[i] = pattern.trips[i]
           \/ Append(pattern.trips, run)[i] = run
  BY AppendRow DEF IsPattern
<1> HIDE DEF new
<1>4. \A i \in DOMAIN new.trips : IsRun(f, Len(new.stops), new.trips[i])
  BY <1>2, <1>3 DEF IsPattern
<1>5. IsPattern(f, stations, new)
  BY <1>1, <1>2, <1>3, <1>4 DEF IsPattern
<1> QED BY <1>5 DEF new

(* Its trips sorted.                                                       *)
LEMMA SortedPattern ==
  ASSUME NEW f, NEW stations, NEW pattern, IsPattern(f, stations, pattern)
  PROVE  LET new == [pattern EXCEPT !.trips = Sorted(@)]
         IN  /\ IsPattern(f, stations, new)
             /\ SortsTrips(pattern.trips, new.trips)
<1> DEFINE new == [pattern EXCEPT !.trips = Sorted(@)]
           n   == Len(pattern.stops)
<1>1. DOMAIN pattern = {"route", "stops", "mode", "trips"}
  BY DEF IsPattern
<1>2. /\ DOMAIN new = DOMAIN pattern
      /\ new.stops = pattern.stops
      /\ new.trips = Sorted(pattern.trips)
  BY <1>1
<1>3. /\ n \in Nat /\ n >= 2
      /\ IsTable(pattern.trips)
      /\ \A i \in DOMAIN pattern.trips : IsRun(f, n, pattern.trips[i])
  BY DEF IsPattern
<1> HIDE DEF new, n
<1>4. SortsTrips(pattern.trips, Sorted(pattern.trips))
  <2>1. \A i \in DOMAIN pattern.trips : /\ pattern.trips[i].id[1] \in Int
                                        /\ pattern.trips[i].departures[1] \in Int
    BY <1>3, SizesAssumption DEF IsRun, Seconds
  <2> QED BY <1>3, <2>1, SortedSorts
<1>5. \A i \in DOMAIN new.trips : IsRun(f, n, new.trips[i])
  BY <1>2, <1>3, <1>4 DEF SortsTrips
<1>6. IsPattern(f, stations, new)
  BY <1>1, <1>2, <1>4, <1>5 DEF IsPattern, SortsTrips, n
<1> QED BY <1>2, <1>4, <1>6 DEF new

-----------------------------------------------------------------------------
Id(r)      == feed.stops[r].id
Station(r) == StationOf(feed.stops[r])

(* The rows read so far.                                                   *)
Read == {r \in DOMAIN feed.stops : r < row}

(* Every id that leads somewhere is that of a stop or a station read, and
   both of these lead to the station.                                      *)
StationInv ==
  /\ feed \in Feeds
  /\ row \in Nat \ {0}
  /\ stopIds \in Seq({Station(r) : r \in DOMAIN feed.stops})
  /\ pc # "stops" => Read = DOMAIN feed.stops
  /\ \A s \in DOMAIN lookup : \E r \in Read : s \in {Id(r), Station(r)}
  /\ \A r \in Read : {Id(r), Station(r)} \subseteq DOMAIN lookup
  /\ TwoLevels(feed) =>
       \A r \in Read : \A s \in {Id(r), Station(r)} :
         /\ lookup[s] \in DOMAIN stopIds
         /\ stopIds[lookup[s]] = Station(r)

LEMMA RowsAreNumbers ==
  ASSUME feed \in Feeds
  PROVE  /\ Len(feed.stops) \in Nat
         /\ DOMAIN feed.stops = 1 .. Len(feed.stops)
<1>1. IsTable(feed.stops)
  BY FeedsAssumption DEF IsFeed
<1> QED BY <1>1 DEF IsTable

LEMMA StationInit == Init => StationInv
<1> SUFFICES ASSUME Init PROVE StationInv
  OBVIOUS
<1>1. Read = {}
  BY RowsAreNumbers DEF Init, Read
<1>2. DOMAIN lookup = {}
  BY DEF Init
<1> QED BY <1>1, <1>2 DEF Init, StationInv

(* What PutIfAbsent leaves and what it adds.                               *)
LEMMA PutKeeps ==
  ASSUME NEW map, NEW key, NEW value
  PROVE  LET new == PutIfAbsent(map, key, value)
         IN  /\ DOMAIN new = DOMAIN map \cup {key}
             /\ \A k \in DOMAIN map : new[k] = map[k]
             /\ key \notin DOMAIN map => new[key] = value
<1>1. CASE key \in DOMAIN map
  BY <1>1 DEF PutIfAbsent
<1>2. CASE key \notin DOMAIN map
  BY <1>2 DEF PutIfAbsent, Put
<1> QED BY <1>1, <1>2

(* The row that is read makes its station known, if it is not, and its own
   id lead there, for whatever id it has been met with before was met in a
   row of the same station.                                                *)
LEMMA StationRegister == StationInv /\ RegisterStop => StationInv'
<1> SUFFICES ASSUME StationInv, RegisterStop
             PROVE  StationInv'
  OBVIOUS
<1> DEFINE n     == Len(stopIds) + 1
           id    == Id(row)
           st    == Station(row)
           known == PutIfAbsent(lookup, st, n)
<1>1. /\ feed \in Feeds /\ feed' = feed /\ row \in DOMAIN feed.stops
      /\ row \in Nat /\ row' = row + 1 /\ pc = "stops" /\ pc' = pc
      /\ DOMAIN feed.stops = 1 .. Len(feed.stops) /\ Len(feed.stops) \in Nat
  BY RowsAreNumbers DEF StationInv, RegisterStop
<1>2. /\ Read' = Read \cup {row}
      /\ \A r \in DOMAIN feed.stops : Id(r)' = Id(r) /\ Station(r)' = Station(r)
  BY <1>1 DEF Read, Id, Station, StationOf
<1>3. /\ lookup' = PutIfAbsent(known, id, known[st])
      /\ stopIds' = IF st \in DOMAIN lookup THEN stopIds ELSE Append(stopIds, st)
  BY DEF RegisterStop, LookupWith, Id, Station
<1>4. /\ stopIds \in Seq({Station(r) : r \in DOMAIN feed.stops})
      /\ st \in {Station(r) : r \in DOMAIN feed.stops}
      /\ n \in Nat
  BY <1>1 DEF StationInv
<1>5. /\ stopIds' \in Seq({Station(r) : r \in DOMAIN feed.stops})
      /\ \A i \in DOMAIN stopIds : i \in DOMAIN stopIds' /\ stopIds'[i] = stopIds[i]
      /\ st \notin DOMAIN lookup => n \in DOMAIN stopIds' /\ stopIds'[n] = st
  <2> HIDE DEF st
  <2> QED BY <1>3, <1>4
<1>6. /\ DOMAIN known = DOMAIN lookup \cup {st}
      /\ \A s \in DOMAIN lookup : known[s] = lookup[s]
      /\ st \notin DOMAIN lookup => known[st] = n
  BY PutKeeps
<1>7. /\ DOMAIN lookup' = DOMAIN lookup \cup {st, id}
      /\ \A s \in DOMAIN known : lookup'[s] = known[s]
      /\ id \notin DOMAIN known => lookup'[id] = known[st]
  <2> HIDE DEF known, id, st
  <2> DEFINE new == PutIfAbsent(known, id, known[st])
  <2>1. /\ DOMAIN new = DOMAIN known \cup {id}
        /\ \A s \in DOMAIN known : new[s] = known[s]
        /\ id \notin DOMAIN known => new[id] = known[st]
    BY PutKeeps
  <2> HIDE DEF new
  <2> QED BY <1>3, <1>6, <2>1 DEF new
<1>8. \A s \in DOMAIN lookup' : \E r \in Read' : s \in {Id(r)', Station(r)'}
  <2> HIDE DEF id, st
  <2> SUFFICES ASSUME NEW s \in DOMAIN lookup'
               PROVE  \E r \in Read' : s \in {Id(r)', Station(r)'}
    OBVIOUS
  <2>1. CASE s \in {id, st}
    BY <1>1, <1>2, <2>1 DEF id, st
  <2>2. CASE s \in DOMAIN lookup
    <3>1. PICK r \in Read : s \in {Id(r), Station(r)}
      BY <2>2 DEF StationInv
    <3> QED BY <1>2, <3>1 DEF Read
  <2> QED BY <1>7, <2>1, <2>2
<1>9. \A r \in Read' : {Id(r)', Station(r)'} \subseteq DOMAIN lookup'
  <2> SUFFICES ASSUME NEW r \in Read'
               PROVE  {Id(r)', Station(r)'} \subseteq DOMAIN lookup'
    OBVIOUS
  <2>1. CASE r = row
    BY <1>1, <1>2, <1>7, <2>1
  <2>2. CASE r \in Read
    BY <1>2, <1>7, <2>2 DEF StationInv, Read
  <2> QED BY <1>2, <2>1, <2>2
<1>10. TwoLevels(feed)' =>
         \A r \in Read' : \A s \in {Id(r)', Station(r)'} :
           /\ lookup'[s] \in DOMAIN stopIds'
           /\ stopIds'[lookup'[s]] = Station(r)'
  <2>0. TwoLevels(feed)' = TwoLevels(feed)
    BY <1>1 DEF TwoLevels, StationOf
  <2> SUFFICES ASSUME TwoLevels(feed)
               PROVE  \A r \in Read' : \A s \in {Id(r)', Station(r)'} :
                        /\ lookup'[s] \in DOMAIN stopIds'
                        /\ stopIds'[lookup'[s]] = Station(r)'
    BY <2>0
  <2>1. \A r, q \in DOMAIN feed.stops :
          /\ Id(q) = Id(r) => Station(q) = Station(r)
          /\ Id(q) = Station(r) => Station(q) = Id(q)
    BY DEF TwoLevels, Id, Station
  <2>2. \A r \in Read : \A s \in {Id(r), Station(r)} :
          /\ s \in DOMAIN lookup
          /\ lookup[s] \in DOMAIN stopIds
          /\ stopIds[lookup[s]] = Station(r)
    BY DEF StationInv
  <2>3. \A s \in DOMAIN lookup : lookup'[s] = lookup[s]
    BY <1>6, <1>7
  <2>4. known[st] \in DOMAIN stopIds' /\ stopIds'[known[st]] = st
    <3>1. CASE st \in DOMAIN lookup
      <4>1. PICK r \in Read : st \in {Id(r), Station(r)}
        BY <3>1 DEF StationInv
      <4>2. Station(r) = st
        BY <1>1, <2>1, <4>1 DEF Read
      <4>3. lookup[st] \in DOMAIN stopIds /\ stopIds[lookup[st]] = st
        BY <2>2, <4>1, <4>2
      <4>4. known[st] = lookup[st]
        BY <1>6, <3>1
      <4> HIDE DEF known, st
      <4> QED BY <1>5, <4>3, <4>4
    <3>2. CASE st \notin DOMAIN lookup
      BY <1>5, <1>6, <3>2
    <3> QED BY <3>1, <3>2
  <2>5. lookup'[st] = known[st]
    BY <1>6, <1>7
  <2>6. lookup'[id] \in DOMAIN stopIds' /\ stopIds'[lookup'[id]] = st
    <3>1. CASE id \notin DOMAIN known \/ id = st
      BY <1>7, <2>4, <2>5, <3>1
    <3>2. CASE id \in DOMAIN lookup
      <4>1. PICK r \in Read : id \in {Id(r), Station(r)}
        BY <3>2 DEF StationInv
      <4>2. Station(r) = st
        BY <1>1, <2>1, <4>1 DEF Read
      <4>3. lookup[id] \in DOMAIN stopIds /\ stopIds[lookup[id]] = st
        BY <2>2, <4>1, <4>2
      <4>4. lookup'[id] = lookup[id]
        BY <2>3, <3>2
      <4> HIDE DEF id, st
      <4> QED BY <1>5, <4>3, <4>4
    <3> QED BY <1>6, <3>1, <3>2
  <2>7. TAKE r \in Read'
  <2>8. TAKE s \in {Id(r)', Station(r)'}
  <2>9. CASE r = row
    BY <1>1, <1>2, <2>4, <2>5, <2>6, <2>9
  <2>10. CASE r \in Read
    <3>1. r \in DOMAIN feed.stops
      BY <2>10 DEF Read
    <3>2. s \in {Id(r), Station(r)} /\ Station(r)' = Station(r)
      BY <1>2, <2>8, <3>1
    <3>3. lookup'[s] = lookup[s] /\ lookup[s] \in DOMAIN stopIds
          /\ stopIds[lookup[s]] = Station(r)
      BY <2>2, <2>3, <2>10, <3>2
    <3> QED BY <1>5, <3>2, <3>3
  <2> QED BY <1>2, <2>9, <2>10
<1>11. stopIds' \in Seq({Station(r) : r \in DOMAIN feed.stops}')
  BY <1>1, <1>5 DEF Station, StationOf
<1> HIDE DEF id, st, known, n
<1> QED BY <1>1, <1>8, <1>9, <1>10, <1>11 DEF StationInv

(* Once the rows are read nobody touches what was made of them.            *)
LEMMA StationStep == StationInv /\ [Next]_vars => StationInv'
<1> SUFFICES ASSUME StationInv, [Next]_vars
             PROVE  StationInv'
  OBVIOUS
<1>1. CASE RegisterStop
  BY <1>1, StationRegister
<1>2. CASE /\ UNCHANGED <<feed, row, stopIds, lookup>>
           /\ pc' # "stops" => pc # "stops" \/ row \notin DOMAIN feed.stops
  <2>1. /\ Read' = Read
        /\ \A r : Id(r)' = Id(r) /\ Station(r)' = Station(r)
        /\ TwoLevels(feed)' = TwoLevels(feed)
        /\ {Station(r) : r \in DOMAIN feed.stops}'
             = {Station(r) : r \in DOMAIN feed.stops}
    <3>1. /\ Read' = Read
          /\ \A r : Id(r)' = Id(r) /\ Station(r)' = Station(r)
      BY <1>2 DEF Read, Id, Station, StationOf
    <3>2. TwoLevels(feed)' = TwoLevels(feed)
      BY <1>2 DEF TwoLevels
    <3> QED BY <1>2, <3>1, <3>2
  <2>2. pc' # "stops" => Read = DOMAIN feed.stops
    <3>1. CASE row \notin DOMAIN feed.stops
      <4>1. row \in Nat \ {0} /\ feed \in Feeds
        BY DEF StationInv
      <4>2. \A r \in DOMAIN feed.stops : r < row
        BY <3>1, <4>1, RowsAreNumbers
      <4> QED BY <4>2 DEF Read, StationInv
    <3> QED BY <1>2, <3>1 DEF StationInv
  <2> QED BY <1>2, <2>1, <2>2 DEF StationInv
<1>3. CASE StopsDone
  BY <1>2, <1>3 DEF StopsDone
<1>4. CASE SkipTrip \/ Panic \/ PackTrip
  BY <1>2, <1>4 DEF SkipTrip, Panic, PackTrip
<1>5. CASE OpenWindow \/ SkipWindow \/ AddRun \/ CloseWindow \/ WindowsDone
  BY <1>2, <1>5 DEF OpenWindow, SkipWindow, AddRun, CloseWindow, WindowsDone
<1>6. CASE SortTrips
  BY <1>2, <1>6 DEF SortTrips
<1>7. CASE UNCHANGED vars
  BY <1>2, <1>7 DEF vars
<1> QED BY <1>1, <1>3, <1>4, <1>5, <1>6, <1>7 DEF Next

(* Platforms and their station are one stop, whichever row came first, in
   every feed whose stations are no parts of other stations.               *)
THEOREM StationsAreOne == Spec => []StationsAgree
<1>1. StationInv => StationsAgree
  BY DEF StationInv, StationsAgree, Id, Station
<1> QED BY <1>1, StationInit, StationStep, PTL DEF Spec

-----------------------------------------------------------------------------
(* The trip with frequencies that is expanded fits its pattern, and its
   window has begun.                                                       *)
PackingInv ==
  /\ packing \in [trip : Nat, pattern : Nat, window : Nat, dep : Seconds]
  /\ packing.pattern \in {0} \cup DOMAIN patterns
  /\ pc \in {"windows", "runs"} =>
       /\ packing.trip \in TripsToPack(feed)
       /\ packing.pattern \in DOMAIN patterns
       /\ Len(TimesOf(feed, packing.trip)) = Len(patterns[packing.pattern].stops)
  /\ pc = "runs" =>
       /\ WindowsLeft
       /\ Window.headway > 0
       /\ FeedKeepsTime(feed) => packing.dep >= Window.start

(* Nothing but patterns between registered stations, of runs that keep time
   if the feed does.                                                       *)
BuildInv ==
  /\ StationInv
  /\ row <= Len(feed.stops) + 1
  /\ Len(stopIds) < row
  /\ lookup \in [DOMAIN lookup -> DOMAIN stopIds]
  /\ DOMAIN canonical \subseteq {feed.stops[r].id : r \in DOMAIN feed.stops}
  /\ pc \in {"stops", "trips", "windows", "runs", "done", "panicked"}
  /\ pending \subseteq TripsToPack(feed)
  /\ pc = "stops" => patterns = <<>>
  /\ IsTable(patterns)
  /\ \A p \in DOMAIN patterns : IsPattern(feed, DOMAIN stopIds, patterns[p])
  /\ PackingInv
  /\ pc = "done" =>
       \A p \in DOMAIN patterns : \A i, j \in DOMAIN patterns[p].trips :
         i < j => patterns[p].trips[i].departures[1] <= patterns[p].trips[j].departures[1]

LEMMA BuildInit == Init => BuildInv
<1> SUFFICES ASSUME Init PROVE BuildInv
  OBVIOUS
<1>1. StationInv
  BY StationInit
<1>2. /\ feed \in Feeds /\ row = 1 /\ stopIds = <<>> /\ lookup = <<>> /\ canonical = <<>>
      /\ pc = "stops" /\ pending = TripsToPack(feed) /\ patterns = <<>>
      /\ packing = NotPacking
  BY DEF Init
<1>3. Len(feed.stops) \in Nat
  BY <1>2, RowsAreNumbers
<1>4. DOMAIN lookup = {} /\ DOMAIN canonical = {} /\ DOMAIN patterns = {}
  BY <1>2
<1>5. lookup \in [DOMAIN lookup -> DOMAIN stopIds]
  BY <1>2, <1>4
<1>6. IsTable(patterns)
  BY <1>2, <1>4 DEF IsTable
<1>7. PackingInv
  BY <1>2, SizesAssumption DEF PackingInv, NotPacking, Seconds
<1> QED BY <1>1, <1>2, <1>3, <1>4, <1>5, <1>6, <1>7 DEF BuildInv

LEMMA PutTyped ==
  ASSUME NEW S, NEW map, map \in [DOMAIN map -> S], NEW key, NEW value,
         key \in DOMAIN map \/ value \in S
  PROVE  LET new == PutIfAbsent(map, key, value)
         IN  new \in [DOMAIN new -> S]
<1>1. CASE key \in DOMAIN map
  BY <1>1 DEF PutIfAbsent
<1>2. CASE key \notin DOMAIN map
  BY <1>2 DEF PutIfAbsent, Put
<1> QED BY <1>1, <1>2

(* A stops row adds a station or none.                                     *)
LEMMA BuildRegister == BuildInv /\ RegisterStop => BuildInv'
<1> SUFFICES ASSUME BuildInv, RegisterStop
             PROVE  BuildInv'
  OBVIOUS
<1> DEFINE n     == Len(stopIds) + 1
           id    == Id(row)
           st    == Station(row)
           known == PutIfAbsent(lookup, st, n)
<1>1. StationInv'
  BY StationRegister DEF BuildInv
<1>2. /\ feed \in Feeds /\ feed' = feed /\ row \in DOMAIN feed.stops
      /\ row \in Nat /\ row' = row + 1 /\ pc = "stops" /\ pc' = pc
      /\ pending' = pending /\ patterns' = patterns /\ packing' = packing
      /\ DOMAIN feed.stops = 1 .. Len(feed.stops) /\ Len(feed.stops) \in Nat
      /\ Len(stopIds) < row /\ patterns = <<>>
  BY RowsAreNumbers DEF BuildInv, StationInv, RegisterStop
<1>3. /\ lookup' = PutIfAbsent(known, id, known[st])
      /\ stopIds' = IF st \in DOMAIN lookup THEN stopIds ELSE Append(stopIds, st)
      /\ canonical' = Put(canonical, id, st)
  BY DEF RegisterStop, LookupWith, Id, Station
<1>4. /\ stopIds \in Seq({Station(r) : r \in DOMAIN feed.stops})
      /\ st \in {Station(r) : r \in DOMAIN feed.stops}
      /\ n \in Nat
  BY <1>2 DEF BuildInv, StationInv
<1>5. /\ Len(stopIds') <= Len(stopIds) + 1 /\ Len(stopIds') \in Nat
      /\ DOMAIN stopIds \subseteq DOMAIN stopIds'
      /\ st \notin DOMAIN lookup => n \in DOMAIN stopIds'
  <2> HIDE DEF st
  <2> QED BY <1>3, <1>4
<1>6. lookup' \in [DOMAIN lookup' -> DOMAIN stopIds']
  <2>1. lookup \in [DOMAIN lookup -> DOMAIN stopIds']
    BY <1>5 DEF BuildInv
  <2>2. known \in [DOMAIN known -> DOMAIN stopIds']
    <3> HIDE DEF st, n
    <3> QED BY <1>5, <2>1, PutTyped
  <2>3. st \in DOMAIN known
    <3> HIDE DEF st, n
    <3>1. DOMAIN known = DOMAIN lookup \cup {st}
      BY PutKeeps
    <3> QED BY <3>1
  <2> HIDE DEF known, st, id
  <2>4. known[st] \in DOMAIN stopIds'
    BY <2>2, <2>3
  <2> DEFINE new == PutIfAbsent(known, id, known[st])
  <2>5. new \in [DOMAIN new -> DOMAIN stopIds']
    BY <2>2, <2>4, PutTyped
  <2> HIDE DEF new
  <2> QED BY <1>3, <2>5 DEF new
<1>7. DOMAIN canonical' \subseteq {feed'.stops[r].id : r \in DOMAIN feed'.stops}
  <2>1. DOMAIN canonical' = DOMAIN canonical \cup {id}
    BY <1>3 DEF Put
  <2> QED BY <1>2, <2>1 DEF BuildInv, Id
<1>8. PackingInv'
  <2>1. PackingInv
    BY DEF BuildInv
  <2> QED BY <1>2, <2>1 DEF PackingInv
<1>9. row' <= Len(feed'.stops) + 1 /\ Len(stopIds') < row'
  BY <1>2, <1>4, <1>5
<1>10. /\ pending' \subseteq TripsToPack(feed')
       /\ pc' \in {"stops", "trips", "windows", "runs", "done", "panicked"}
       /\ pc' # "done"
       /\ patterns' = <<>> /\ IsTable(patterns') /\ DOMAIN patterns' = {}
  BY <1>2 DEF BuildInv
<1> HIDE DEF known, st, id, n
<1> QED BY <1>1, <1>6, <1>7, <1>8, <1>9, <1>10 DEF BuildInv

-----------------------------------------------------------------------------
(* A step after the stops are read keeps what they made: what is left to be
   shown of it.                                                            *)
LEMMA StationsStay ==
  ASSUME BuildInv, [Next]_vars, pc # "stops",
         UNCHANGED <<feed, row, stopIds, lookup, canonical>>,
         pc' \in {"trips", "windows", "runs", "done", "panicked"},
         pending' \subseteq pending,
         IsTable(patterns'),
         \A p \in DOMAIN patterns' : IsPattern(feed, DOMAIN stopIds, patterns'[p]),
         PackingInv',
         pc' = "done" =>
           \A p \in DOMAIN patterns' : \A i, j \in DOMAIN patterns'[p].trips :
             i < j => patterns'[p].trips[i].departures[1] <= patterns'[p].trips[j].departures[1]
  PROVE  BuildInv'
<1>1. StationInv'
  BY StationStep DEF BuildInv
<1>2. TripsToPack(feed)' = TripsToPack(feed)
  BY DEF TripsToPack
<1>3. \A p \in DOMAIN patterns' : IsPattern(feed', DOMAIN stopIds', patterns'[p])
  OBVIOUS
<1>4. /\ row' <= Len(feed'.stops) + 1 /\ Len(stopIds') < row'
      /\ lookup' \in [DOMAIN lookup' -> DOMAIN stopIds']
      /\ DOMAIN canonical' \subseteq {feed'.stops[r].id : r \in DOMAIN feed'.stops}
  BY DEF BuildInv
<1>5. pending' \subseteq TripsToPack(feed')
  BY DEF BuildInv
<1> QED BY <1>1, <1>3, <1>4, <1>5 DEF BuildInv

(* Steps that leave the patterns alone.                                    *)
LEMMA PatternsStay ==
  ASSUME BuildInv, [Next]_vars, pc # "stops",
         UNCHANGED <<feed, row, stopIds, lookup, canonical, patterns>>,
         pc' \in {"trips", "windows", "runs", "panicked"},
         pending' \subseteq pending,
         PackingInv'
  PROVE  BuildInv'
<1>1. IsTable(patterns) /\ \A p \in DOMAIN patterns : IsPattern(feed, DOMAIN stopIds, patterns[p])
  BY DEF BuildInv
<1> QED BY <1>1, StationsStay

LEMMA BuildSkip ==
  BuildInv /\ (StopsDone \/ SkipTrip \/ Panic) => BuildInv'
<1> SUFFICES ASSUME BuildInv, StopsDone \/ SkipTrip \/ Panic
             PROVE  BuildInv'
  OBVIOUS
<1>1. PackingInv
  BY DEF BuildInv
<1>2. [Next]_vars
  BY DEF Next
<1>3. CASE StopsDone
  <2>1. /\ UNCHANGED <<feed, row, stopIds, lookup, canonical, patterns, pending, packing>>
        /\ pc = "stops" /\ pc' = "trips"
    BY <1>3 DEF StopsDone
  <2>2. StationInv'
    BY <1>2, StationStep DEF BuildInv
  <2>3. PackingInv'
    BY <1>1, <2>1 DEF PackingInv
  <2>4. \A p \in DOMAIN patterns' : IsPattern(feed', DOMAIN stopIds', patterns'[p])
    BY <2>1 DEF BuildInv
  <2>5. TripsToPack(feed)' = TripsToPack(feed)
    BY <2>1 DEF TripsToPack
  <2> QED BY <2>1, <2>2, <2>3, <2>4, <2>5 DEF BuildInv
<1>4. CASE SkipTrip
  <2>1. /\ UNCHANGED <<feed, row, stopIds, lookup, canonical, patterns, packing>>
        /\ pc = "trips" /\ pc' = "trips" /\ pending' \subseteq pending
    BY <1>4 DEF SkipTrip
  <2>2. PackingInv'
    BY <1>1, <2>1 DEF PackingInv
  <2> QED BY <1>2, <2>1, <2>2, PatternsStay
<1>5. CASE Panic
  <2>1. /\ UNCHANGED <<feed, row, stopIds, lookup, canonical, patterns, pending, packing>>
        /\ pc = "trips" /\ pc' = "panicked"
    BY <1>5 DEF Panic
  <2>2. PackingInv'
    BY <1>1, <2>1 DEF PackingInv
  <2> QED BY <1>2, <2>1, <2>2, PatternsStay
<1> QED BY <1>3, <1>4, <1>5

(* A step from window to window.                                           *)
LEMMA BuildWindow ==
  BuildInv /\ (OpenWindow \/ SkipWindow \/ CloseWindow \/ WindowsDone) => BuildInv'
<1> SUFFICES ASSUME BuildInv, OpenWindow \/ SkipWindow \/ CloseWindow \/ WindowsDone
             PROVE  BuildInv'
  OBVIOUS
<1>1. PackingInv
  BY DEF BuildInv
<1>2. [Next]_vars
  BY DEF Next
<1>3. /\ UNCHANGED <<feed, row, stopIds, lookup, canonical, patterns, pending>>
      /\ pc \in {"windows", "runs"}
  BY DEF OpenWindow, SkipWindow, CloseWindow, WindowsDone
<1>4. /\ packing \in [trip : Nat, pattern : Nat, window : Nat, dep : Seconds]
      /\ packing.pattern \in DOMAIN patterns
      /\ packing.trip \in TripsToPack(feed)
      /\ Len(TimesOf(feed, packing.trip)) = Len(patterns[packing.pattern].stops)
  BY <1>1, <1>3 DEF PackingInv
<1>5. TripsToPack(feed)' = TripsToPack(feed)
  BY <1>3 DEF TripsToPack
<1>6. CASE OpenWindow
  <2>1. /\ pc' = "runs" /\ WindowsLeft /\ Window.headway # 0
        /\ packing' = [packing EXCEPT !.dep = Window.start]
    BY <1>6 DEF OpenWindow
  <2>2. Window \in [trip : Nat, start : Seconds, end : Seconds, headway : Word]
    <3>1. feed \in Feeds
      BY DEF BuildInv, StationInv
    <3>2. \A i \in DOMAIN WindowsOf(feed, packing.trip) :
            WindowsOf(feed, packing.trip)[i]
              \in [trip : Nat, start : Seconds, end : Seconds, headway : Word]
      BY <3>1, WindowsFacts
    <3> QED BY <2>1, <3>2 DEF Window, WindowsLeft
  <2>3. /\ packing' \in [trip : Nat, pattern : Nat, window : Nat, dep : Seconds]
        /\ packing'.trip = packing.trip /\ packing'.pattern = packing.pattern
        /\ packing'.window = packing.window /\ packing'.dep = Window.start
    BY <1>4, <2>1, <2>2
  <2>4. Window' = Window /\ WindowsLeft'
    BY <1>3, <2>1, <2>3 DEF Window, WindowsLeft
  <2>5. Window.headway > 0 /\ Window.start >= Window.start
    BY <2>1, <2>2, SizesAssumption DEF Word, Seconds
  <2>6. PackingInv'
    BY <1>3, <1>4, <1>5, <2>1, <2>3, <2>4, <2>5 DEF PackingInv
  <2> QED BY <1>2, <1>3, <2>1, <2>6, PatternsStay
<1>7. CASE SkipWindow \/ CloseWindow
  <2>1. pc' = "windows" /\ packing' = [packing EXCEPT !.window = @ + 1]
    BY <1>7 DEF SkipWindow, CloseWindow
  <2>2. /\ packing' \in [trip : Nat, pattern : Nat, window : Nat, dep : Seconds]
        /\ packing'.trip = packing.trip /\ packing'.pattern = packing.pattern
    BY <1>4, <2>1
  <2>3. PackingInv'
    BY <1>3, <1>4, <1>5, <2>1, <2>2 DEF PackingInv
  <2> QED BY <1>2, <1>3, <2>1, <2>3, PatternsStay
<1>8. CASE WindowsDone
  <2>1. pc' = "trips" /\ packing' = NotPacking
    BY <1>8 DEF WindowsDone
  <2>2. PackingInv'
    BY <1>3, <2>1, SizesAssumption DEF PackingInv, NotPacking, Seconds
  <2> QED BY <1>2, <1>3, <2>1, <2>2, PatternsStay
<1> QED BY <1>6, <1>7, <1>8

-----------------------------------------------------------------------------
(* A table with a row replaced.                                            *)
LEMMA ReplaceRow ==
  ASSUME NEW t, IsTable(t), NEW p \in DOMAIN t, NEW x
  PROVE  /\ IsTable([t EXCEPT ![p] = x])
         /\ DOMAIN [t EXCEPT ![p] = x] = DOMAIN t
         /\ [t EXCEPT ![p] = x][p] = x
         /\ \A q \in DOMAIN t \ {p} : [t EXCEPT ![p] = x][q] = t[q]
<1> DEFINE new == [t EXCEPT ![p] = x]
<1>1. /\ Len(t) \in Nat /\ DOMAIN t = 1 .. Len(t)
      /\ t \in [1 .. Len(t) -> {t[i] : i \in DOMAIN t}]
  BY DEF IsTable
<1>2. /\ DOMAIN new = 1 .. Len(t)
      /\ new \in [1 .. Len(t) -> {new[i] : i \in DOMAIN new}]
      /\ new[p] = x
      /\ \A q \in DOMAIN t \ {p} : new[q] = t[q]
  BY <1>1
<1> HIDE DEF new
<1>3. new \in Seq({new[i] : i \in DOMAIN new})
  BY <1>1, <1>2, IsSequence
<1>4. IsTable(new)
  BY <1>3 DEF IsTable
<1> QED BY <1>1, <1>2, <1>4 DEF new

(* All patterns of a table.                                                *)
ArePatterns(f, stations, t) ==
  IsTable(t) /\ \A p \in DOMAIN t : IsPattern(f, stations, t[p])

(* A run added to one of them.                                             *)
WithRun(t, p, run) == [t EXCEPT ![p].trips = Append(@, run)]

LEMMA AddRunTo ==
  ASSUME NEW f, NEW stations, NEW t, ArePatterns(f, stations, t),
         NEW p \in DOMAIN t, NEW run, IsRun(f, Len(t[p].stops), run)
  PROVE  /\ ArePatterns(f, stations, WithRun(t, p, run))
         /\ DOMAIN WithRun(t, p, run) = DOMAIN t
         /\ WithRun(t, p, run)[p].stops = t[p].stops
<1> DEFINE x   == [t[p] EXCEPT !.trips = Append(@, run)]
           new == [t EXCEPT ![p] = x]
<1>1. IsPattern(f, stations, x) /\ x.stops = t[p].stops
  <2>1. IsPattern(f, stations, t[p])
    BY DEF ArePatterns
  <2>2. IsPattern(f, stations, x)
    BY <2>1, OneMoreRun
  <2> QED BY <2>1, <2>2 DEF IsPattern
<1>2. WithRun(t, p, run) = new
  BY DEF WithRun
<1> HIDE DEF x
<1>3. /\ IsTable(new) /\ DOMAIN new = DOMAIN t /\ new[p] = x
      /\ \A q \in DOMAIN t \ {p} : new[q] = t[q]
  BY ReplaceRow DEF ArePatterns
<1> HIDE DEF new
<1>4. ArePatterns(f, stations, new)
  BY <1>1, <1>3 DEF ArePatterns
<1> QED BY <1>1, <1>2, <1>3, <1>4

(* A window's next run: it begins in the window, so it fits the day, and so
   does the departure after it.                                            *)
LEMMA RunFits ==
  ASSUME BuildInv, AddRun
  PROVE  /\ packing.dep - BaseStart \in Int
         /\ FeedKeepsTime(feed) =>
              /\ Fits(feed, packing.trip, packing.dep - BaseStart)
              /\ packing'.dep >= Window.start
<1> DEFINE trip  == packing.trip
           times == TimesOf(feed, trip)
           n     == Len(times)
<1>0. feed \in Feeds /\ PackingInv
  BY DEF BuildInv, StationInv
<1>1. /\ pc = "runs" /\ packing.dep < Window.end
      /\ packing' = [packing EXCEPT !.dep = Wrapped(@ + Wrapped(Window.headway))]
  BY DEF AddRun
<1>2. /\ packing \in [trip : Nat, pattern : Nat, window : Nat, dep : Seconds]
      /\ trip \in TripsToPack(feed) /\ WindowsLeft /\ Window.headway > 0
      /\ FeedKeepsTime(feed) => packing.dep >= Window.start
  BY <1>0, <1>1 DEF PackingInv
<1>3. PICK w \in DOMAIN feed.frequencies :
        /\ Window = feed.frequencies[w]
        /\ feed.frequencies[w].trip = trip
        /\ feed.frequencies[w] \in [trip : Nat, start : Seconds, end : Seconds,
                                    headway : Word]
  BY <1>0, <1>2, WindowsFacts DEF Window, WindowsLeft
<1>4. /\ n \in Nat /\ DOMAIN times = 1 .. n
      /\ \A i \in 1 .. n : times[i].arrival \in Seconds /\ times[i].departure \in Seconds
  BY <1>0, TimesFacts
<1> DEFINE start == Window.start
           end   == Window.end
           head  == Window.headway
           dep   == packing.dep
           base  == BaseStart
<1>5. /\ HalfWord \in Nat \ {0} /\ start \in Int /\ end \in Int /\ head \in Int /\ dep \in Int
      /\ start \in Seconds /\ end \in Seconds /\ dep \in Seconds
  <2>1. /\ start \in Seconds /\ end \in Seconds /\ head \in Word /\ dep \in Seconds
    BY <1>2, <1>3
  <2>2. \A x \in Seconds : x \in Int
    BY SizesAssumption DEF Seconds
  <2>3. \A x \in Word : x \in Int
    BY SizesAssumption DEF Word
  <2> QED BY <2>1, <2>2, <2>3, SizesAssumption
<1>6. packing'.dep = Wrapped(dep + Wrapped(head))
  BY <1>1, <1>2
<1> HIDE DEF start, end, head, dep
<1>7. 1 \in 1 .. n
  <2>1. packing.pattern \in DOMAIN patterns /\ n = Len(patterns[packing.pattern].stops)
    BY <1>0, <1>1 DEF PackingInv
  <2>2. Len(patterns[packing.pattern].stops) >= 2
    BY <2>1 DEF BuildInv, IsPattern
  <2> HIDE DEF n
  <2> QED BY <1>4, <2>1, <2>2
<1> DEFINE arrival(i)   == times[i].arrival
           departure(i) == times[i].departure
<1>8. \A i \in 1 .. n : arrival(i) \in Int /\ departure(i) \in Int
  BY <1>4, SizesAssumption DEF Seconds
<1>9. base = departure(1) /\ base \in Int
  BY <1>7, <1>8 DEF BaseStart
<1>10. ASSUME FeedKeepsTime(feed)
       PROVE  /\ Fits(feed, trip, dep - base)
              /\ packing'.dep >= start
  <2>1. /\ \A i \in 1 .. n : 0 <= arrival(i) /\ arrival(i) <= departure(i)
        /\ \A i \in 1 .. n : /\ start + (arrival(i) - departure(1)) >= 0
                              /\ end + (departure(i) - departure(1)) <= HalfWord
        /\ end + head <= HalfWord
    <3>1. KeepsTime(feed, trip)
      BY <1>2, <1>10 DEF FeedKeepsTime
    <3>2. feed.frequencies[w].headway > 0
      BY <1>2, <1>3
    <3> QED BY <1>3, <1>4, <3>1, <3>2 DEF KeepsTime, start, end, head
  <2>2. dep >= start /\ dep < end /\ head > 0
    BY <1>1, <1>2, <1>10 DEF start, end, head, dep
  <2> HIDE DEF arrival, departure, base, n
  <2>3. \A i \in 1 .. n : /\ arrival(i) + (dep - base) >= 0
                          /\ departure(i) + (dep - base) < HalfWord
    BY <1>5, <1>8, <1>9, <2>1, <2>2
  <2>4. Fits(feed, trip, dep - base)
    BY <1>4, <2>3 DEF Fits, arrival, departure, n
  <2>5. start >= 0 /\ end >= 1 /\ head < HalfWord
    BY <1>5, <1>7, <1>8, <2>1, <2>2
  <2>6. head \in Seconds /\ dep + head \in Seconds
    BY <1>5, <2>1, <2>2, <2>5 DEF Seconds
  <2>7. packing'.dep = dep + head
    BY <1>5, <1>6, <2>6, WrappedFacts
  <2> QED BY <1>5, <2>2, <2>4, <2>7
<1> QED BY <1>5, <1>9, <1>10 DEF start, dep

LEMMA BuildAddRun == BuildInv /\ AddRun => BuildInv'
<1> SUFFICES ASSUME BuildInv, AddRun
             PROVE  BuildInv'
  OBVIOUS
<1> DEFINE p   == packing.pattern
           run == Run(packing.trip, <<packing.trip, packing.dep>>,
                      packing.dep - BaseStart)
<1>1. feed \in Feeds /\ PackingInv /\ ArePatterns(feed, DOMAIN stopIds, patterns)
  BY DEF BuildInv, StationInv, ArePatterns
<1>2. /\ UNCHANGED <<feed, row, stopIds, lookup, canonical, pending, pc>>
      /\ pc = "runs"
      /\ patterns' = [patterns EXCEPT ![p].trips = Append(@, run)]
      /\ packing' = [packing EXCEPT !.dep = Wrapped(@ + Wrapped(Window.headway))]
  BY DEF AddRun
<1>3. /\ packing \in [trip : Nat, pattern : Nat, window : Nat, dep : Seconds]
      /\ p \in DOMAIN patterns
      /\ packing.trip \in TripsToPack(feed)
      /\ Len(TimesOf(feed, packing.trip)) = Len(patterns[p].stops)
      /\ WindowsLeft /\ Window.headway > 0
  BY <1>1, <1>2 DEF PackingInv
<1>4. /\ packing.dep - BaseStart \in Int
      /\ FeedKeepsTime(feed) => /\ Fits(feed, packing.trip, packing.dep - BaseStart)
                                /\ packing'.dep >= Window.start
  BY RunFits
<1>5. IsRun(feed, Len(patterns[p].stops), run)
  <2> DEFINE id     == <<packing.trip, packing.dep>>
             offset == packing.dep - BaseStart
  <2>1. id[1] = packing.trip
    OBVIOUS
  <2> HIDE DEF id, offset
  <2>2. IsRun(feed, Len(TimesOf(feed, packing.trip)), Run(packing.trip, id, offset))
    BY <1>1, <1>3, <1>4, <2>1, RunIsRun DEF offset
  <2> QED BY <1>3, <2>2 DEF id, offset
<1> HIDE DEF run
<1>6. /\ ArePatterns(feed, DOMAIN stopIds, patterns')
      /\ DOMAIN patterns' = DOMAIN patterns
      /\ patterns'[p].stops = patterns[p].stops
  <2> HIDE DEF p
  <2>1. patterns' = WithRun(patterns, p, run)
    BY <1>2 DEF WithRun
  <2> QED BY <1>1, <1>3, <1>5, <2>1, AddRunTo
<1>7. /\ packing' \in [trip : Nat, pattern : Nat, window : Nat, dep : Seconds]
      /\ packing'.trip = packing.trip /\ packing'.pattern = p
      /\ packing'.window = packing.window
  <2>1. Wrapped(packing.dep + Wrapped(Window.headway)) \in Seconds
    <3>1. Window.headway \in Int
      <4>1. Window \in [trip : Nat, start : Seconds, end : Seconds, headway : Word]
        BY <1>1, <1>3, WindowsFacts DEF Window, WindowsLeft
      <4> QED BY <4>1, SizesAssumption DEF Word
    <3>2. Wrapped(Window.headway) \in Int /\ packing.dep \in Int
      <4>1. \A x \in Seconds : x \in Int
        BY SizesAssumption DEF Seconds
      <4> QED BY <1>3, <3>1, <4>1, WrappedFacts
    <3> QED BY <3>2, WrappedFacts
  <2> QED BY <1>2, <1>3, <2>1
<1>8. PackingInv'
  <2>1. Window' = Window /\ WindowsLeft'
    BY <1>2, <1>3, <1>7 DEF Window, WindowsLeft
  <2>2. TripsToPack(feed)' = TripsToPack(feed)
    BY <1>2 DEF TripsToPack
  <2> QED BY <1>2, <1>3, <1>4, <1>6, <1>7, <2>1, <2>2 DEF PackingInv
<1>9. [Next]_vars
  BY DEF Next
<1> HIDE DEF p
<1> QED BY <1>2, <1>6, <1>8, <1>9, StationsStay DEF ArePatterns

(* The end.                                                                *)
LEMMA BuildSort == BuildInv /\ SortTrips => BuildInv'
<1> SUFFICES ASSUME BuildInv, SortTrips
             PROVE  BuildInv'
  OBVIOUS
<1> DEFINE new(p) == [patterns[p] EXCEPT !.trips = Sorted(@)]
<1>1. /\ UNCHANGED <<feed, row, stopIds, lookup, canonical, pending, packing>>
      /\ pc = "trips" /\ pc' = "done"
      /\ patterns' = [p \in DOMAIN patterns |-> new(p)]
  BY DEF SortTrips
<1>2. /\ IsTable(patterns)
      /\ \A p \in DOMAIN patterns : IsPattern(feed, DOMAIN stopIds, patterns[p])
      /\ PackingInv
  BY DEF BuildInv
<1>3. \A p \in DOMAIN patterns : /\ IsPattern(feed, DOMAIN stopIds, new(p))
                                 /\ SortsTrips(patterns[p].trips, new(p).trips)
  BY <1>2, SortedPattern
<1> HIDE DEF new
<1>4. DOMAIN patterns' = DOMAIN patterns /\ \A p \in DOMAIN patterns' : patterns'[p] = new(p)
  BY <1>1
<1>5. IsTable(patterns')
  <2>1. Len(patterns) \in Nat /\ DOMAIN patterns = 1 .. Len(patterns)
    BY <1>2, TableFacts
  <2>2. patterns' \in [1 .. Len(patterns) -> {patterns'[p] : p \in DOMAIN patterns'}]
    BY <1>1, <2>1
  <2>3. patterns' \in Seq({patterns'[p] : p \in DOMAIN patterns'})
    BY <2>1, <2>2, IsSequence
  <2> QED BY <2>3 DEF IsTable
<1>6. \A p \in DOMAIN patterns' : IsPattern(feed, DOMAIN stopIds, patterns'[p])
  BY <1>3, <1>4
<1>7. \A p \in DOMAIN patterns' : \A i, j \in DOMAIN patterns'[p].trips :
        i < j => patterns'[p].trips[i].departures[1] <= patterns'[p].trips[j].departures[1]
  BY <1>3, <1>4 DEF SortsTrips
<1>8. PackingInv'
  BY <1>1, <1>2, <1>4 DEF PackingInv
<1>9. [Next]_vars
  BY DEF Next
<1> QED BY <1>1, <1>5, <1>6, <1>7, <1>8, <1>9, StationsStay

(* A new pattern of a trip's stops has no trips.                           *)
LEMMA NewPattern ==
  ASSUME NEW stations, NEW stops \in Seq(stations), Len(stops) >= 2,
         NEW route, NEW mode, NEW f
  PROVE  IsPattern(f, stations, [route |-> route, stops |-> stops, mode |-> mode,
                                 trips |-> <<>>])
<1>1. IsTable(<<>>)
  BY DEF IsTable
<1> QED BY <1>1 DEF IsPattern

(* Patterns with a new one.                                                *)
LEMMA AddPattern ==
  ASSUME NEW f, NEW stations, NEW t, ArePatterns(f, stations, t),
         NEW pattern, IsPattern(f, stations, pattern)
  PROVE  /\ ArePatterns(f, stations, Append(t, pattern))
         /\ DOMAIN t \subseteq DOMAIN Append(t, pattern)
         /\ Len(Append(t, pattern)) \in DOMAIN Append(t, pattern)
         /\ Append(t, pattern)[Len(Append(t, pattern))] = pattern
<1> DEFINE new == Append(t, pattern)
<1>1. /\ IsTable(new) /\ Len(new) = Len(t) + 1
      /\ DOMAIN new = DOMAIN t \cup {Len(t) + 1}
      /\ \A i \in DOMAIN t : new[i] = t[i]
      /\ new[Len(t) + 1] = pattern
  BY AppendRow DEF ArePatterns
<1> HIDE DEF new
<1>2. ArePatterns(f, stations, new)
  BY <1>1 DEF ArePatterns
<1> QED BY <1>1, <1>2 DEF new

(* The stations a trip calls at.                                           *)
StopsOf(trip) ==
  [i \in DOMAIN TimesOf(feed, trip) |-> StopIdx(TimesOf(feed, trip), i)]

(* The pattern of a trip, among those so far or a new one, without trips.   *)
ChosenPattern(trip, t, p) ==
  /\ t = patterns \/ \E new : new.trips = <<>> /\ t = Append(patterns, new)
  /\ ArePatterns(feed, DOMAIN stopIds, t)
  /\ p \in DOMAIN t
  /\ t[p].route = TripOf(feed, trip).route
  /\ t[p].stops = StopsOf(trip)

(* What becomes of a trip: a run, or the first of its windows is next.      *)
PackedIn(trip, t, p) ==
  IF WindowsOf(feed, trip) = <<>>
  THEN /\ patterns' = WithRun(t, p, Run(trip, <<trip>>, 0))
       /\ UNCHANGED <<pc, packing>>
  ELSE /\ patterns' = t
       /\ pc' = "windows"
       /\ packing' = [trip |-> trip, pattern |-> p, window |-> 1, dep |-> 0]

(* The pattern of a trip is there already or new.                          *)
LEMMA PackChoice ==
  ASSUME BuildInv, PackTrip
  PROVE  \E trip \in pending : /\ Len(TimesOf(feed, trip)) >= 2
                               /\ pending' = pending \ {trip}
                               /\ StopsOf(trip) \in Seq(DOMAIN stopIds)
                               /\ Len(StopsOf(trip)) = Len(TimesOf(feed, trip))
                               /\ \E t, p : ChosenPattern(trip, t, p) /\ PackedIn(trip, t, p)
<1> DEFINE times(trip)  == TimesOf(feed, trip)
           route(trip)  == TripOf(feed, trip).route
           like(trip)   == PatternsLike(route(trip), StopsOf(trip))
           fresh(trip)  == [route |-> route(trip), stops |-> StopsOf(trip),
                            mode |-> ModeOf(feed, route(trip)), trips |-> <<>>]
           packed(trip) == IF like(trip) # {} THEN patterns
                           ELSE Append(patterns, fresh(trip))
           p(trip)      == IF like(trip) # {} THEN Min(like(trip)) ELSE Len(packed(trip))
<1>1. /\ feed \in Feeds /\ ArePatterns(feed, DOMAIN stopIds, patterns)
      /\ lookup \in [DOMAIN lookup -> DOMAIN stopIds]
  BY DEF BuildInv, StationInv, ArePatterns
<1>2. PICK trip \in pending :
        /\ Len(times(trip)) >= 2
        /\ Registered(times(trip))
        /\ pending' = pending \ {trip}
        /\ PackedIn(trip, packed(trip), p(trip))
  BY Zenon DEF PackTrip, WithRun, PackedIn, StopsOf
<1> DEFINE n == Len(times(trip))
<1>3. n \in Nat /\ n >= 2 /\ DOMAIN times(trip) = 1 .. n
  BY <1>1, <1>2, TimesFacts
<1>4. StopsOf(trip) \in Seq(DOMAIN stopIds) /\ Len(StopsOf(trip)) = n
  <2>1. StopsOf(trip) \in [1 .. n -> DOMAIN stopIds]
    BY <1>1, <1>2, <1>3 DEF Registered, StopIdx, StopsOf
  <2> QED BY <1>3, <2>1, IsSequence
<1>5. ChosenPattern(trip, packed(trip), p(trip))
  <2>1. CASE like(trip) # {}
    <3>1. /\ like(trip) \subseteq DOMAIN patterns
          /\ \A q \in like(trip) : /\ patterns[q].stops = StopsOf(trip)
                                   /\ patterns[q].route = route(trip)
      BY DEF PatternsLike
    <3>2. IsFiniteSet(like(trip)) /\ like(trip) \subseteq Int
      <4>1. IsFiniteSet(DOMAIN patterns) /\ DOMAIN patterns \subseteq Int
        BY <1>1, TableFacts DEF ArePatterns
      <4> HIDE DEF like
      <4> QED BY <3>1, <4>1, FS_Subset
    <3>3. Min(like(trip)) \in like(trip)
      <4> HIDE DEF like
      <4> QED BY <2>1, <3>2, LeastAndGreatest
    <3>4. packed(trip) = patterns /\ p(trip) = Min(like(trip))
      BY <2>1
    <3>5. route(trip) = TripOf(feed, trip).route
      OBVIOUS
    <3> HIDE DEF packed, p, like, route
    <3> QED BY <1>1, <3>1, <3>3, <3>4, <3>5 DEF ChosenPattern
  <2>2. CASE like(trip) = {}
    <3>1. IsPattern(feed, DOMAIN stopIds, fresh(trip))
      <4> HIDE DEF route
      <4> QED BY <1>3, <1>4, NewPattern
    <3>2. /\ fresh(trip).stops = StopsOf(trip) /\ fresh(trip).trips = <<>>
          /\ fresh(trip).route = TripOf(feed, trip).route
      OBVIOUS
    <3>3. packed(trip) = Append(patterns, fresh(trip)) /\ p(trip) = Len(packed(trip))
      BY <2>2
    <3> HIDE DEF packed, p, like, fresh
    <3>4. /\ ArePatterns(feed, DOMAIN stopIds, packed(trip))
          /\ p(trip) \in DOMAIN packed(trip)
          /\ packed(trip)[p(trip)] = fresh(trip)
      BY <1>1, <3>1, <3>3, AddPattern
    <3> QED BY <3>2, <3>3, <3>4 DEF ChosenPattern
  <2> QED BY <2>1, <2>2
<1> HIDE DEF packed, p
<1> QED BY <1>2, <1>4, <1>5

(* A trip is packed.                                                       *)
LEMMA BuildPack == BuildInv /\ PackTrip => BuildInv'
<1> SUFFICES ASSUME BuildInv, PackTrip
             PROVE  BuildInv'
  OBVIOUS
<1>1. /\ feed \in Feeds /\ PackingInv /\ ArePatterns(feed, DOMAIN stopIds, patterns)
      /\ pending \subseteq TripsToPack(feed)
  BY DEF BuildInv, StationInv, ArePatterns
<1>2. /\ UNCHANGED <<feed, row, stopIds, lookup, canonical>>
      /\ pc = "trips"
  BY DEF PackTrip
<1>3. PICK trip \in pending : /\ pending' = pending \ {trip}
                              /\ Len(StopsOf(trip)) = Len(TimesOf(feed, trip))
                              /\ \E t, p : ChosenPattern(trip, t, p) /\ PackedIn(trip, t, p)
  BY PackChoice
<1>4. PICK t, p : ChosenPattern(trip, t, p) /\ PackedIn(trip, t, p)
  BY <1>3
<1> DEFINE times == TimesOf(feed, trip)
           n     == Len(times)
<1>5. trip \in TripsToPack(feed) /\ trip \in Nat
  BY <1>1, <1>3, TripFacts
<1>6. /\ ArePatterns(feed, DOMAIN stopIds, t) /\ p \in DOMAIN t
      /\ Len(t[p].stops) = n
  BY <1>3, <1>4 DEF ChosenPattern
<1>7. DOMAIN patterns \subseteq DOMAIN t
  <2>1. CASE t = patterns
    BY <2>1
  <2>2. CASE t # patterns
    <3>1. PICK new : t = Append(patterns, new)
      BY <1>4, <2>2 DEF ChosenPattern
    <3> QED BY <1>1, <3>1, AppendRow DEF ArePatterns
  <2> QED BY <2>1, <2>2
<1>8. IsRun(feed, n, Run(trip, <<trip>>, 0))
  <2> DEFINE id == <<trip>>
  <2>1. id[1] = trip
    OBVIOUS
  <2>2. FeedKeepsTime(feed) => Fits(feed, trip, 0)
    <3>1. \A i \in DOMAIN times : times[i].arrival \in Seconds /\ times[i].departure \in Seconds
      BY <1>1, TimesFacts
    <3>2. FeedKeepsTime(feed) => \A i \in DOMAIN times : 0 <= times[i].arrival
      BY <1>5 DEF FeedKeepsTime, KeepsTime
    <3>3. \A x \in Seconds : x \in Int /\ x + 0 = x /\ x < HalfWord
      BY SizesAssumption DEF Seconds
    <3> QED BY <3>1, <3>2, <3>3 DEF Fits
  <2> HIDE DEF id
  <2> QED BY <1>1, <1>5, <2>1, <2>2, RunIsRun DEF id
<1> HIDE DEF times, n
<1>9. TripsToPack(feed)' = TripsToPack(feed) /\ pending' \subseteq pending
  BY <1>2, <1>3 DEF TripsToPack
<1>10. [Next]_vars
  BY DEF Next
<1>11. CASE WindowsOf(feed, trip) = <<>>
  <2>1. /\ patterns' = WithRun(t, p, Run(trip, <<trip>>, 0))
        /\ pc' = pc /\ packing' = packing
    BY <1>4, <1>11 DEF PackedIn
  <2>2. ArePatterns(feed, DOMAIN stopIds, patterns') /\ DOMAIN patterns' = DOMAIN t
    BY <1>6, <1>8, <2>1, AddRunTo
  <2>3. PackingInv'
    BY <1>1, <1>2, <1>7, <2>1, <2>2 DEF PackingInv
  <2> QED BY <1>2, <1>9, <1>10, <2>1, <2>2, <2>3, StationsStay DEF ArePatterns
<1>12. CASE WindowsOf(feed, trip) # <<>>
  <2>1. /\ patterns' = t /\ pc' = "windows"
        /\ packing' = [trip |-> trip, pattern |-> p, window |-> 1, dep |-> 0]
    BY <1>4, <1>12 DEF PackedIn
  <2>2. p \in Nat
    BY <1>6, TableFacts DEF ArePatterns
  <2>3. PackingInv'
    <3>1. 0 \in Seconds
      BY SizesAssumption DEF Seconds
    <3>2. packing' \in [trip : Nat, pattern : Nat, window : Nat, dep : Seconds]
      BY <1>5, <2>1, <2>2, <3>1
    <3>3. Len(TimesOf(feed, trip)) = Len(patterns'[p].stops)
      BY <1>6, <2>1 DEF n, times
    <3> QED BY <1>2, <1>5, <1>6, <1>9, <2>1, <3>2, <3>3 DEF PackingInv
  <2> QED BY <1>2, <1>6, <1>9, <1>10, <2>1, <2>3, StationsStay DEF ArePatterns
<1> QED BY <1>11, <1>12

LEMMA BuildStep == BuildInv /\ [Next]_vars => BuildInv'
<1> SUFFICES ASSUME BuildInv, [Next]_vars
             PROVE  BuildInv'
  OBVIOUS
<1>1. CASE UNCHANGED vars
  <2>1. /\ UNCHANGED <<feed, pc, row, stopIds, lookup, canonical, pending, patterns, packing>>
    BY <1>1 DEF vars
  <2>2. StationInv'
    BY StationStep DEF BuildInv
  <2>3. TripsToPack(feed)' = TripsToPack(feed)
    BY <2>1 DEF TripsToPack
  <2>4. PackingInv'
    <3>1. WindowsLeft' = WindowsLeft /\ Window' = Window /\ PackingInv
      BY <2>1 DEF WindowsLeft, Window, BuildInv
    <3> QED BY <2>1, <2>3, <3>1 DEF PackingInv
  <2>5. \A p \in DOMAIN patterns' : IsPattern(feed', DOMAIN stopIds', patterns'[p])
    BY <2>1 DEF BuildInv
  <2> QED BY <2>1, <2>2, <2>3, <2>4, <2>5 DEF BuildInv
<1>2. CASE RegisterStop
  BY <1>2, BuildRegister
<1>3. CASE StopsDone \/ SkipTrip \/ Panic
  BY <1>3, BuildSkip
<1>4. CASE PackTrip
  BY <1>4, BuildPack
<1>5. CASE OpenWindow \/ SkipWindow \/ CloseWindow \/ WindowsDone
  BY <1>5, BuildWindow
<1>6. CASE AddRun
  BY <1>6, BuildAddRun
<1>7. CASE SortTrips
  BY <1>7, BuildSort
<1> QED BY <1>1, <1>2, <1>3, <1>4, <1>5, <1>6, <1>7 DEF Next

(* Construction looks up no row, window or pattern that is not there, ids lead to
   stations there are, and times stay within their width.                  *)
THEOREM BuildTypeCorrect == Spec => []TypeOK
<1>1. BuildInv => TypeOK
  <2> SUFFICES ASSUME BuildInv PROVE TypeOK
    OBVIOUS
  <2>1. /\ feed \in Feeds /\ row \in Nat \ {0} /\ row <= Len(feed.stops) + 1
        /\ Len(feed.stops) \in Nat
    BY RowsAreNumbers DEF BuildInv, StationInv
  <2>2. row \in 1 .. Len(feed.stops) + 1
    BY <2>1
  <2>3. Len(stopIds) <= row
    <3>1. Len(stopIds) \in Nat /\ Len(stopIds) < row
      BY DEF BuildInv, StationInv
    <3> QED BY <2>1, <3>1
  <2> QED BY <2>1, <2>2, <2>3 DEF BuildInv, PackingInv, TypeOK
<1> QED BY <1>1, BuildInit, BuildStep, PTL DEF Spec

-----------------------------------------------------------------------------
(* What holds of sums wherever they are met.                               *)
Facts == INSTANCE JourneyFacts
  WITH Stops <- {}, Buffer <- 1, Timetables <- {}, Queries <- {}

(* The places of some stops have a sum.                                    *)
PlaceSum(t, S) == MapThenSumSet(LAMBDA r : t[r].place, S)

LEMMA PlacesAddUp ==
  ASSUME NEW t, IsTable(t), \A r \in DOMAIN t : t[r].place \in Int,
         NEW S, S \subseteq DOMAIN t
  PROVE  PlaceSum(t, S) \in Int
<1> DEFINE n == Len(t)
           f == [r \in 1 .. n |-> t[r].place]
           Body(g) == [s \in SUBSET S |->
             IF s = {} THEN 0
             ELSE t[CHOOSE x \in s : TRUE].place + g[s \ {CHOOSE x \in s : TRUE}]]
           iter == CHOOSE g : g = Body(g)
<1>1. PlaceSum(t, S) = iter[S]
  BY DEF PlaceSum, MapThenSumSet, MapThenFoldSet
<1>2. /\ n \in Nat /\ DOMAIN t = 1 .. n
      /\ S \subseteq 1 .. n /\ IsFiniteSet(S)
  BY TableFacts, FS_Subset
<1>3. f \in [1 .. n -> Int] /\ \A r \in 1 .. n : f[r] = t[r].place
  BY <1>2
<1> HIDE DEF f, n
<1>4. PICK sum : Facts!AddsUp(f, n, sum)
  BY <1>2, <1>3, Facts!SumExists
<1>5. /\ sum \in [SUBSET (1 .. n) -> Int] /\ sum[{}] = 0
      /\ \A s \in SUBSET (1 .. n) : \A x \in s : sum[s] = f[x] + sum[s \ {x}]
  BY <1>4 DEF Facts!AddsUp
<1> DEFINE part == [s \in SUBSET S |-> sum[s]]
<1>6. part = Body(part)
  <2>1. \A s \in SUBSET S : s # {} => /\ (CHOOSE x \in s : TRUE) \in s
                                      /\ (CHOOSE x \in s : TRUE) \in 1 .. n
                                      /\ s \in SUBSET (1 .. n)
                                      /\ s \ {CHOOSE x \in s : TRUE} \in SUBSET S
    BY <1>2
  <2>2. \A s \in SUBSET S : s # {} =>
          part[s] = t[CHOOSE x \in s : TRUE].place + part[s \ {CHOOSE x \in s : TRUE}]
    <3> SUFFICES ASSUME NEW s \in SUBSET S, s # {}
                 PROVE  part[s] = t[CHOOSE x \in s : TRUE].place
                                    + part[s \ {CHOOSE x \in s : TRUE}]
      OBVIOUS
    <3> DEFINE x == CHOOSE y \in s : TRUE
    <3>1. x \in s /\ x \in 1 .. n /\ s \in SUBSET (1 .. n) /\ s \ {x} \in SUBSET S
      BY <2>1
    <3> HIDE DEF x
    <3>2. sum[s] = t[x].place + sum[s \ {x}]
      BY <1>3, <1>5, <3>1
    <3>3. part[s] = sum[s] /\ part[s \ {x}] = sum[s \ {x}]
      BY <3>1
    <3> QED BY <3>2, <3>3 DEF x
  <2>3. part[{}] = 0
    BY <1>5
  <2> QED BY <2>2, <2>3
<1>7. iter = Body(iter)
  <2> HIDE DEF Body, part
  <2> QED BY <1>6
<1> HIDE DEF iter
<1>8. \A s \in SUBSET S : iter[s] =
        IF s = {} THEN 0
        ELSE t[CHOOSE x \in s : TRUE].place + iter[s \ {CHOOSE x \in s : TRUE}]
  BY <1>7
<1> HIDE DEF Body
<1> DEFINE sizes == {Cardinality(s) : s \in {r \in SUBSET S : iter[r] \notin Int}}
<1>9. \A s \in SUBSET S : IsFiniteSet(s) /\ Cardinality(s) \in Nat
                          /\ Cardinality(s) \in 0 .. Cardinality(S)
  BY <1>2, FS_Subset, FS_CardinalityType
<1>10. sizes = {}
  <2> SUFFICES ASSUME sizes # {} PROVE FALSE
    OBVIOUS
  <2>1. IsFiniteSet(sizes) /\ sizes \subseteq Int
    <3> DEFINE upTo == 0 .. Cardinality(S)
    <3>1. Cardinality(S) \in Int
      BY <1>2, FS_CardinalityType
    <3>2. IsFiniteSet(upTo) /\ upTo \subseteq Int
      BY <3>1, FS_Interval
    <3>3. sizes \subseteq upTo
      BY <1>9
    <3> HIDE DEF sizes, upTo
    <3> QED BY <3>2, <3>3, FS_Subset
  <2>2. Min(sizes) \in sizes /\ \A y \in sizes : Min(sizes) <= y
    <3> HIDE DEF sizes
    <3> QED BY <2>1, LeastAndGreatest
  <2>3. PICK s \in SUBSET S : iter[s] \notin Int /\ Cardinality(s) = Min(sizes)
    BY <2>2
  <2>4. s # {}
    BY <1>8, <2>3
  <2> DEFINE x == CHOOSE y \in s : TRUE
  <2>5. x \in s /\ x \in 1 .. n
    BY <1>2, <2>4
  <2>6. iter[s] = t[x].place + iter[s \ {x}]
    BY <1>8, <2>4
  <2> HIDE DEF x
  <2>7. s \ {x} \in SUBSET S /\ iter[s \ {x}] \notin Int
    BY <1>2, <2>3, <2>5, <2>6
  <2>8. Cardinality(s \ {x}) \in sizes
    BY <2>7
  <2>9. Cardinality(s \ {x}) = Cardinality(s) - 1 /\ Cardinality(s) \in Nat
    BY <1>9, <2>5, FS_RemoveElement
  <2> HIDE DEF sizes
  <2> QED BY <2>2, <2>3, <2>8, <2>9
<1> QED BY <1>1, <1>10

(* A station has a place: it has a stops row.                              *)
LEMMA PlaceIsNumber ==
  ASSUME StationInv, NEW s \in DOMAIN stopIds
  PROVE  Place(s) \in Int
<1> DEFINE stops == {r \in DOMAIN feed.stops : StationOf(feed.stops[r]) = stopIds[s]}
           sum   == PlaceSum(feed.stops, stops)
<1>1. /\ IsTable(feed.stops)
      /\ \A r \in DOMAIN feed.stops : feed.stops[r].place \in Int
  BY FeedsAssumption DEF StationInv, IsFeed
<1>2. sum \in Int
  BY <1>1, PlacesAddUp
<1>3. stops # {}
  <2>1. stopIds[s] \in {Station(r) : r \in DOMAIN feed.stops}
    BY DEF StationInv
  <2> QED BY <2>1 DEF Station
<1>4. Cardinality(stops) \in Nat \ {0}
  <2>1. IsFiniteSet(stops)
    BY <1>1, TableFacts, FS_Subset
  <2> HIDE DEF stops
  <2> QED BY <1>3, <2>1, FS_CardinalityType, FS_EmptySet
<1>5. Place(s) = sum \div Cardinality(stops)
  BY DEF Place, PlaceSum
<1> HIDE DEF sum, stops
<1> QED BY <1>2, <1>4, <1>5

LEMMA WalksBothWays ==
  ASSUME StationInv
  PROVE  Search!WalksAreTransfers(Walks)
<1> DEFINE S == DOMAIN stopIds
           d(e) == Distance(e[1], e[2])
<1>1. \A s, t \in S : /\ Distance(s, t) \in Nat
                      /\ Distance(t, s) = Distance(s, t)
  <2> TAKE s, t \in S
  <2>1. Place(s) \in Int /\ Place(t) \in Int
    BY PlaceIsNumber
  <2> QED BY <2>1 DEF Distance
<1>2. DOMAIN Walks = {e \in S \X S : e[1] # e[2] /\ d(e) <= MaxWalk}
  BY DEF Walks
<1>3. \A e \in DOMAIN Walks : Walks[e] = (d(e) + Speed - 1) \div Speed + Buffer
  BY DEF Walks
<1> HIDE DEF S
<1>4. DOMAIN Walks \subseteq S \X S
  BY <1>2
<1>5. ASSUME NEW e \in DOMAIN Walks
      PROVE  /\ Walks[e] \in Nat /\ Walks[e] >= Buffer /\ e[1] # e[2]
             /\ <<e[2], e[1]>> \in DOMAIN Walks
             /\ Walks[<<e[2], e[1]>>] = Walks[e]
  <2>1. /\ e[1] \in S /\ e[2] \in S /\ e[1] # e[2]
        /\ d(e) <= MaxWalk
    BY <1>2
  <2>2. /\ d(e) \in Nat /\ d(<<e[2], e[1]>>) = d(e)
    BY <1>1, <2>1
  <2> HIDE DEF d
  <2>3. <<e[2], e[1]>> \in DOMAIN Walks
    BY <1>2, <2>1, <2>2
  <2>4. Walks[<<e[2], e[1]>>] = Walks[e]
    BY <1>3, <2>2, <2>3
  <2> DEFINE steps == (d(e) + Speed - 1) \div Speed
  <2>5. steps \in Nat
    <3> DEFINE m == d(e) + Speed - 1
    <3>1. m \in Nat /\ Speed \in Nat \ {0}
      BY <2>2, SizesAssumption
    <3> HIDE DEF m
    <3>2. m \div Speed \in Nat
      BY <3>1
    <3> QED BY <3>2 DEF m
  <2>6. Walks[e] = steps + Buffer
    BY <1>3
  <2> HIDE DEF steps
  <2> QED BY <2>1, <2>3, <2>4, <2>5, <2>6, SizesAssumption
<1> QED BY <1>4, <1>5 DEF Search!WalksAreTransfers, S

-----------------------------------------------------------------------------
LEMMA PackedIsWellFormed ==
  ASSUME BuildInv, pc = "done", FeedKeepsTime(feed)
  PROVE  Search!WellFormedTimetable(Packed)
<1> DEFINE S == DOMAIN stopIds
           trip(p, i) == Packed.patterns[p].trips[i]
           run(p, i)  == patterns[p].trips[i]
           n(p)       == Len(patterns[p].stops)
           pattern(p) == Packed.patterns[p]
<1>1. Packed.walks = Walks
  BY DEF Packed
<1>2. /\ DOMAIN Packed.patterns = DOMAIN patterns
      /\ \A p \in DOMAIN patterns :
           /\ pattern(p) = [stops |-> patterns[p].stops,
                            rail |-> patterns[p].mode = "rail",
                            trips |-> pattern(p).trips]
           /\ DOMAIN pattern(p).trips = DOMAIN patterns[p].trips
           /\ \A i \in DOMAIN patterns[p].trips :
                trip(p, i) = [arrivals |-> run(p, i).arrivals,
                              departures |-> run(p, i).departures,
                              days |-> {d \in Dates : ServiceActive(run(p, i).service, d)},
                              accessible |-> run(p, i).accessible]
  BY DEF Packed
<1> HIDE DEF pattern
<1>3. /\ IsTable(patterns)
      /\ \A p \in DOMAIN patterns : IsPattern(feed, S, patterns[p])
      /\ \A p \in DOMAIN patterns : \A i, j \in DOMAIN patterns[p].trips :
           i < j => run(p, i).departures[1] <= run(p, j).departures[1]
  BY DEF BuildInv
<1> HIDE DEF S
<1>4. \A p \in DOMAIN patterns :
        /\ patterns[p].stops \in Seq(S) /\ n(p) \in Nat /\ n(p) >= 2
        /\ IsTable(patterns[p].trips)
        /\ \A i \in DOMAIN patterns[p].trips : IsRun(feed, n(p), run(p, i))
  BY <1>3 DEF IsPattern
<1> HIDE DEF n
<1>5. ASSUME NEW p \in DOMAIN patterns, NEW i \in DOMAIN patterns[p].trips
      PROVE  /\ trip(p, i) \in Search!PatternTrip
             /\ Len(trip(p, i).arrivals) = n(p) /\ Len(trip(p, i).departures) = n(p)
             /\ DOMAIN trip(p, i).arrivals = 1 .. n(p)
             /\ \A k \in 1 .. n(p) : trip(p, i).arrivals[k] <= trip(p, i).departures[k]
             /\ \A k, l \in 1 .. n(p) :
                  k < l => trip(p, i).departures[k] <= trip(p, i).arrivals[l]
             /\ trip(p, i).departures = run(p, i).departures
  <2> DEFINE r == run(p, i)
  <2>1. IsRun(feed, n(p), r) /\ n(p) \in Nat
    BY <1>4
  <2>2. trip(p, i) = [arrivals |-> r.arrivals, departures |-> r.departures,
                      days |-> {d \in Dates : ServiceActive(r.service, d)},
                      accessible |-> r.accessible]
    BY <1>2
  <2> HIDE DEF r, run, trip
  <2>3. /\ r.accessible \in BOOLEAN
        /\ r.arrivals \in [1 .. n(p) -> Seconds] /\ r.departures \in [1 .. n(p) -> Seconds]
        /\ \A k \in 1 .. n(p) : 0 <= r.arrivals[k] /\ r.arrivals[k] <= r.departures[k]
        /\ \A k, l \in 1 .. n(p) : k < l => r.departures[k] <= r.arrivals[l]
    BY <2>1 DEF IsRun
  <2>4. \A k \in 1 .. n(p) : r.arrivals[k] \in Nat /\ r.departures[k] \in Nat
    <3>1. \A x \in Seconds : x \in Int
      BY SizesAssumption DEF Seconds
    <3>2. \A k \in 1 .. n(p) : r.arrivals[k] \in Int /\ r.departures[k] \in Int
      BY <2>3, <3>1
    <3> QED BY <2>3, <3>2
  <2>5. r.arrivals \in [1 .. n(p) -> Nat] /\ r.departures \in [1 .. n(p) -> Nat]
    BY <2>3, <2>4
  <2>6. /\ r.arrivals \in Seq(Nat) /\ Len(r.arrivals) = n(p)
        /\ r.departures \in Seq(Nat) /\ Len(r.departures) = n(p)
        /\ DOMAIN r.arrivals = 1 .. n(p)
    BY <2>1, <2>5, IsSequence
  <2>7. {d \in Dates : ServiceActive(r.service, d)} \in SUBSET Nat
    BY DatesAssumption
  <2>8. trip(p, i) \in Search!PatternTrip
    BY <2>2, <2>3, <2>6, <2>7 DEF Search!PatternTrip
  <2> QED BY <2>2, <2>3, <2>6, <2>8 DEF r
<1>6. ASSUME NEW p \in DOMAIN patterns
      PROVE  /\ pattern(p) \in Search!Pattern
             /\ Len(pattern(p).stops) >= 2
             /\ \A i \in DOMAIN pattern(p).trips :
                  Search!TripInOrder(pattern(p), pattern(p).trips[i])
             /\ \A i, j \in DOMAIN pattern(p).trips :
                  i < j => pattern(p).trips[i].departures[1]
                             <= pattern(p).trips[j].departures[1]
  <2>1. /\ DOMAIN pattern(p).trips = DOMAIN patterns[p].trips
        /\ pattern(p).stops = patterns[p].stops
        /\ pattern(p) = [stops |-> patterns[p].stops, rail |-> patterns[p].mode = "rail",
                         trips |-> pattern(p).trips]
    BY <1>2
  <2>2. \A i \in DOMAIN pattern(p).trips : pattern(p).trips[i] = trip(p, i)
    BY DEF pattern
  <2> HIDE DEF trip, run
  <2>3. pattern(p).trips \in Seq(Search!PatternTrip)
    <3>1. /\ Len(patterns[p].trips) \in Nat
          /\ DOMAIN patterns[p].trips = 1 .. Len(patterns[p].trips)
      BY <1>4, TableFacts
    <3>2. pattern(p).trips = [i \in DOMAIN pattern(p).trips |-> pattern(p).trips[i]]
      BY DEF pattern, Packed
    <3>3. pattern(p).trips \in [1 .. Len(patterns[p].trips) -> Search!PatternTrip]
      BY <1>5, <2>1, <2>2, <3>1, <3>2
    <3> QED BY <3>1, <3>3, IsSequence
  <2>4. pattern(p) \in Search!Pattern
    <3> DEFINE rail == patterns[p].mode = "rail"
    <3>1. rail \in BOOLEAN
      OBVIOUS
    <3>2. pattern(p) = [stops |-> patterns[p].stops, rail |-> rail,
                        trips |-> pattern(p).trips]
      BY <2>1, Zenon
    <3> HIDE DEF rail
    <3> QED BY <1>4, <2>3, <3>1, <3>2 DEF Search!Pattern, S
  <2>5. \A i \in DOMAIN pattern(p).trips :
          Search!TripInOrder(pattern(p), pattern(p).trips[i])
    <3> TAKE i \in DOMAIN pattern(p).trips
    <3> DEFINE x == trip(p, i)
    <3>1. i \in DOMAIN patterns[p].trips /\ pattern(p).trips[i] = x
      BY <2>1, <2>2
    <3>2. /\ Len(x.arrivals) = n(p) /\ Len(x.departures) = n(p)
          /\ DOMAIN x.arrivals = 1 .. n(p)
          /\ \A k \in 1 .. n(p) : x.arrivals[k] <= x.departures[k]
          /\ \A k, l \in 1 .. n(p) : k < l => x.departures[k] <= x.arrivals[l]
      BY <1>5, <3>1
    <3>3. Len(pattern(p).stops) = n(p)
      BY <2>1 DEF n
    <3> HIDE DEF x
    <3>4. Search!TripInOrder(pattern(p), x)
      BY <3>2, <3>3, Zenon DEF Search!TripInOrder
    <3> QED BY <3>1, <3>4
  <2>6. \A i, j \in DOMAIN pattern(p).trips :
          i < j => pattern(p).trips[i].departures[1] <= pattern(p).trips[j].departures[1]
    BY <1>3, <1>5, <2>1, <2>2
  <2> QED BY <1>4, <2>1, <2>4, <2>5, <2>6 DEF n
<1>7. Packed.patterns \in Seq(Search!Pattern)
  <2>1. Len(patterns) \in Nat /\ DOMAIN patterns = 1 .. Len(patterns)
    BY <1>3, TableFacts
  <2>2. Packed.patterns = [p \in DOMAIN Packed.patterns |-> pattern(p)]
    BY DEF pattern, Packed
  <2>3. Packed.patterns \in [1 .. Len(patterns) -> Search!Pattern]
    BY <1>2, <1>6, <2>1, <2>2
  <2> QED BY <2>1, <2>3, IsSequence
<1>8. Search!WalksAreTransfers(Packed.walks)
  BY <1>1, WalksBothWays DEF BuildInv
<1> QED BY <1>2, <1>6, <1>7, <1>8 DEF Search!WellFormedTimetable, pattern

(* The timetable that is built of feeds that keep time is one the searches
   can rely on: what their proofs assume of a timetable.                   *)
THEOREM TimetableIsSearchReady == Spec => []SearchReady
<1>1. BuildInv => SearchReady
  BY PackedIsWellFormed DEF SearchReady
<1> QED BY <1>1, BuildInit, BuildStep, PTL DEF Spec

(* An induction over the naturals.                                         *)
LEMMA LeastNumber ==
  ASSUME NEW S \in SUBSET Nat, S # {}
  PROVE  \E n \in S : \A m \in S : n <= m
<1>1. Facts!Min(S) \in S /\ \A m \in S : Facts!Min(S) <= m
  <2>1. \A query \in {} : Facts!WellFormedQuery(query)
    OBVIOUS
  <2>2. \A t \in {} : Facts!WellFormedTimetable(t)
    OBVIOUS
  <2> QED BY <2>1, <2>2, Facts!MinOfNats
<1> QED BY <1>1

(* The multiples of 4 up to a year, those of 100 left out, of 400 not.      *)
LeapDays(n) == (n \div 4) - (n \div 100) + (n \div 400)

LEMMA NextMultiple ==
  ASSUME NEW n \in Nat
  PROVE  /\ (n + 1) \div 4 = (n \div 4) + (IF (n + 1) % 4 = 0 THEN 1 ELSE 0)
         /\ (n + 1) \div 100 = (n \div 100) + (IF (n + 1) % 100 = 0 THEN 1 ELSE 0)
         /\ (n + 1) \div 400 = (n \div 400) + (IF (n + 1) % 400 = 0 THEN 1 ELSE 0)
<1>1. (n + 1) \div 4 = (n \div 4) + (IF (n + 1) % 4 = 0 THEN 1 ELSE 0)
  OBVIOUS
<1>2. (n + 1) \div 100 = (n \div 100) + (IF (n + 1) % 100 = 0 THEN 1 ELSE 0)
  OBVIOUS
<1>3. (n + 1) \div 400 = (n \div 400) + (IF (n + 1) % 400 = 0 THEN 1 ELSE 0)
  OBVIOUS
<1> QED BY <1>1, <1>2, <1>3

LEMMA LeapDaysStep ==
  ASSUME NEW n \in Nat
  PROVE  LeapDays(n + 1) = LeapDays(n) + (IF LeapYear(n + 1) THEN 1 ELSE 0)
<1> DEFINE by4 == IF (n + 1) % 4 = 0 THEN 1 ELSE 0
           by100 == IF (n + 1) % 100 = 0 THEN 1 ELSE 0
           by400 == IF (n + 1) % 400 = 0 THEN 1 ELSE 0
<1>1. /\ (n + 1) % 100 = 0 => (n + 1) % 4 = 0
      /\ (n + 1) % 400 = 0 => (n + 1) % 100 = 0
  OBVIOUS
<1>2. by4 - by100 + by400 = (IF LeapYear(n + 1) THEN 1 ELSE 0)
  BY <1>1 DEF LeapYear
<1>3. LeapDays(n + 1) = (n \div 4) + by4 - ((n \div 100) + by100) + ((n \div 400) + by400)
  BY NextMultiple DEF LeapDays
<1> QED BY <1>2, <1>3 DEF LeapDays

(* The leap years from 1900 on.                                            *)
LEMMA LeapYearsCounted ==
  ASSUME NEW y \in Nat
  PROVE  y >= 1900 => /\ IsFiniteSet(LeapYearsBefore(y))
                      /\ Cardinality(LeapYearsBefore(y)) = LeapDays(y - 1) - 460
<1> DEFINE Counted(z) == /\ IsFiniteSet(LeapYearsBefore(z))
                         /\ Cardinality(LeapYearsBefore(z)) = LeapDays(z - 1) - 460
           Bad == {z \in Nat : z >= 1900 /\ ~Counted(z)}
<1>1. Counted(1900)
  <2>1. LeapYearsBefore(1900) = {}
    BY DEF LeapYearsBefore
  <2>2. LeapDays(1900 - 1) = 460
    BY DEF LeapDays
  <2> QED BY <2>1, <2>2, FS_EmptySet
<1>2. ASSUME NEW z \in Nat, z >= 1900, Counted(z)
      PROVE  Counted(z + 1)
  <2>1. LeapYearsBefore(z + 1) = LeapYearsBefore(z) \cup (IF LeapYear(z) THEN {z} ELSE {})
    BY <1>2 DEF LeapYearsBefore
  <2>2. z \notin LeapYearsBefore(z)
    BY DEF LeapYearsBefore
  <2>3. LeapDays(z) = LeapDays(z - 1) + (IF LeapYear(z) THEN 1 ELSE 0)
    <3>1. z - 1 \in Nat /\ z = (z - 1) + 1
      BY <1>2
    <3> QED BY <3>1, LeapDaysStep
  <2>4. LeapDays(z - 1) \in Int /\ LeapDays(z) \in Int
    BY <1>2 DEF LeapDays
  <2>5. (z + 1) - 1 = z
    OBVIOUS
  <2>6. CASE LeapYear(z)
    <3>1. LeapYearsBefore(z + 1) = LeapYearsBefore(z) \cup {z}
      BY <2>1, <2>6
    <3>2. /\ IsFiniteSet(LeapYearsBefore(z + 1))
          /\ Cardinality(LeapYearsBefore(z + 1)) = Cardinality(LeapYearsBefore(z)) + 1
      BY <1>2, <2>2, <3>1, FS_AddElement
    <3> QED BY <1>2, <2>3, <2>4, <2>5, <2>6, <3>2
  <2>7. CASE ~LeapYear(z)
    <3>1. LeapYearsBefore(z + 1) = LeapYearsBefore(z)
      BY <2>1, <2>7
    <3>2. LeapDays(z) = LeapDays(z - 1)
      BY <2>3, <2>4, <2>7
    <3> QED BY <1>2, <2>5, <3>1, <3>2
  <2> QED BY <2>6, <2>7
<1> HIDE DEF Counted
<1>3. Bad = {}
  <2> SUFFICES ASSUME Bad # {} PROVE FALSE
    OBVIOUS
  <2>1. PICK z \in Bad : \A x \in Bad : z <= x
    <3>1. Bad \in SUBSET Nat
      OBVIOUS
    <3> HIDE DEF Bad
    <3> QED BY <3>1, LeastNumber
  <2>2. z \in Nat /\ z > 1900 /\ z - 1 \in Nat /\ z - 1 >= 1900 /\ (z - 1) + 1 = z
    BY <1>1, <2>1
  <2>3. Counted(z - 1)
    BY <2>1, <2>2
  <2> QED BY <1>2, <2>1, <2>2, <2>3
<1>4. y >= 1900 => Counted(y)
  BY <1>3
<1> QED BY <1>4 DEF Counted

(* days_from_civil, with its eras of 400 years taken together: the days of
   the years before, which begin in March, and of this one.                *)
DayOfYear(m, d) == (153 * ((m + 9) % 12) + 2) \div 5 + d - 1

(* From the first of March of year 0, and from January 1900, to 1970.       *)
Epoch == 719468
Since1900 == 25567

(* The days by years that begin in March, and by those that begin in January,
   from 1900.                                                              *)
FromMarch(z, m, d) == 365 * z + LeapDays(z) + DayOfYear(m, d) - Epoch

FromJanuary(y, m, d) ==
  365 * (y - 1900) + Cardinality(LeapYearsBefore(y)) + DaysBeforeMonth(y, m) + d - 1

AYear(y) == y \in Nat /\ y >= 1900

LEMMA ErasTogether ==
  ASSUME NEW y, AYear(y), NEW m \in 1 .. 12, NEW d \in Nat,
         NEW z \in Nat, z = IF m <= 2 THEN y - 1 ELSE y
  PROVE  DaysFromCivil(y, m, d) = FromMarch(z, m, d)
<1> DEFINE era == z \div 400
           yoe == z - era * 400
<1>1. era \in Nat /\ yoe \in 0 .. 399 /\ z = 400 * era + yoe
  OBVIOUS
<1>2. DaysFromCivil(y, m, d) =
        era * 146097 + (yoe * 365 + (yoe \div 4) - (yoe \div 100) + DayOfYear(m, d)) - Epoch
  BY SMT DEF DaysFromCivil, DayOfYear, Epoch
<1>3. DayOfYear(m, d) \in Int
  BY DEF DayOfYear
<1>4. ASSUME NEW e \in Nat, NEW q \in 0 .. 399
      PROVE  /\ (400 * e + q) \div 4 = 100 * e + (q \div 4)
             /\ (400 * e + q) \div 100 = 4 * e + (q \div 100)
             /\ (400 * e + q) \div 400 = e
  OBVIOUS
<1>5. ASSUME NEW q \in 0 .. 399
      PROVE  (q \div 4) \in Int /\ (q \div 100) \in Int
  OBVIOUS
<1>6. /\ LeapDays(z) = 97 * era + (yoe \div 4) - (yoe \div 100)
      /\ (yoe \div 4) \in Int /\ (yoe \div 100) \in Int
  <2> HIDE DEF era, yoe
  <2>1. (yoe \div 4) \in Int /\ (yoe \div 100) \in Int
    BY <1>1, <1>5
  <2>2. /\ (400 * era + yoe) \div 4 = 100 * era + (yoe \div 4)
        /\ (400 * era + yoe) \div 100 = 4 * era + (yoe \div 100)
        /\ (400 * era + yoe) \div 400 = era
    BY <1>1, <1>4
  <2>3. /\ z \div 4 = 100 * era + (yoe \div 4)
        /\ z \div 100 = 4 * era + (yoe \div 100)
        /\ z \div 400 = era
    BY <1>1, <2>2
  <2> QED BY <1>1, <2>1, <2>3 DEF LeapDays
<1> DEFINE a == yoe \div 4
           b == yoe \div 100
           c == DayOfYear(m, d)
<1>7. /\ Epoch \in Int
      /\ DaysFromCivil(y, m, d) = era * 146097 + (yoe * 365 + a - b + c) - Epoch
      /\ LeapDays(z) = 97 * era + a - b
      /\ a \in Int /\ b \in Int /\ c \in Int
  BY <1>2, <1>3, <1>6, SMT DEF Epoch
<1> HIDE DEF era, yoe, a, b
<1>8. DaysFromCivil(y, m, d) = 365 * z + LeapDays(z) + c - Epoch
  <2> HIDE DEF c
  <2> QED BY <1>1, <1>7, SMT
<1> QED BY <1>8 DEF FromMarch

(* The months from March on, and January and February of the year after.    *)
LEMMA MonthsCounted ==
  ASSUME NEW m \in 1 .. 12, NEW d \in Nat
  PROVE  DayOfYear(m, d) =
           <<306, 337, 0, 31, 61, 92, 122, 153, 184, 214, 245, 275>>[m] + d - 1
<1>1. m \in {1, 2, 3, 4, 5, 6, 7, 8, 9, 10, 11, 12}
  OBVIOUS
<1>2. CASE m = 1
  BY <1>2 DEF DayOfYear
<1>3. CASE m = 2
  BY <1>3 DEF DayOfYear
<1>4. CASE m = 3
  BY <1>4 DEF DayOfYear
<1>5. CASE m = 4
  BY <1>5 DEF DayOfYear
<1>6. CASE m = 5
  BY <1>6 DEF DayOfYear
<1>7. CASE m = 6
  BY <1>7 DEF DayOfYear
<1>8. CASE m = 7
  BY <1>8 DEF DayOfYear
<1>9. CASE m = 8
  BY <1>9 DEF DayOfYear
<1>10. CASE m = 9
  BY <1>10 DEF DayOfYear
<1>11. CASE m = 10
  BY <1>11 DEF DayOfYear
<1>12. CASE m = 11
  BY <1>12 DEF DayOfYear
<1>13. CASE m = 12
  BY <1>13 DEF DayOfYear
<1> QED BY <1>1, <1>2, <1>3, <1>4, <1>5, <1>6, <1>7, <1>8, <1>9, <1>10, <1>11, <1>12, <1>13

(* Days counted from a January are days counted from a March.              *)
LEMMA MarchAndJanuary ==
  ASSUME NEW m \in 1 .. 12, NEW d \in Nat
  PROVE  /\ m <= 2 => DayOfYear(m, d) = 306 + <<0, 31, 59, 90, 120, 151, 181, 212, 243, 273, 304, 334>>[m] + d - 1
         /\ m > 2 => DayOfYear(m, d) = <<0, 31, 59, 90, 120, 151, 181, 212, 243, 273, 304, 334>>[m] - 59 + d - 1
         /\ <<0, 31, 59, 90, 120, 151, 181, 212, 243, 273, 304, 334>>[m] \in Nat
<1>1. DayOfYear(m, d) =
        <<306, 337, 0, 31, 61, 92, 122, 153, 184, 214, 245, 275>>[m] + d - 1
  BY MonthsCounted
<1>2. m \in {1, 2, 3, 4, 5, 6, 7, 8, 9, 10, 11, 12}
  OBVIOUS
<1> QED BY <1>1, <1>2

LEMMA DaysCounted ==
  ASSUME NEW y, AYear(y), NEW m \in 1 .. 12, NEW d \in Nat
  PROVE  DaysFromCivil(y, m, d) = FromJanuary(y, m, d) - Since1900
<1> DEFINE z    == IF m <= 2 THEN y - 1 ELSE y
           days == <<0, 31, 59, 90, 120, 151, 181, 212, 243, 273, 304, 334>>[m]
           leap == IF LeapYear(y) THEN 1 ELSE 0
           n    == Cardinality(LeapYearsBefore(y))
<1>0. y \in Nat /\ y >= 1900
  BY DEF AYear
<1>1. z \in Nat
  BY <1>0
<1>2. DaysFromCivil(y, m, d) = FromMarch(z, m, d)
  <2>1. z = IF m <= 2 THEN y - 1 ELSE y
    OBVIOUS
  <2> HIDE DEF z
  <2> QED BY <1>1, <2>1, ErasTogether, Zenon
<1>3. n = LeapDays(y - 1) - 460
  BY <1>0, LeapYearsCounted
<1>4. LeapDays(y) = LeapDays(y - 1) + leap
  <2>1. y - 1 \in Nat /\ y = (y - 1) + 1
    BY <1>0
  <2> QED BY <2>1, LeapDaysStep
<1>5. LeapDays(y - 1) \in Int /\ leap \in Int /\ days \in Nat
  BY <1>0, MarchAndJanuary DEF LeapDays
<1>6. DaysBeforeMonth(y, m) = days + (IF m > 2 THEN leap ELSE 0)
  BY <1>5 DEF DaysBeforeMonth
<1>7. CASE m <= 2
  <2>1. /\ z = y - 1 /\ DayOfYear(m, d) = 306 + days + d - 1
        /\ DaysBeforeMonth(y, m) = days
    BY <1>5, <1>6, <1>7, MarchAndJanuary
  <2> HIDE DEF z, days, leap, n
  <2> QED BY <1>0, <1>2, <1>3, <1>5, <2>1, SMT
         DEF n, Epoch, Since1900, FromMarch, FromJanuary
<1>8. CASE m > 2
  <2>1. /\ z = y /\ DayOfYear(m, d) = days - 59 + d - 1
        /\ DaysBeforeMonth(y, m) = days + leap
    BY <1>6, <1>8, MarchAndJanuary
  <2> HIDE DEF z, days, leap, n
  <2> QED BY <1>0, <1>2, <1>3, <1>4, <1>5, <2>1, SMT
         DEF n, Epoch, Since1900, FromMarch, FromJanuary
<1> QED BY <1>7, <1>8

(* Weeks of the epoch and of the calendar on the wall.                      *)
LEMMA WeekdayIndexIsWeekday ==
  ASSUME NEW date \in Dates
  PROVE  WeekdayIndex(date)
           = Weekday(date \div 10000, (date \div 100) % 100, date % 100)
<1> DEFINE y == date \div 10000
           m == (date \div 100) % 100
           d == date % 100
           n == FromJanuary(y, m, d)
<1>1. y \in Nat /\ y >= 1900 /\ m \in 1 .. 12 /\ d \in Nat
  BY DatesAssumption, SMT
<1> HIDE DEF y, m, d
<1>2. DaysFromCivil(y, m, d) = n - Since1900
  <2>1. AYear(y) /\ m \in 1 .. 12 /\ d \in Nat
    BY <1>1 DEF AYear
  <2> QED BY <2>1, DaysCounted, Zenon
<1>3. n \in Int
  <2>1. Cardinality(LeapYearsBefore(y)) \in Int
    BY <1>1, LeapYearsCounted, FS_CardinalityType
  <2>2. DaysBeforeMonth(y, m) \in Int
    BY <1>1, MarchAndJanuary DEF DaysBeforeMonth
  <2> QED BY <1>1, <2>1, <2>2 DEF FromJanuary
<1>4. \A x \in Int : ((x - Since1900) + 3) % 7 = x % 7
  BY SMT DEF Since1900
<1>5. Weekday(y, m, d) = n % 7
  BY Zenon DEF Weekday, FromJanuary
<1>6. WeekdayIndex(date) = (DaysFromCivil(y, m, d) + 3) % 7
  BY DEF WeekdayIndex, y, m, d
<1> HIDE DEF n
<1>7. WeekdayIndex(date) = Weekday(y, m, d)
  BY <1>2, <1>3, <1>4, <1>5, <1>6
<1> QED BY <1>7 DEF y, m, d

(* The calendar row of a service is its last.                              *)
LEMMA LastCalendar ==
  ASSUME feed \in Feeds, NEW service, NEW c
  PROVE  c \in CalendarOf(service).regular
           <=> \E r \in DOMAIN feed.calendars :
                 c = feed.calendars[r] /\ IsCalendarOf(r, service)
<1> DEFINE rows == {x \in DOMAIN feed.calendars : feed.calendars[x].service = service}
<1>1. IsFiniteSet(rows) /\ rows \subseteq Int
  <2>1. IsTable(feed.calendars)
    BY FeedsAssumption DEF IsFeed
  <2>2. IsFiniteSet(DOMAIN feed.calendars) /\ DOMAIN feed.calendars \subseteq Int
    BY <2>1, TableFacts
  <2> QED BY <2>2, FS_Subset
<1>2. CalendarOf(service).regular = IF rows = {} THEN {} ELSE {feed.calendars[Max(rows)]}
  BY DEF CalendarOf
<1>3. CASE rows = {}
  BY <1>2, <1>3 DEF IsCalendarOf
<1>4. CASE rows # {}
  <2>1. Max(rows) \in rows /\ \A q \in rows : Max(rows) >= q
    <3> HIDE DEF rows
    <3> QED BY <1>1, <1>4, LeastAndGreatest
  <2>2. c \in CalendarOf(service).regular <=> c = feed.calendars[Max(rows)]
    BY <1>2, <1>4
  <2> DEFINE last == Max(rows)
  <2>3. last \in rows /\ \A q \in rows : q <= last
    <3>1. \A q \in rows : Max(rows) >= q => q <= Max(rows)
      BY <1>1, <2>1
    <3> QED BY <2>1, <3>1
  <2> HIDE DEF last
  <2>4. ASSUME NEW r \in rows, \A q \in rows : q <= r
        PROVE  r = last
    <3>1. r <= last /\ last <= r /\ r \in Int /\ last \in Int
      BY <1>1, <2>3, <2>4
    <3> QED BY <3>1
  <2>5. c \in CalendarOf(service).regular <=> c = feed.calendars[last]
    BY <2>2 DEF last
  <2>6. \A r \in DOMAIN feed.calendars : IsCalendarOf(r, service) <=> r = last
    BY <2>3, <2>4 DEF IsCalendarOf
  <2> QED BY <2>3, <2>5, <2>6
<1> QED BY <1>3, <1>4

(* Its weekday is that of the calendar on the wall.                         *)
LEMMA CoversItsDays ==
  ASSUME feed \in Feeds, NEW date \in Dates, NEW r \in DOMAIN feed.calendars
  PROVE  LET c == feed.calendars[r]
         IN  date \in c.from .. c.to /\ WeekdayIndex(date) \in c.weekdays
               <=> Covers(c, date)
<1> DEFINE c == feed.calendars[r]
<1>1. {c.from, c.to} \subseteq Nat /\ date \in Nat
  BY FeedsAssumption, DatesAssumption DEF IsFeed
<1>2. date \in c.from .. c.to <=> c.from <= date /\ date <= c.to
  <2> HIDE DEF c
  <2> QED BY <1>1
<1> HIDE DEF c
<1> DEFINE day == Weekday(date \div 10000, (date \div 100) % 100, date % 100)
<1>3. WeekdayIndex(date) = day
  BY WeekdayIndexIsWeekday
<1>4. Covers(c, date) <=> c.from <= date /\ date <= c.to /\ day \in c.weekdays
  BY DEF Covers
<1> HIDE DEF day
<1>5. date \in c.from .. c.to /\ WeekdayIndex(date) \in c.weekdays <=> Covers(c, date)
  BY <1>2, <1>3, <1>4
<1> QED BY <1>5 DEF c

LEMMA ActiveOnItsDays ==
  ASSUME feed \in Feeds, NEW date \in Dates, NEW service
  PROVE  ServiceActive(service, date)
           <=> /\ ~Listed(service, date, FALSE)
               /\ \/ Listed(service, date, TRUE)
                  \/ \E r \in DOMAIN feed.calendars :
                       IsCalendarOf(r, service) /\ Covers(feed.calendars[r], date)
<1> DEFINE cal == CalendarOf(service)
<1>1. \A r \in DOMAIN feed.dates : feed.dates[r].added \in BOOLEAN
  BY FeedsAssumption DEF IsFeed
<1>2. date \in cal.removed <=> Listed(service, date, FALSE)
  <2>1. cal.removed = {feed.dates[d].date : d \in {x \in DOMAIN feed.dates :
                         feed.dates[x].service = service /\ ~feed.dates[x].added}}
    BY DEF CalendarOf
  <2> HIDE DEF cal
  <2> QED BY <1>1, <2>1 DEF Listed
<1>3. date \in cal.added <=> Listed(service, date, TRUE)
  <2>1. cal.added = {feed.dates[d].date : d \in {x \in DOMAIN feed.dates :
                       feed.dates[x].service = service /\ feed.dates[x].added}}
    BY DEF CalendarOf
  <2> HIDE DEF cal
  <2> QED BY <1>1, <2>1 DEF Listed
<1>4. (\E c \in cal.regular : date \in c.from .. c.to /\ WeekdayIndex(date) \in c.weekdays)
        <=> \E r \in DOMAIN feed.calendars :
              IsCalendarOf(r, service) /\ Covers(feed.calendars[r], date)
  <2>1. \A c : c \in cal.regular
                 <=> \E r \in DOMAIN feed.calendars :
                       c = feed.calendars[r] /\ IsCalendarOf(r, service)
    BY LastCalendar, Zenon
  <2> HIDE DEF cal
  <2> QED BY <2>1, CoversItsDays, Zenon
<1>5. ServiceActive(service, date)
        <=> /\ date \notin cal.removed
            /\ \/ date \in cal.added
               \/ \E c \in cal.regular :
                    date \in c.from .. c.to /\ WeekdayIndex(date) \in c.weekdays
  BY Zenon DEF ServiceActive
<1> HIDE DEF cal
<1> QED BY <1>2, <1>3, <1>4, <1>5, Zenon

(* The weekday of any date is that of the calendar, and a service runs when
   its rows say.                                                           *)
THEOREM ServicesRunOnTheirDays == Spec => []RunsOnItsDays
<1>1. StationInv => RunsOnItsDays
  BY ActiveOnItsDays, Zenon DEF RunsOnItsDays, StationInv
<1> QED BY <1>1, StationInit, StationStep, PTL DEF Spec

-----------------------------------------------------------------------------
(* The runs of a table of patterns, each with the route and the stations of
   its pattern.                                                            *)
PlacesIn(t) == UNION {{p} \X DOMAIN t[p].trips : p \in DOMAIN t}

What(t, x) ==
  [run |-> t[x[1]].trips[x[2]], route |-> t[x[1]].route, stops |-> t[x[1]].stops]

(* They are just these, each of them once.                                 *)
Agree(t, runs) ==
  /\ \A x \in PlacesIn(t) : What(t, x) \in runs
  /\ \A r \in runs : \E x \in PlacesIn(t) : What(t, x) = r
  /\ \A x, y \in PlacesIn(t) :
       t[x[1]].trips[x[2]].id = t[y[1]].trips[y[2]].id => x = y

LEMMA PlaceFacts ==
  ASSUME NEW t, NEW x
  PROVE  x \in PlacesIn(t)
           <=> \E p \in DOMAIN t : \E i \in DOMAIN t[p].trips : x = <<p, i>>
BY DEF PlacesIn

(* One more run.                                                           *)
LEMMA AgreeWithRun ==
  ASSUME NEW f, NEW stations, NEW t, ArePatterns(f, stations, t), NEW p \in DOMAIN t,
         NEW runs, Agree(t, runs),
         NEW run, \A q \in runs : q.run.id # run.id
  PROVE  Agree(WithRun(t, p, run),
               runs \cup {[run |-> run, route |-> t[p].route, stops |-> t[p].stops]})
<1> DEFINE r   == [run |-> run, route |-> t[p].route, stops |-> t[p].stops]
           n   == Len(t[p].trips) + 1
           x   == [t[p] EXCEPT !.trips = Append(@, run)]
           new == [t EXCEPT ![p] = x]
<1>1. /\ IsTable(t) /\ DOMAIN t[p] = {"route", "stops", "mode", "trips"}
      /\ IsTable(t[p].trips)
  BY DEF ArePatterns, IsPattern
<1>2. /\ x.trips = Append(t[p].trips, run) /\ x.route = t[p].route /\ x.stops = t[p].stops
  BY <1>1
<1>3. /\ DOMAIN x.trips = DOMAIN t[p].trips \cup {n}
      /\ \A i \in DOMAIN t[p].trips : x.trips[i] = t[p].trips[i]
      /\ x.trips[n] = run
      /\ n \notin DOMAIN t[p].trips
  <2>1. DOMAIN t[p].trips = 1 .. Len(t[p].trips) /\ Len(t[p].trips) \in Nat
    BY <1>1, TableFacts
  <2> QED BY <1>1, <1>2, <2>1, AppendRow
<1> HIDE DEF x, n
<1>4. /\ DOMAIN new = DOMAIN t /\ new[p] = x
      /\ \A q \in DOMAIN t \ {p} : new[q] = t[q]
  BY <1>1, ReplaceRow
<1>5. WithRun(t, p, run) = new
  BY DEF WithRun, x
<1> HIDE DEF new
<1>6. PlacesIn(new) = PlacesIn(t) \cup {<<p, n>>} /\ <<p, n>> \notin PlacesIn(t)
  <2>1. \A y : y \in PlacesIn(new) <=> y \in PlacesIn(t) \/ y = <<p, n>>
    <3> TAKE y
    <3>1. y \in PlacesIn(new) <=> \E q \in DOMAIN t : \E i \in DOMAIN new[q].trips : y = <<q, i>>
      BY <1>4, PlaceFacts
    <3>2. y \in PlacesIn(t) <=> \E q \in DOMAIN t : \E i \in DOMAIN t[q].trips : y = <<q, i>>
      BY PlaceFacts
    <3>3. \A q \in DOMAIN t : \A i :
            i \in DOMAIN new[q].trips <=> i \in DOMAIN t[q].trips \/ (q = p /\ i = n)
      BY <1>3, <1>4
    <3> QED BY <3>1, <3>2, <3>3
  <2>2. <<p, n>> \notin PlacesIn(t)
    BY <1>3, PlaceFacts
  <2> QED BY <2>1, <2>2
<1>7. \A y \in PlacesIn(t) : /\ new[y[1]].trips[y[2]] = t[y[1]].trips[y[2]]
                             /\ new[y[1]].route = t[y[1]].route
                             /\ new[y[1]].stops = t[y[1]].stops
  <2> TAKE y \in PlacesIn(t)
  <2>0. PICK q \in DOMAIN t : \E i \in DOMAIN t[q].trips : y = <<q, i>>
    BY PlaceFacts
  <2>1. PICK i \in DOMAIN t[q].trips : y = <<q, i>>
    BY <2>0
  <2>2. y[1] = q /\ y[2] = i
    BY <2>1
  <2> QED BY <1>2, <1>3, <1>4, <2>2
<1>8. \A y \in PlacesIn(t) : What(new, y) = What(t, y)
  BY <1>7 DEF What
<1>9. /\ new[<<p, n>>[1]].trips[<<p, n>>[2]] = run
      /\ What(new, <<p, n>>) = r
  BY <1>2, <1>3, <1>4 DEF What
<1>10. \A y \in PlacesIn(t) : new[y[1]].trips[y[2]].id # run.id
  <2> TAKE y \in PlacesIn(t)
  <2>1. What(t, y) \in runs
    BY DEF Agree
  <2>2. What(t, y).run = t[y[1]].trips[y[2]]
    BY DEF What
  <2>3. What(t, y).run.id # run.id
    BY <2>1
  <2> QED BY <1>7, <2>2, <2>3
<1>11. \A y \in PlacesIn(new) : What(new, y) \in runs \cup {r}
  BY <1>6, <1>8, <1>9, Zenon DEF Agree
<1>12. \A q \in runs \cup {r} : \E y \in PlacesIn(new) : What(new, y) = q
  BY <1>6, <1>8, <1>9, Zenon DEF Agree
<1>13. \A y, z \in PlacesIn(new) :
         new[y[1]].trips[y[2]].id = new[z[1]].trips[z[2]].id => y = z
  <2> SUFFICES ASSUME NEW y \in PlacesIn(new), NEW z \in PlacesIn(new),
                      new[y[1]].trips[y[2]].id = new[z[1]].trips[z[2]].id
               PROVE  y = z
    OBVIOUS
  <2>1. CASE y \in PlacesIn(t) /\ z \in PlacesIn(t)
    <3>1. t[y[1]].trips[y[2]].id = t[z[1]].trips[z[2]].id
      BY <1>7, <2>1
    <3> QED BY <2>1, <3>1 DEF Agree
  <2>2. CASE y \notin PlacesIn(t) /\ z \in PlacesIn(t)
    BY <1>6, <1>9, <1>10, <2>2
  <2>3. CASE y \in PlacesIn(t) /\ z \notin PlacesIn(t)
    BY <1>6, <1>9, <1>10, <2>3
  <2>4. CASE y \notin PlacesIn(t) /\ z \notin PlacesIn(t)
    BY <1>6, <2>4
  <2> QED BY <2>1, <2>2, <2>3, <2>4
<1> HIDE DEF r
<1>14. Agree(new, runs \cup {r})
  BY <1>11, <1>12, <1>13 DEF Agree
<1> QED BY <1>5, <1>14 DEF r

(* A pattern without runs.                                                 *)
LEMMA AgreeWithPattern ==
  ASSUME NEW t, IsTable(t), NEW runs, Agree(t, runs),
         NEW pattern, pattern.trips = <<>>
  PROVE  Agree(Append(t, pattern), runs)
<1> DEFINE new == Append(t, pattern)
           n   == Len(t) + 1
<1>1. /\ DOMAIN new = DOMAIN t \cup {n}
      /\ \A i \in DOMAIN t : new[i] = t[i]
      /\ new[n] = pattern
  BY AppendRow
<1> HIDE DEF new, n
<1>2. DOMAIN pattern.trips = {}
  OBVIOUS
<1>3. PlacesIn(new) = PlacesIn(t)
  <2>1. \A y : y \in PlacesIn(new) <=> y \in PlacesIn(t)
    <3> TAKE y
    <3>1. y \in PlacesIn(new) <=> \E q \in DOMAIN new : \E i \in DOMAIN new[q].trips : y = <<q, i>>
      BY PlaceFacts
    <3>2. y \in PlacesIn(t) <=> \E q \in DOMAIN t : \E i \in DOMAIN t[q].trips : y = <<q, i>>
      BY PlaceFacts
    <3> QED BY <1>1, <1>2, <3>1, <3>2
  <2> QED BY <2>1
<1>4. \A y \in PlacesIn(t) : y[1] \in DOMAIN t /\ new[y[1]] = t[y[1]]
  <2> TAKE y \in PlacesIn(t)
  <2>0. PICK q \in DOMAIN t : \E i \in DOMAIN t[q].trips : y = <<q, i>>
    BY PlaceFacts
  <2>1. PICK i \in DOMAIN t[q].trips : y = <<q, i>>
    BY <2>0
  <2>2. y[1] = q
    BY <2>1
  <2> QED BY <1>1, <2>2
<1>5. \A y \in PlacesIn(t) : What(new, y) = What(t, y)
  BY <1>4 DEF What
<1>6. \A y \in PlacesIn(new) : What(new, y) \in runs
  BY <1>3, <1>5, Zenon DEF Agree
<1>7. \A r \in runs : \E y \in PlacesIn(new) : What(new, y) = r
  BY <1>3, <1>5, Zenon DEF Agree
<1>8. \A y, z \in PlacesIn(new) :
        new[y[1]].trips[y[2]].id = new[z[1]].trips[z[2]].id => y = z
  BY <1>3, <1>4, Zenon DEF Agree
<1>9. Agree(new, runs)
  BY <1>6, <1>7, <1>8, Zenon DEF Agree
<1> QED BY <1>9 DEF new

(* The same runs in another order within their patterns.                   *)
Reorders(order, S) ==
  /\ order \in [S -> S]
  /\ \A i, j \in S : order[i] = order[j] => i = j
  /\ \A i \in S : \E j \in S : order[j] = i

LEMMA AgreeInOrder ==
  ASSUME NEW t, NEW new, DOMAIN new = DOMAIN t, NEW runs, Agree(t, runs),
         \A p \in DOMAIN t :
           /\ new[p].route = t[p].route /\ new[p].stops = t[p].stops
           /\ DOMAIN new[p].trips = DOMAIN t[p].trips
           /\ \E order : /\ Reorders(order, DOMAIN t[p].trips)
                         /\ \A i \in DOMAIN t[p].trips : new[p].trips[i] = t[p].trips[order[i]]
  PROVE  Agree(new, runs)
<1> DEFINE Sorts(p, order) == /\ Reorders(order, DOMAIN t[p].trips)
                              /\ \A i \in DOMAIN t[p].trips :
                                   new[p].trips[i] = t[p].trips[order[i]]
           was(x) == <<x[1], (CHOOSE order : Sorts(x[1], order))[x[2]]>>
<1>1. PlacesIn(new) = PlacesIn(t)
  <2>1. \A x : x \in PlacesIn(new) <=> x \in PlacesIn(t)
    <3> TAKE x
    <3>1. x \in PlacesIn(new) <=> \E p \in DOMAIN new : \E i \in DOMAIN new[p].trips : x = <<p, i>>
      BY PlaceFacts
    <3>2. x \in PlacesIn(t) <=> \E p \in DOMAIN t : \E i \in DOMAIN t[p].trips : x = <<p, i>>
      BY PlaceFacts
    <3> QED BY <3>1, <3>2
  <2> QED BY <2>1
<1>2. \A p \in DOMAIN t : Sorts(p, CHOOSE order : Sorts(p, order))
  OBVIOUS
<1> HIDE DEF Sorts
<1> DEFINE order(p) == CHOOSE o : Sorts(p, o)
<1>3. ASSUME NEW p \in DOMAIN t
      PROVE  /\ \A i \in DOMAIN t[p].trips : /\ order(p)[i] \in DOMAIN t[p].trips
                                             /\ new[p].trips[i] = t[p].trips[order(p)[i]]
             /\ \A i, j \in DOMAIN t[p].trips : order(p)[i] = order(p)[j] => i = j
             /\ \A i \in DOMAIN t[p].trips : \E j \in DOMAIN t[p].trips : order(p)[j] = i
  <2>1. Sorts(p, order(p))
    BY <1>2
  <2> HIDE DEF order
  <2> QED BY <2>1 DEF Sorts, Reorders
<1>4. \A x \in PlacesIn(t) : was(x) = <<x[1], order(x[1])[x[2]]>>
  OBVIOUS
<1> HIDE DEF was, order
<1>5. ASSUME NEW x \in PlacesIn(t)
      PROVE  /\ x[1] \in DOMAIN t /\ x[2] \in DOMAIN t[x[1]].trips
             /\ x = <<x[1], x[2]>>
             /\ was(x) \in PlacesIn(t)
             /\ was(x)[1] = x[1] /\ was(x)[2] = order(x[1])[x[2]]
             /\ new[x[1]].trips[x[2]] = t[was(x)[1]].trips[was(x)[2]]
             /\ What(new, x) = What(t, was(x))
  <2>0. PICK p \in DOMAIN t : \E i \in DOMAIN t[p].trips : x = <<p, i>>
    BY PlaceFacts
  <2>1. PICK i \in DOMAIN t[p].trips : x = <<p, i>>
    BY <2>0
  <2>2. x[1] = p /\ x[2] = i
    BY <2>1
  <2>3. was(x) = <<p, order(p)[i]>> /\ was(x)[1] = p /\ was(x)[2] = order(p)[i]
    BY <1>4, <2>2
  <2>4. was(x) \in PlacesIn(t)
    BY <1>3, <2>3, PlaceFacts
  <2>5. new[x[1]].trips[x[2]] = t[was(x)[1]].trips[was(x)[2]]
    BY <1>3, <2>2, <2>3
  <2>6. What(new, x) = What(t, was(x))
    BY <2>2, <2>3, <2>5 DEF What
  <2> QED BY <2>1, <2>2, <2>3, <2>4, <2>5, <2>6
<1>6. \A x \in PlacesIn(new) : What(new, x) \in runs
  BY <1>1, <1>5, Zenon DEF Agree
<1>7. \A r \in runs : \E x \in PlacesIn(new) : What(new, x) = r
  <2> TAKE r \in runs
  <2>1. PICK y \in PlacesIn(t) : What(t, y) = r
    BY DEF Agree
  <2>2. y[1] \in DOMAIN t /\ y[2] \in DOMAIN t[y[1]].trips /\ y = <<y[1], y[2]>>
    BY <1>5
  <2>3. PICK j \in DOMAIN t[y[1]].trips : order(y[1])[j] = y[2]
    BY <1>3, <2>2
  <2> DEFINE x == <<y[1], j>>
  <2>4. x \in PlacesIn(t) /\ x[1] = y[1] /\ x[2] = j
    BY <2>2, PlaceFacts
  <2> HIDE DEF x
  <2>5. was(x) = <<y[1], y[2]>>
    BY <1>4, <2>3, <2>4
  <2> QED BY <1>1, <1>5, <2>1, <2>2, <2>4, <2>5
<1>8. \A x, y \in PlacesIn(new) :
        new[x[1]].trips[x[2]].id = new[y[1]].trips[y[2]].id => x = y
  <2> SUFFICES ASSUME NEW x \in PlacesIn(t), NEW y \in PlacesIn(t),
                      new[x[1]].trips[x[2]].id = new[y[1]].trips[y[2]].id
               PROVE  x = y
    BY <1>1
  <2>1. was(x) = was(y)
    BY <1>5 DEF Agree
  <2>2. x[1] = y[1] /\ order(x[1])[x[2]] = order(x[1])[y[2]]
    BY <1>5, <2>1
  <2>3. x[2] = y[2]
    <3>1. x[1] \in DOMAIN t /\ x[2] \in DOMAIN t[x[1]].trips /\ y[2] \in DOMAIN t[x[1]].trips
      BY <1>5, <2>2
    <3>2. \A i, j \in DOMAIN t[x[1]].trips : order(x[1])[i] = order(x[1])[j] => i = j
      BY <1>3, <3>1
    <3> QED BY <2>2, <3>1, <3>2
  <2> QED BY <1>5, <2>2, <2>3
<1> QED BY <1>6, <1>7, <1>8 DEF Agree

-----------------------------------------------------------------------------
(* A sort takes every row, and none twice.                                 *)
LEMMA SortReorders ==
  ASSUME NEW s, IsTable(s), NEW key, \A i \in DOMAIN s : key[i] \in Int
  PROVE  LET order == InOrder(DOMAIN s, key)
         IN  /\ Reorders(order, DOMAIN s)
             /\ SortBy(s, key) = [n \in DOMAIN s |-> s[order[n]]]
<1> DEFINE order == InOrder(DOMAIN s, key)
           n     == Len(s)
<1>1. IsOrder(DOMAIN s, key, order)
  BY RowsInOrder
<1>2. n \in Nat /\ DOMAIN s = 1 .. n /\ IsFiniteSet(DOMAIN s) /\ Cardinality(DOMAIN s) = n
  <2>1. n \in Nat /\ DOMAIN s = 1 .. n
    BY TableFacts
  <2> HIDE DEF n
  <2>2. IsFiniteSet(1 .. n) /\ Cardinality(1 .. n) = n
    BY <2>1, FS_Interval
  <2> QED BY <2>1, <2>2
<1>3. SortBy(s, key) = [i \in DOMAIN s |-> s[order[i]]]
  BY DEF SortBy
<1> HIDE DEF order, n
<1>4. order \in [DOMAIN s -> DOMAIN s] /\ \A i \in DOMAIN s : \E j \in DOMAIN s : order[j] = i
  BY <1>1, <1>2 DEF IsOrder
<1>5. order \in Surjection(DOMAIN s, DOMAIN s)
  BY <1>4 DEF Surjection
<1>6. order \in Injection(DOMAIN s, DOMAIN s)
  BY <1>2, <1>5, FS_Surjection
<1>7. \A i, j \in DOMAIN s : order[i] = order[j] => i = j
  BY <1>6 DEF Injection, IsInjective
<1> QED BY <1>3, <1>4, <1>7 DEF Reorders, order

LEMMA ReordersTwice ==
  ASSUME NEW S, NEW a, Reorders(a, S), NEW b, Reorders(b, S)
  PROVE  Reorders([i \in S |-> a[b[i]]], S)
BY DEF Reorders

(* The trips of a pattern are sorted, none of them lost or doubled.         *)
LEMMA SortedReorders ==
  ASSUME NEW trips, IsTable(trips),
         \A i \in DOMAIN trips : trips[i].id[1] \in Int /\ trips[i].departures[1] \in Int
  PROVE  /\ DOMAIN Sorted(trips) = DOMAIN trips
         /\ \E order : /\ Reorders(order, DOMAIN trips)
                       /\ \A i \in DOMAIN trips : Sorted(trips)[i] = trips[order[i]]
<1> DEFINE ids   == [i \in DOMAIN trips |-> trips[i].id[1]]
           byId  == SortBy(trips, ids)
           key   == [i \in DOMAIN byId |-> byId[i].departures[1]]
           new   == SortBy(byId, key)
           first == InOrder(DOMAIN trips, ids)
           then  == InOrder(DOMAIN byId, key)
<1>1. Reorders(first, DOMAIN trips) /\ byId = [n \in DOMAIN trips |-> trips[first[n]]]
  <2>1. \A i \in DOMAIN trips : ids[i] \in Int
    OBVIOUS
  <2> HIDE DEF ids
  <2> QED BY <2>1, SortReorders
<1>2. Sorted(trips) = new
  BY DEF Sorted
<1> HIDE DEF ids, byId, first
<1>3. IsTable(byId) /\ DOMAIN byId = DOMAIN trips
  BY <1>1, MapIsTable DEF Reorders
<1>4. \A i \in DOMAIN byId : key[i] \in Int
  BY <1>1, <1>3 DEF Reorders
<1>5. Reorders(then, DOMAIN byId) /\ new = [n \in DOMAIN byId |-> byId[then[n]]]
  <2> HIDE DEF key
  <2> QED BY <1>3, <1>4, SortReorders
<1> HIDE DEF new, then
<1> DEFINE order == [i \in DOMAIN trips |-> first[then[i]]]
<1>6. Reorders(order, DOMAIN trips)
  BY <1>1, <1>3, <1>5, ReordersTwice
<1>7. \A i \in DOMAIN trips : new[i] = trips[order[i]]
  BY <1>1, <1>3, <1>5 DEF Reorders
<1>8. DOMAIN new = DOMAIN trips
  BY <1>3, <1>5
<1> HIDE DEF order
<1> QED BY <1>2, <1>6, <1>7, <1>8

LEMMA AgreeSorted ==
  ASSUME NEW f, NEW stations, NEW t, ArePatterns(f, stations, t), NEW runs, Agree(t, runs)
  PROVE  Agree([p \in DOMAIN t |-> [t[p] EXCEPT !.trips = Sorted(@)]], runs)
<1> DEFINE one(p) == [t[p] EXCEPT !.trips = Sorted(@)]
           new    == [p \in DOMAIN t |-> one(p)]
<1>1. ASSUME NEW p \in DOMAIN t
      PROVE  /\ one(p).route = t[p].route /\ one(p).stops = t[p].stops
             /\ one(p).trips = Sorted(t[p].trips)
             /\ DOMAIN Sorted(t[p].trips) = DOMAIN t[p].trips
             /\ \E order : /\ Reorders(order, DOMAIN t[p].trips)
                           /\ \A i \in DOMAIN t[p].trips :
                                Sorted(t[p].trips)[i] = t[p].trips[order[i]]
  <2>1. IsPattern(f, stations, t[p])
    BY DEF ArePatterns
  <2>2. DOMAIN t[p] = {"route", "stops", "mode", "trips"}
    BY <2>1 DEF IsPattern
  <2>3. \A i \in DOMAIN t[p].trips : /\ t[p].trips[i].id[1] \in Int
                                     /\ t[p].trips[i].departures[1] \in Int
    <3> DEFINE n == Len(t[p].stops)
    <3>1. n \in Nat /\ n >= 2 /\ \A i \in DOMAIN t[p].trips : IsRun(f, n, t[p].trips[i])
      BY <2>1 DEF IsPattern
    <3> HIDE DEF n
    <3> QED BY <3>1, SizesAssumption DEF IsRun, Seconds
  <2>4. IsTable(t[p].trips)
    BY <2>1 DEF IsPattern
  <2>5. /\ DOMAIN Sorted(t[p].trips) = DOMAIN t[p].trips
        /\ \E order : /\ Reorders(order, DOMAIN t[p].trips)
                      /\ \A i \in DOMAIN t[p].trips :
                           Sorted(t[p].trips)[i] = t[p].trips[order[i]]
    BY <2>3, <2>4, SortedReorders
  <2> QED BY <2>2, <2>5
<1> HIDE DEF one
<1>2. DOMAIN new = DOMAIN t /\ \A p \in DOMAIN t : new[p] = one(p)
  OBVIOUS
<1> HIDE DEF new
<1>3. \A p \in DOMAIN t :
        /\ new[p].route = t[p].route /\ new[p].stops = t[p].stops
        /\ DOMAIN new[p].trips = DOMAIN t[p].trips
        /\ \E order : /\ Reorders(order, DOMAIN t[p].trips)
                      /\ \A i \in DOMAIN t[p].trips : new[p].trips[i] = t[p].trips[order[i]]
  <2> TAKE p \in DOMAIN t
  <2>1. new[p].trips = Sorted(t[p].trips)
    BY <1>1, <1>2
  <2> QED BY <1>1, <1>2, <2>1
<1>4. Agree(new, runs)
  BY <1>2, <1>3, AgreeInOrder
<1> QED BY <1>4 DEF new, one

-----------------------------------------------------------------------------
StartOf(trip) == TimesOf(feed, trip)[1].departure

(* The departures that a window of a trip asks for, all of those, and those
   of them that have been gone through, as long as the trip is expanded.    *)
AskedBy(trip, n) ==
  IF WindowsOf(feed, trip)[n].headway > 0 THEN StartsIn(WindowsOf(feed, trip)[n]) ELSE {}

Asked(trip) == UNION {AskedBy(trip, n) : n \in DOMAIN WindowsOf(feed, trip)}

Passed(dep) ==
  \E n \in DOMAIN WindowsOf(feed, packing.trip) :
    /\ dep \in AskedBy(packing.trip, n)
    /\ \/ n < packing.window
       \/ pc = "runs" /\ n = packing.window /\ dep < packing.dep

IsPacking(trip) == pc \in {"windows", "runs"} /\ trip = packing.trip

Due(trip) == {dep \in Asked(trip) : IsPacking(trip) => Passed(dep)}

(* The runs that there should be of a trip, and of all trips packed.        *)
RunDue(trip, id, offset) ==
  [run |-> Run(trip, id, offset), route |-> TripOf(feed, trip).route,
   stops |-> StopsOf(trip)]

Repeated(trip, dep) == RunDue(trip, <<trip, dep>>, dep - StartOf(trip))

RunsDue(trip) ==
  IF WindowsOf(feed, trip) = <<>> THEN {RunDue(trip, <<trip>>, 0)}
  ELSE {Repeated(trip, dep) : dep \in Due(trip)}

PackedTrips ==
  {trip \in TripsToPack(feed) : trip \notin pending /\ Len(TimesOf(feed, trip)) >= 2}

AllRuns == UNION {RunsDue(trip) : trip \in PackedTrips}

(* The trip that is being expanded has its pattern, and its next departure
   is a number of headways from the start of the window.                   *)
ExpandInv ==
  /\ pc \in {"windows", "runs"} =>
       /\ packing.trip \in PackedTrips
       /\ packing.window >= 1
       /\ WindowsOf(feed, packing.trip) # <<>>
       /\ patterns[packing.pattern].route = TripOf(feed, packing.trip).route
       /\ patterns[packing.pattern].stops = StopsOf(packing.trip)
  /\ pc = "runs" =>
       \E k \in Nat : packing.dep = Window.start + k * Window.headway

OnceInv ==
  /\ pc = "stops" => pending = TripsToPack(feed)
  /\ pc = "done" => pending = {}
  /\ ExpandInv
  /\ Agree(patterns, AllRuns)

(* What no step after the stops changes.                                   *)
LEMMA DueStays ==
  ASSUME UNCHANGED <<feed, lookup, canonical>>
  PROVE  /\ \A trip, id, offset : RunDue(trip, id, offset)' = RunDue(trip, id, offset)
         /\ \A trip, dep : Repeated(trip, dep)' = Repeated(trip, dep)
         /\ \A trip, n : AskedBy(trip, n)' = AskedBy(trip, n)
         /\ \A trip : Asked(trip)' = Asked(trip)
         /\ \A trip : StopsOf(trip)' = StopsOf(trip)
         /\ \A trip : WindowsOf(feed, trip)' = WindowsOf(feed, trip)
         /\ \A trip : TripOf(feed, trip)' = TripOf(feed, trip)
         /\ \A trip : StartOf(trip)' = StartOf(trip)
         /\ TripsToPack(feed)' = TripsToPack(feed)
         /\ FeedIsDefinite' = FeedIsDefinite
<1>1. \A trip : /\ TimesOf(feed, trip)' = TimesOf(feed, trip)
                /\ WindowsOf(feed, trip)' = WindowsOf(feed, trip)
                /\ TripOf(feed, trip)' = TripOf(feed, trip)
  BY DEF TimesOf, WindowsOf, TripOf, IncludedTrips, IncludedRoutes
<1>2. TripsToPack(feed)' = TripsToPack(feed)
  BY DEF TripsToPack, IncludedTrips, IncludedRoutes
<1>3. \A trip : StopsOf(trip)' = StopsOf(trip)
  BY <1>1 DEF StopsOf, StopIdx, Canonical
<1>4. \A trip, id, offset : Run(trip, id, offset)' = Run(trip, id, offset)
  BY <1>1 DEF Run
<1>5. \A trip, id, offset : RunDue(trip, id, offset)' = RunDue(trip, id, offset)
  BY <1>1, <1>3, <1>4 DEF RunDue
<1>6. \A trip : StartOf(trip)' = StartOf(trip)
  BY <1>1 DEF StartOf
<1>7. \A trip, dep : Repeated(trip, dep)' = Repeated(trip, dep)
  BY <1>5, <1>6 DEF Repeated
<1>8. \A trip, n : AskedBy(trip, n)' = AskedBy(trip, n)
  BY <1>1 DEF AskedBy
<1>9. \A trip : Asked(trip)' = Asked(trip)
  BY <1>1, <1>8 DEF Asked
<1>10. FeedIsDefinite' = FeedIsDefinite
  BY <1>2 DEF FeedIsDefinite, IsDefinite, RowsOf, RepeatsOf, BaseOf, FirstRow
<1> QED BY <1>1, <1>2, <1>3, <1>5, <1>6, <1>7, <1>8, <1>9, <1>10

(* The runs due of a trip are, when its departures due are.                *)
LEMMA RunsDueStay ==
  ASSUME UNCHANGED <<feed, lookup, canonical>>, NEW trip, Due(trip)' = Due(trip)
  PROVE  RunsDue(trip)' = RunsDue(trip)
BY DueStays DEF RunsDue

LEMMA DueOfOthers ==
  ASSUME UNCHANGED <<feed, lookup, canonical>>, NEW trip,
         ~IsPacking(trip), ~IsPacking(trip)'
  PROVE  RunsDue(trip)' = RunsDue(trip)
<1>1. Due(trip)' = Due(trip)
  BY DueStays DEF Due
<1> QED BY <1>1, RunsDueStay

(* Steps that leave the patterns and what is due.                           *)
LEMMA AgreeStays ==
  ASSUME OnceInv, UNCHANGED <<feed, lookup, canonical, patterns>>,
         PackedTrips' = PackedTrips,
         \A trip \in PackedTrips : RunsDue(trip)' = RunsDue(trip)
  PROVE  Agree(patterns, AllRuns)'
<1>1. AllRuns' = AllRuns
  BY DEF AllRuns
<1>2. Agree(patterns, AllRuns)
  BY DEF OnceInv
<1> QED BY <1>1, <1>2

(* The departures of a window.                                             *)
LEMMA StartsAre ==
  ASSUME NEW window \in [trip : Nat, start : Seconds, end : Seconds, headway : Word]
  PROVE  /\ window.start \in Int /\ window.end \in Int /\ window.headway \in Nat
         /\ \A dep \in StartsIn(window) :
              /\ dep \in Int /\ window.start <= dep /\ dep < window.end
              /\ \E k \in Nat : dep = window.start + k * window.headway
<1>1. window.start \in Int /\ window.end \in Int /\ window.headway \in Nat
  BY SizesAssumption DEF Seconds, Word
<1>2. \A dep \in StartsIn(window) : /\ dep \in window.start .. window.end - 1
                                    /\ \E k \in Nat : dep = window.start + k * window.headway
  BY <1>1 DEF StartsIn
<1> QED BY <1>1, <1>2

LEMMA Multiples ==
  ASSUME NEW h \in Nat \ {0}, NEW j \in Nat, NEW k \in Nat
  PROVE  /\ j * h \in Nat /\ k * h \in Nat /\ k <= k * h
         /\ (k + 1) * h = k * h + h
         /\ j * h < k * h + h => j * h <= k * h
<1>1. j * h \in Nat /\ k * h \in Nat
  OBVIOUS
<1>2. (k + 1) * h = k * h + h
  OBVIOUS
<1>3. \A a, b \in Nat : a <= b => a * h <= b * h
  <2> TAKE a \in Nat, b \in Nat
  <2>1. \A c \in Nat : (a + c) * h = a * h + c * h /\ c * h \in Nat
    OBVIOUS
  <2>2. a <= b => b - a \in Nat /\ a + (b - a) = b
    OBVIOUS
  <2>3. a * h \in Nat
    OBVIOUS
  <2> HAVE a <= b
  <2>4. b * h = a * h + (b - a) * h /\ (b - a) * h \in Nat
    BY <2>1, <2>2
  <2> QED BY <2>3, <2>4
<1>4. k <= k * h
  <2>1. k * 1 <= k * h
    <3>1. \A m \in Nat : k * (1 + m) = k + k * m /\ k * m \in Nat
      OBVIOUS
    <3>2. h - 1 \in Nat /\ 1 + (h - 1) = h
      OBVIOUS
    <3>3. k * h = k + k * (h - 1) /\ k * (h - 1) \in Nat
      BY <3>1, <3>2
    <3> QED BY <3>3
  <2> QED BY <2>1
<1>5. j * h < k * h + h => j * h <= k * h
  <2>1. CASE j <= k
    BY <1>3, <2>1
  <2>2. CASE k + 1 <= j
    <3>1. (k + 1) * h <= j * h
      BY <1>3, <2>2
    <3> QED BY <1>1, <1>2, <3>1
  <2> QED BY <2>1, <2>2
<1> QED BY <1>1, <1>2, <1>4, <1>5

(* A departure of a window is one it asks for, and the one after it comes
   next.                                                                   *)
LEMMA StartsFollow ==
  ASSUME NEW window \in [trip : Nat, start : Seconds, end : Seconds, headway : Word],
         window.headway > 0,
         NEW dep \in Int, dep < window.end,
         \E k \in Nat : dep = window.start + k * window.headway
  PROVE  /\ dep \in StartsIn(window)
         /\ \E k \in Nat : dep + window.headway = window.start + k * window.headway
         /\ \A d \in StartsIn(window) : d < dep + window.headway <=> d < dep \/ d = dep
<1> DEFINE h == window.headway
           s == window.start
           e == window.end
<1>1. s \in Int /\ e \in Int /\ h \in Nat \ {0}
  BY StartsAre
<1>2. PICK k \in Nat : dep = s + k * h
  OBVIOUS
<1>3. k * h \in Nat /\ k <= k * h /\ (k + 1) * h = k * h + h
  BY <1>1, <1>2, Multiples
<1> HIDE DEF h, s, e
<1>4. dep \in StartsIn(window)
  <2>1. dep < e
    BY DEF e
  <2>2. k \in 0 .. e - s /\ dep \in s .. e - 1
    BY <1>1, <1>2, <1>3, <2>1
  <2> QED BY <1>2, <2>2 DEF StartsIn, h, s, e
<1>5. dep + h = s + (k + 1) * h /\ k + 1 \in Nat
  BY <1>1, <1>2, <1>3
<1>6. ASSUME NEW d \in StartsIn(window)
      PROVE  d < dep + h <=> d < dep \/ d = dep
  <2>1. PICK j \in Nat : d = s + j * h
    BY StartsAre DEF h, s
  <2>2. j * h \in Nat /\ (j * h < k * h + h => j * h <= k * h)
    BY <1>1, Multiples
  <2> QED BY <1>1, <1>2, <1>3, <2>1, <2>2
<1> QED BY <1>4, <1>5, <1>6 DEF h, s

(* The windows of a trip are its rows, each of them once.                  *)
WindowRows(trip) == {w \in DOMAIN feed.frequencies : feed.frequencies[w].trip = trip}

IsWindowOrder(trip, order) ==
  LET windows == WindowsOf(feed, trip)
  IN  /\ \E m \in Nat : DOMAIN windows = 1 .. m
      /\ order \in [DOMAIN windows -> WindowRows(trip)]
      /\ \A i, j \in DOMAIN windows : order[i] = order[j] => i = j
      /\ \A w \in WindowRows(trip) : \E i \in DOMAIN windows : order[i] = w
      /\ \A i \in DOMAIN windows : windows[i] = feed.frequencies[order[i]]

LEMMA WindowsAreRows ==
  ASSUME feed \in Feeds, NEW trip
  PROVE  \E order : IsWindowOrder(trip, order)
<1> DEFINE rows  == WindowRows(trip)
           key   == [w \in rows |-> w]
           order == InOrder(rows, key)
           n     == Cardinality(rows)
<1>1. IsTable(feed.frequencies) /\ rows \subseteq DOMAIN feed.frequencies
  BY FeedsAssumption DEF IsFeed, WindowRows
<1>2. IsFiniteSet(rows)
  <2>1. IsFiniteSet(DOMAIN feed.frequencies)
    BY <1>1, TableFacts
  <2> QED BY <1>1, <2>1, FS_Subset
<1>3. /\ n \in Nat /\ order \in [1 .. n -> rows]
      /\ \A w \in rows : \E i \in 1 .. n : order[i] = w
  <2>1. \A w \in rows : key[w] \in Int
    BY <1>1, TableFacts
  <2> HIDE DEF rows, key
  <2>2. IsOrder(rows, key, order)
    BY <1>1, <2>1, RowsInOrder
  <2> QED BY <2>2 DEF IsOrder
<1>4. WindowsOf(feed, trip) = [i \in DOMAIN order |-> feed.frequencies[order[i]]]
  BY DEF WindowsOf, WindowRows
<1> HIDE DEF order, n, key
<1>5. \A i, j \in 1 .. n : order[i] = order[j] => i = j
  <2> HIDE DEF rows
  <2>1. order \in Surjection(1 .. n, rows)
    BY <1>3 DEF Surjection
  <2>2. IsFiniteSet(1 .. n) /\ Cardinality(1 .. n) = n
    BY <1>3, FS_Interval
  <2>3. order \in Injection(1 .. n, rows)
    BY <2>1, <2>2, FS_Surjection DEF n
  <2> QED BY <2>3 DEF Injection, IsInjective
<1>6. /\ DOMAIN WindowsOf(feed, trip) = 1 .. n
      /\ \A i \in 1 .. n : WindowsOf(feed, trip)[i] = feed.frequencies[order[i]]
  BY <1>3, <1>4
<1>7. IsWindowOrder(trip, order)
  BY <1>3, <1>5, <1>6 DEF IsWindowOrder
<1> QED BY <1>7

-----------------------------------------------------------------------------
LEMMA OnceInit == Init => OnceInv
<1> SUFFICES ASSUME Init PROVE OnceInv
  OBVIOUS
<1>1. pc = "stops" /\ pending = TripsToPack(feed) /\ patterns = <<>>
  BY DEF Init
<1>2. PackedTrips = {}
  BY <1>1 DEF PackedTrips
<1>3. AllRuns = {}
  BY <1>2 DEF AllRuns
<1>4. PlacesIn(patterns) = {}
  BY <1>1 DEF PlacesIn
<1>5. Agree(patterns, AllRuns)
  BY <1>3, <1>4 DEF Agree
<1> QED BY <1>1, <1>5 DEF OnceInv, ExpandInv

(* While stops are read there are no runs, and none are due.               *)
LEMMA OnceStops ==
  ASSUME BuildInv, OnceInv, RegisterStop \/ StopsDone
  PROVE  OnceInv'
<1>1. /\ pc = "stops" /\ pc' \in {"stops", "trips"}
      /\ UNCHANGED <<feed, pending, patterns, packing>>
  BY DEF RegisterStop, StopsDone
<1>2. patterns = <<>> /\ pending = TripsToPack(feed)
  BY <1>1 DEF BuildInv, OnceInv
<1>3. TripsToPack(feed)' = TripsToPack(feed)
  BY <1>1 DEF TripsToPack, IncludedTrips, IncludedRoutes
<1>4. PackedTrips' = {}
  BY <1>1, <1>2, <1>3 DEF PackedTrips
<1>5. AllRuns' = {}
  BY <1>4 DEF AllRuns
<1>6. PlacesIn(patterns') = {}
  BY <1>1, <1>2 DEF PlacesIn
<1>7. Agree(patterns', AllRuns')
  BY <1>5, <1>6 DEF Agree
<1> QED BY <1>1, <1>2, <1>3, <1>7 DEF OnceInv, ExpandInv

(* A trip of a single stop.                                                *)
LEMMA OnceSkip ==
  ASSUME BuildInv, OnceInv, SkipTrip \/ Panic
  PROVE  OnceInv'
<1>1. /\ UNCHANGED <<feed, lookup, canonical, patterns, packing>>
      /\ pc = "trips" /\ pc' \in {"trips", "panicked"}
      /\ \E trip : pending' \in {pending, pending \ {trip}} /\ (pending' # pending => Len(TimesOf(feed, trip)) < 2)
  BY DEF SkipTrip, Panic
<1>2. PackedTrips' = PackedTrips
  <2>1. PICK trip : pending' \in {pending, pending \ {trip}}
                      /\ (pending' # pending => Len(TimesOf(feed, trip)) < 2)
    BY <1>1
  <2>2. Len(TimesOf(feed, trip)) \in Nat /\ TripsToPack(feed)' = TripsToPack(feed)
    BY <1>1, TimesFacts, DueStays DEF BuildInv, StationInv
  <2>3. \A t : TimesOf(feed, t)' = TimesOf(feed, t)
    BY <1>1 DEF TimesOf
  <2> QED BY <2>1, <2>2, <2>3 DEF PackedTrips
<1>3. \A trip : ~IsPacking(trip) /\ ~IsPacking(trip)'
  BY <1>1 DEF IsPacking
<1>4. \A trip : RunsDue(trip)' = RunsDue(trip)
  BY <1>1, <1>3, DueOfOthers
<1>5. Agree(patterns, AllRuns)'
  BY <1>1, <1>2, <1>4, AgreeStays
<1> QED BY <1>1, <1>5 DEF OnceInv, ExpandInv

(* From window to window: what is due stays, if the departures gone through
   of the trip that is expanded do.                                        *)
LEMMA OnceWindow ==
  ASSUME BuildInv, OnceInv, pc \in {"windows", "runs"},
         UNCHANGED <<feed, lookup, canonical, patterns, pending>>,
         pc' \in {"trips", "windows", "runs"},
         pc' # "trips" => packing'.trip = packing.trip /\ packing'.pattern = packing.pattern,
         \A dep \in Asked(packing.trip) :
           (IF pc' = "trips" THEN TRUE ELSE Passed(dep)') <=> Passed(dep)
  PROVE  Agree(patterns, AllRuns)'
<1>1. PackedTrips' = PackedTrips
  <2>1. \A t : TimesOf(feed, t)' = TimesOf(feed, t)
    BY DEF TimesOf
  <2> QED BY <2>1, DueStays DEF PackedTrips
<1>2. ASSUME NEW trip
      PROVE  RunsDue(trip)' = RunsDue(trip)
  <2>1. CASE trip # packing.trip
    <3>1. ~IsPacking(trip) /\ ~IsPacking(trip)'
      BY <2>1 DEF IsPacking
    <3> QED BY <3>1, DueOfOthers
  <2>2. CASE trip = packing.trip
    <3>1. Asked(trip)' = Asked(trip)
      BY DueStays
    <3>2. Due(trip) = {dep \in Asked(trip) : Passed(dep)}
      BY <2>2 DEF Due, IsPacking
    <3>3. Due(trip)' = {dep \in Asked(trip) : IF pc' = "trips" THEN TRUE ELSE Passed(dep)'}
      <4>1. CASE pc' = "trips"
        BY <3>1, <4>1 DEF Due, IsPacking
      <4>2. CASE pc' # "trips"
        <5>1. IsPacking(trip)'
          BY <2>2, <4>2 DEF IsPacking
        <5> QED BY <3>1, <4>2, <5>1 DEF Due
      <4> QED BY <4>1, <4>2
    <3>4. Due(trip)' = Due(trip)
      BY <2>2, <3>2, <3>3
    <3> QED BY <3>4, RunsDueStay
  <2> QED BY <2>1, <2>2
<1> QED BY <1>1, <1>2, AgreeStays

(* The window that is being gone through.                                  *)
LEMMA WindowFacts ==
  ASSUME BuildInv, OnceInv, pc \in {"windows", "runs"}
  PROVE  /\ packing.window \in Nat
         /\ \A n \in DOMAIN WindowsOf(feed, packing.trip) : n \in Nat
         /\ WindowsLeft =>
              /\ packing.window \in DOMAIN WindowsOf(feed, packing.trip)
              /\ Window \in [trip : Nat, start : Seconds, end : Seconds, headway : Word]
              /\ Window.headway = 0 => AskedBy(packing.trip, packing.window) = {}
              /\ \A dep \in AskedBy(packing.trip, packing.window) :
                   dep \in Int /\ dep \in StartsIn(Window)
                     /\ Window.start <= dep /\ dep < Window.end
<1>1. feed \in Feeds /\ packing.window \in Nat
  BY DEF BuildInv, StationInv, PackingInv
<1>2. \A n \in DOMAIN WindowsOf(feed, packing.trip) :
        /\ n \in Nat
        /\ WindowsOf(feed, packing.trip)[n]
             \in [trip : Nat, start : Seconds, end : Seconds, headway : Word]
  BY <1>1, WindowsFacts
<1>3. ASSUME WindowsLeft
      PROVE  /\ packing.window \in DOMAIN WindowsOf(feed, packing.trip)
             /\ Window \in [trip : Nat, start : Seconds, end : Seconds, headway : Word]
             /\ Window.headway = 0 => AskedBy(packing.trip, packing.window) = {}
             /\ \A dep \in AskedBy(packing.trip, packing.window) :
                  dep \in Int /\ dep \in StartsIn(Window)
                    /\ Window.start <= dep /\ dep < Window.end
  <2>1. packing.window \in DOMAIN WindowsOf(feed, packing.trip)
    BY <1>3 DEF WindowsLeft
  <2>2. Window \in [trip : Nat, start : Seconds, end : Seconds, headway : Word]
    BY <1>2, <2>1 DEF Window
  <2>3. AskedBy(packing.trip, packing.window)
          = IF Window.headway > 0 THEN StartsIn(Window) ELSE {}
    BY DEF AskedBy, Window
  <2>4. \A dep \in StartsIn(Window) : dep \in Int /\ Window.start <= dep /\ dep < Window.end
    BY <2>2, StartsAre
  <2>5. Window.headway = 0 => AskedBy(packing.trip, packing.window) = {}
    BY <2>3
  <2>6. \A dep \in AskedBy(packing.trip, packing.window) : dep \in StartsIn(Window)
    BY <2>3
  <2> QED BY <2>1, <2>2, <2>4, <2>5, <2>6
<1> QED BY <1>1, <1>2, <1>3

(* What stays of a trip that is being expanded.                            *)
LEMMA ExpandStays ==
  ASSUME OnceInv, pc \in {"windows", "runs"},
         UNCHANGED <<feed, lookup, canonical, patterns, pending>>,
         packing'.trip = packing.trip, packing'.pattern = packing.pattern
  PROVE  /\ packing'.trip \in PackedTrips'
         /\ WindowsOf(feed, packing.trip)' # <<>>
         /\ patterns'[packing'.pattern].route = TripOf(feed, packing.trip)'.route
         /\ patterns'[packing'.pattern].stops = StopsOf(packing.trip)'
<1>1. PackedTrips' = PackedTrips
  <2>1. \A t : TimesOf(feed, t)' = TimesOf(feed, t)
    BY DEF TimesOf
  <2> QED BY <2>1, DueStays DEF PackedTrips
<1>2. /\ packing.trip \in PackedTrips
      /\ WindowsOf(feed, packing.trip) # <<>>
      /\ patterns[packing.pattern].route = TripOf(feed, packing.trip).route
      /\ patterns[packing.pattern].stops = StopsOf(packing.trip)
  BY DEF OnceInv, ExpandInv
<1>3. /\ WindowsOf(feed, packing.trip)' = WindowsOf(feed, packing.trip)
      /\ TripOf(feed, packing.trip)' = TripOf(feed, packing.trip)
      /\ StopsOf(packing.trip)' = StopsOf(packing.trip)
  <2>1. /\ \A trip : WindowsOf(feed, trip)' = WindowsOf(feed, trip)
        /\ \A trip : TripOf(feed, trip)' = TripOf(feed, trip)
        /\ \A trip : StopsOf(trip)' = StopsOf(trip)
    BY DueStays
  <2>2. WindowsOf(feed, packing.trip)' = WindowsOf(feed, packing.trip)
    BY DEF WindowsOf
  <2> QED BY <2>1, <2>2
<1> QED BY <1>1, <1>2, <1>3

(* A window is opened, skipped or closed, or there is none left: what is due
   stays.                                                                  *)
LEMMA OnceOpen ==
  ASSUME BuildInv, OnceInv, OpenWindow
  PROVE  OnceInv'
<1>1. /\ UNCHANGED <<feed, lookup, canonical, patterns, pending>>
      /\ pc = "windows" /\ pc' = "runs" /\ WindowsLeft
      /\ packing' = [packing EXCEPT !.dep = Window.start]
  BY DEF OpenWindow
<1>2. /\ packing'.trip = packing.trip /\ packing'.pattern = packing.pattern
      /\ packing'.window = packing.window /\ packing'.dep = Window.start
  BY <1>1 DEF BuildInv, PackingInv
<1>3. /\ packing.window \in DOMAIN WindowsOf(feed, packing.trip)
      /\ Window.start \in Int /\ Window.headway \in Int
      /\ \A n \in DOMAIN WindowsOf(feed, packing.trip) : n \in Nat
      /\ \A dep \in AskedBy(packing.trip, packing.window) : dep \in Int /\ Window.start <= dep
  BY <1>1, WindowFacts, StartsAre
<1>4. /\ WindowsOf(feed, packing.trip)' = WindowsOf(feed, packing.trip)
      /\ \A n : AskedBy(packing.trip, n)' = AskedBy(packing.trip, n)
      /\ Window' = Window
  <2>1. WindowsOf(feed, packing.trip)' = WindowsOf(feed, packing.trip)
    BY <1>1, <1>2 DEF WindowsOf
  <2>2. \A n : AskedBy(packing.trip, n)' = AskedBy(packing.trip, n)
    BY <2>1 DEF AskedBy
  <2> QED BY <1>2, <2>1, <2>2 DEF Window
<1>5. \A dep : Passed(dep)' <=> Passed(dep)
  <2> TAKE dep
  <2>1. Passed(dep) <=> \E n \in DOMAIN WindowsOf(feed, packing.trip) :
                          dep \in AskedBy(packing.trip, n) /\ n < packing.window
    BY <1>1 DEF Passed
  <2>2. Passed(dep)' <=> \E n \in DOMAIN WindowsOf(feed, packing.trip) :
                           /\ dep \in AskedBy(packing.trip, n)
                           /\ n < packing.window \/ (n = packing.window /\ dep < Window.start)
    BY <1>1, <1>2, <1>4 DEF Passed
  <2>3. \A n \in DOMAIN WindowsOf(feed, packing.trip) :
          dep \in AskedBy(packing.trip, n) /\ n = packing.window => ~(dep < Window.start)
    BY <1>3
  <2> QED BY <2>1, <2>2, <2>3
<1>6. Agree(patterns, AllRuns)'
  BY <1>1, <1>2, <1>5, OnceWindow
<1>7. ExpandInv'
  <2>1. packing'.window >= 1
    BY <1>1, <1>2 DEF OnceInv, ExpandInv
  <2>2. \E k \in Nat : packing'.dep = Window'.start + (k * Window'.headway)
    <3>1. Window.start = Window.start + (0 * Window.headway)
      BY <1>3
    <3> QED BY <1>2, <1>4, <3>1
  <2>3. /\ packing'.trip \in PackedTrips'
        /\ WindowsOf(feed, packing.trip)' # <<>>
        /\ patterns'[packing'.pattern].route = TripOf(feed, packing.trip)'.route
        /\ patterns'[packing'.pattern].stops = StopsOf(packing.trip)'
    BY <1>1, <1>2, ExpandStays
  <2> QED BY <2>1, <2>2, <2>3 DEF ExpandInv
<1> QED BY <1>1, <1>6, <1>7 DEF OnceInv

LEMMA OnceClose ==
  ASSUME BuildInv, OnceInv, SkipWindow \/ CloseWindow
  PROVE  OnceInv'
<1>1. /\ UNCHANGED <<feed, lookup, canonical, patterns, pending>>
      /\ pc \in {"windows", "runs"} /\ pc' = "windows" /\ WindowsLeft
      /\ packing' = [packing EXCEPT !.window = @ + 1]
      /\ pc = "windows" => Window.headway = 0
      /\ pc = "runs" => packing.dep >= Window.end
  BY DEF SkipWindow, CloseWindow, BuildInv, PackingInv
<1>2. /\ packing'.trip = packing.trip /\ packing'.pattern = packing.pattern
      /\ packing'.window = packing.window + 1
  BY <1>1 DEF BuildInv, PackingInv
<1>3. /\ packing.window \in DOMAIN WindowsOf(feed, packing.trip)
      /\ packing.window \in Nat
      /\ \A n \in DOMAIN WindowsOf(feed, packing.trip) : n \in Nat
      /\ Window.headway = 0 => AskedBy(packing.trip, packing.window) = {}
      /\ \A dep \in AskedBy(packing.trip, packing.window) : dep \in Int /\ dep < Window.end
      /\ Window.end \in Int
  BY <1>1, WindowFacts, StartsAre
<1>4. /\ WindowsOf(feed, packing.trip)' = WindowsOf(feed, packing.trip)
      /\ \A n : AskedBy(packing.trip, n)' = AskedBy(packing.trip, n)
  <2>1. WindowsOf(feed, packing.trip)' = WindowsOf(feed, packing.trip)
    BY <1>1, <1>2 DEF WindowsOf
  <2> QED BY <2>1 DEF AskedBy
<1>5. packing.dep \in Int
  BY SizesAssumption DEF BuildInv, PackingInv, Seconds
<1>6. \A dep : Passed(dep)' <=> Passed(dep)
  <2> TAKE dep
  <2>1. Passed(dep)' <=> \E n \in DOMAIN WindowsOf(feed, packing.trip) :
                           dep \in AskedBy(packing.trip, n) /\ n < packing.window + 1
    BY <1>1, <1>2, <1>4 DEF Passed
  <2>2. Passed(dep) <=> \E n \in DOMAIN WindowsOf(feed, packing.trip) :
                          /\ dep \in AskedBy(packing.trip, n)
                          /\ \/ n < packing.window
                             \/ pc = "runs" /\ n = packing.window /\ dep < packing.dep
    BY DEF Passed
  <2>3. \A n \in DOMAIN WindowsOf(feed, packing.trip) :
          n < packing.window + 1 <=> n < packing.window \/ n = packing.window
    BY <1>3
  <2>4. dep \in AskedBy(packing.trip, packing.window) => pc = "runs" /\ dep < packing.dep
    BY <1>1, <1>3, <1>5
  <2> QED BY <2>1, <2>2, <2>3, <2>4
<1>7. Agree(patterns, AllRuns)'
  BY <1>1, <1>2, <1>6, OnceWindow
<1>8. ExpandInv'
  <2>1. packing'.window >= 1
    BY <1>2, <1>3
  <2>2. /\ packing'.trip \in PackedTrips'
        /\ WindowsOf(feed, packing.trip)' # <<>>
        /\ patterns'[packing'.pattern].route = TripOf(feed, packing.trip)'.route
        /\ patterns'[packing'.pattern].stops = StopsOf(packing.trip)'
    BY <1>1, <1>2, ExpandStays
  <2> QED BY <1>1, <2>1, <2>2 DEF ExpandInv
<1> QED BY <1>1, <1>7, <1>8 DEF OnceInv

LEMMA OnceDone ==
  ASSUME BuildInv, OnceInv, WindowsDone
  PROVE  OnceInv'
<1>1. /\ UNCHANGED <<feed, lookup, canonical, patterns, pending>>
      /\ pc = "windows" /\ pc' = "trips" /\ ~WindowsLeft
  BY DEF WindowsDone
<1>2. packing.window \in Nat /\ packing.window >= 1
  BY <1>1 DEF BuildInv, PackingInv, OnceInv, ExpandInv
<1>3. \A dep \in Asked(packing.trip) : Passed(dep)
  <2> TAKE dep \in Asked(packing.trip)
  <2>1. PICK n \in DOMAIN WindowsOf(feed, packing.trip) : dep \in AskedBy(packing.trip, n)
    BY DEF Asked
  <2>2. n < packing.window
    <3>1. PICK m \in Nat : DOMAIN WindowsOf(feed, packing.trip) = 1 .. m
      BY WindowsAreRows DEF BuildInv, StationInv, IsWindowOrder
    <3>2. packing.window \notin 1 .. m /\ n \in 1 .. m
      BY <1>1, <2>1, <3>1 DEF WindowsLeft
    <3> QED BY <1>2, <3>1, <3>2
  <2> QED BY <2>1, <2>2 DEF Passed
<1>4. \A dep \in Asked(packing.trip) : TRUE <=> Passed(dep)
  BY <1>3
<1>5. Agree(patterns, AllRuns)'
  BY <1>1, <1>4, OnceWindow
<1> QED BY <1>1, <1>5 DEF OnceInv, ExpandInv

-----------------------------------------------------------------------------
(* The runs due of a trip are told apart by their ids.                     *)
LEMMA IdsOfRuns ==
  ASSUME NEW trip, NEW q \in RunsDue(trip)
  PROVE  /\ q.run.id[1] = trip
         /\ WindowsOf(feed, trip) # <<>> =>
              \E d \in Due(trip) : q = Repeated(trip, d) /\ q.run.id = <<trip, d>>
<1>1. \A id, offset : RunDue(trip, id, offset).run.id = id
  BY DEF RunDue, Run
<1>2. CASE WindowsOf(feed, trip) = <<>>
  <2>1. q = RunDue(trip, <<trip>>, 0)
    BY <1>2 DEF RunsDue
  <2> QED BY <1>1, <1>2, <2>1
<1>3. CASE WindowsOf(feed, trip) # <<>>
  <2>1. PICK d \in Due(trip) : q = Repeated(trip, d)
    BY <1>3 DEF RunsDue
  <2>2. q.run.id = <<trip, d>>
    BY <1>1, <2>1 DEF Repeated
  <2> QED BY <1>3, <2>1, <2>2
<1> QED BY <1>2, <1>3

(* No other window of a definite trip asks for the departure, and neither it
   nor the next is wrapped.                                                *)
LEMMA NextDeparture ==
  ASSUME BuildInv, OnceInv, FeedIsDefinite, pc = "runs", packing.dep < Window.end
  PROVE  /\ packing.dep \in AskedBy(packing.trip, packing.window)
         /\ \A n \in DOMAIN WindowsOf(feed, packing.trip) :
              packing.dep \in AskedBy(packing.trip, n) => n = packing.window
         /\ Wrapped(packing.dep + Wrapped(Window.headway)) = packing.dep + Window.headway
         /\ \E k \in Nat : packing.dep + Window.headway = Window.start + (k * Window.headway)
         /\ \A d \in AskedBy(packing.trip, packing.window) :
              d < packing.dep + Window.headway <=> d < packing.dep \/ d = packing.dep
<1> DEFINE trip == packing.trip
           w    == packing.window
           dep  == packing.dep
           windows == WindowsOf(feed, trip)
<1>1. /\ WindowsLeft /\ Window.headway > 0 /\ dep \in Seconds
      /\ trip \in TripsToPack(feed)
  BY DEF BuildInv, PackingInv
<1>2. /\ w \in DOMAIN windows
      /\ Window \in [trip : Nat, start : Seconds, end : Seconds, headway : Word]
  BY <1>1, WindowFacts
<1>3. dep \in Int /\ Window.headway \in Int
  <2>1. Window.headway \in Int
    BY <1>2, StartsAre
  <2> QED BY <1>1, <2>1, SizesAssumption DEF Seconds
<1>4. \E k \in Nat : dep = Window.start + (k * Window.headway)
  BY DEF OnceInv, ExpandInv
<1>5. /\ dep \in StartsIn(Window)
      /\ \E k \in Nat : dep + Window.headway = Window.start + (k * Window.headway)
      /\ \A d \in StartsIn(Window) : d < dep + Window.headway <=> d < dep \/ d = dep
  BY <1>1, <1>2, <1>3, <1>4, StartsFollow
<1>6. AskedBy(trip, w) = StartsIn(Window)
  BY <1>1 DEF AskedBy, Window
<1>7. PICK order : IsWindowOrder(trip, order)
  BY WindowsAreRows DEF BuildInv, StationInv
<1>8. ASSUME NEW n \in DOMAIN windows, dep \in AskedBy(trip, n)
      PROVE  /\ order[n] \in RepeatsOf(trip)
             /\ windows[n] = feed.frequencies[order[n]]
             /\ dep \in StartsIn(feed.frequencies[order[n]])
  <2>1. order[n] \in WindowRows(trip) /\ windows[n] = feed.frequencies[order[n]]
    BY <1>7 DEF IsWindowOrder
  <2>2. windows[n].headway > 0 /\ dep \in StartsIn(windows[n])
    BY <1>8 DEF AskedBy
  <2> QED BY <2>1, <2>2 DEF RepeatsOf, WindowRows
<1>9. IsDefinite(trip)
  BY <1>1 DEF FeedIsDefinite
<1>10. \A n \in DOMAIN windows : dep \in AskedBy(trip, n) => n = w
  <2> SUFFICES ASSUME NEW n \in DOMAIN windows, dep \in AskedBy(trip, n)
               PROVE  n = w
    OBVIOUS
  <2>1. /\ order[n] \in RepeatsOf(trip) /\ order[w] \in RepeatsOf(trip)
        /\ dep \in StartsIn(feed.frequencies[order[n]])
        /\ dep \in StartsIn(feed.frequencies[order[w]])
    BY <1>2, <1>5, <1>6, <1>8
  <2>2. order[n] = order[w]
    BY <1>9, <2>1 DEF IsDefinite
  <2> QED BY <1>2, <1>7, <2>2 DEF IsWindowOrder
<1>11. Wrapped(dep + Wrapped(Window.headway)) = dep + Window.headway
  <2>1. /\ order[w] \in RepeatsOf(trip) /\ Window = feed.frequencies[order[w]]
        /\ dep \in StartsIn(feed.frequencies[order[w]])
    BY <1>2, <1>5, <1>6, <1>8 DEF Window
  <2>2. {Window.headway, dep + Window.headway} \subseteq Seconds
    BY <1>9, <2>1 DEF IsDefinite
  <2>3. Wrapped(Window.headway) = Window.headway
    BY <1>3, <2>2, WrappedFacts
  <2> QED BY <1>3, <2>2, <2>3, WrappedFacts
<1> QED BY <1>5, <1>6, <1>10, <1>11

(* The departure becomes due as its run is added.                          *)
LEMMA DueWithNext ==
  ASSUME BuildInv, OnceInv, FeedIsDefinite, AddRun
  PROVE  /\ UNCHANGED <<feed, pc, lookup, canonical, pending>>
         /\ packing'.trip = packing.trip /\ packing'.pattern = packing.pattern
         /\ packing'.window = packing.window
         /\ packing'.dep = packing.dep + Window.headway
         /\ packing.dep \notin Due(packing.trip)
         /\ Due(packing.trip)' = Due(packing.trip) \cup {packing.dep}
<1> DEFINE trip == packing.trip
           w    == packing.window
           dep  == packing.dep
           next == dep + Window.headway
<1>1. /\ UNCHANGED <<feed, pc, lookup, canonical, pending>>
      /\ pc = "runs" /\ dep < Window.end
      /\ packing' = [packing EXCEPT !.dep = Wrapped(@ + Wrapped(Window.headway))]
  BY DEF AddRun
<1>2. /\ dep \in AskedBy(trip, w)
      /\ \A n \in DOMAIN WindowsOf(feed, trip) : dep \in AskedBy(trip, n) => n = w
      /\ Wrapped(dep + Wrapped(Window.headway)) = next
      /\ \A d \in AskedBy(trip, w) : d < next <=> d < dep \/ d = dep
  BY <1>1, NextDeparture
<1>3. /\ packing'.trip = trip /\ packing'.pattern = packing.pattern
      /\ packing'.window = w /\ packing'.dep = next
  BY <1>1, <1>2 DEF BuildInv, PackingInv
<1>4. /\ w \in DOMAIN WindowsOf(feed, trip) /\ w \in Nat /\ dep \in Int
      /\ \A n \in DOMAIN WindowsOf(feed, trip) : n \in Nat
  <2>1. WindowsLeft
    BY <1>1 DEF BuildInv, PackingInv
  <2> QED BY <1>1, <1>2, <2>1, WindowFacts
<1>5. /\ WindowsOf(feed, packing.trip)' = WindowsOf(feed, trip)
      /\ \A n : AskedBy(packing.trip, n)' = AskedBy(trip, n)
      /\ Asked(packing.trip)' = Asked(trip)
  <2>1. WindowsOf(feed, packing.trip)' = WindowsOf(feed, trip)
    BY <1>1, <1>3 DEF WindowsOf
  <2>2. \A n : AskedBy(packing.trip, n)' = AskedBy(trip, n)
    BY <2>1 DEF AskedBy
  <2> QED BY <2>1, <2>2 DEF Asked
<1>6. IsPacking(trip) /\ IsPacking(packing.trip)'
  BY <1>1, <1>3 DEF IsPacking
<1>7. \A d : Passed(d) <=> \E n \in DOMAIN WindowsOf(feed, trip) :
                             d \in AskedBy(trip, n) /\ (n < w \/ (n = w /\ d < dep))
  BY <1>1 DEF Passed
<1>8. \A d : Passed(d)' <=> \E n \in DOMAIN WindowsOf(feed, trip) :
                              d \in AskedBy(trip, n) /\ (n < w \/ (n = w /\ d < next))
  BY <1>1, <1>3, <1>5 DEF Passed
<1> HIDE DEF trip, w, dep, next
<1>9. \A d : Passed(d)' <=> Passed(d) \/ d = dep
  <2> TAKE d
  <2>1. \A n \in DOMAIN WindowsOf(feed, trip) :
          d \in AskedBy(trip, n) /\ n = w => (d < next <=> d < dep \/ d = dep)
    BY <1>2
  <2> QED BY <1>2, <1>4, <1>7, <1>8, <2>1
<1>10. ~Passed(dep)
  BY <1>2, <1>4, <1>7
<1>11. dep \in Asked(trip)
  BY <1>2, <1>4 DEF Asked
<1>12. Due(trip) = {d \in Asked(trip) : Passed(d)}
  BY <1>6 DEF Due
<1>13. Due(packing.trip)' = {d \in Asked(trip) : Passed(d)'}
  BY <1>5, <1>6 DEF Due
<1>14. dep \notin Due(trip) /\ Due(packing.trip)' = Due(trip) \cup {dep}
  BY <1>9, <1>10, <1>11, <1>12, <1>13
<1> QED BY <1>1, <1>3, <1>14 DEF trip, w, dep, next

LEMMA OnceAddRun ==
  ASSUME BuildInv, OnceInv, FeedIsDefinite, AddRun
  PROVE  OnceInv'
<1> DEFINE trip == packing.trip
           p    == packing.pattern
           dep  == packing.dep
           run  == Run(trip, <<trip, dep>>, dep - StartOf(trip))
<1>1. /\ UNCHANGED <<feed, pc, lookup, canonical, pending>>
      /\ packing'.trip = trip /\ packing'.pattern = p
      /\ packing'.window = packing.window
      /\ packing'.dep = dep + Window.headway
      /\ dep \notin Due(trip)
      /\ Due(packing.trip)' = Due(trip) \cup {dep}
  BY DueWithNext
<1>2. pc = "runs" /\ dep < Window.end /\ patterns' = WithRun(patterns, p, run)
  BY DEF AddRun, WithRun, BaseStart, StartOf
<1>3. /\ ArePatterns(feed, DOMAIN stopIds, patterns)
      /\ p \in DOMAIN patterns
  BY <1>2 DEF BuildInv, PackingInv, ArePatterns
<1>4. /\ trip \in PackedTrips /\ WindowsOf(feed, trip) # <<>> /\ packing.window >= 1
      /\ patterns[p].route = TripOf(feed, trip).route
      /\ patterns[p].stops = StopsOf(trip)
      /\ Agree(patterns, AllRuns)
  BY <1>2 DEF OnceInv, ExpandInv
<1>5. /\ \A t : WindowsOf(feed, t)' = WindowsOf(feed, t)
      /\ \A t : StopsOf(t)' = StopsOf(t) /\ TripOf(feed, t)' = TripOf(feed, t)
      /\ \A t, d : Repeated(t, d)' = Repeated(t, d)
      /\ PackedTrips' = PackedTrips
  <2>1. \A t : TimesOf(feed, t)' = TimesOf(feed, t)
    BY <1>1 DEF TimesOf
  <2> QED BY <1>1, <2>1, DueStays DEF PackedTrips
<1>6. [run |-> run, route |-> patterns[p].route, stops |-> patterns[p].stops]
        = Repeated(trip, dep)
  BY <1>4 DEF Repeated, RunDue
<1>7. \A q \in AllRuns : q.run.id # run.id
  <2> SUFFICES ASSUME NEW t \in PackedTrips, NEW q \in RunsDue(t)
               PROVE  q.run.id # <<trip, dep>>
    BY DEF AllRuns, Run
  <2>1. CASE t # trip
    BY <2>1, IdsOfRuns
  <2>2. CASE t = trip
    <3>1. PICK d \in Due(trip) : q.run.id = <<trip, d>>
      BY <1>4, <2>2, IdsOfRuns
    <3>2. d # dep
      BY <1>1
    <3> QED BY <3>1, <3>2
  <2> QED BY <2>1, <2>2
<1>8. Agree(patterns', AllRuns \cup {Repeated(trip, dep)})
  <2> HIDE DEF run, p
  <2> QED BY <1>2, <1>3, <1>4, <1>6, <1>7, AgreeWithRun
<1>9. \A t \in PackedTrips : RunsDue(t)' = IF t = trip THEN RunsDue(t) \cup {Repeated(trip, dep)}
                                           ELSE RunsDue(t)
  <2> TAKE t \in PackedTrips
  <2>1. CASE t # trip
    <3>1. ~IsPacking(t) /\ ~IsPacking(t)'
      BY <1>1, <2>1 DEF IsPacking
    <3> QED BY <1>1, <2>1, <3>1, DueOfOthers
  <2>2. CASE t = trip
    <3>1. RunsDue(t) = {Repeated(t, d) : d \in Due(t)}
      BY <1>4, <2>2 DEF RunsDue
    <3>2. Due(t)' = Due(t) \cup {dep}
      BY <1>1, <2>2 DEF Due, IsPacking
    <3>3. RunsDue(t)' = {Repeated(t, d) : d \in Due(t)'}
      BY <1>4, <1>5, <2>2 DEF RunsDue
    <3> QED BY <2>2, <3>1, <3>2, <3>3
  <2> QED BY <2>1, <2>2
<1>10. AllRuns' = AllRuns \cup {Repeated(trip, dep)}
  <2> HIDE DEF trip, dep
  <2>1. AllRuns' = UNION {RunsDue(t)' : t \in PackedTrips}
    BY <1>5 DEF AllRuns
  <2>2. \A q : q \in AllRuns' <=> \E t \in PackedTrips : q \in RunsDue(t)'
    BY <2>1
  <2>3. \A q : q \in AllRuns <=> \E t \in PackedTrips : q \in RunsDue(t)
    BY DEF AllRuns
  <2>4. \A q : q \in AllRuns' <=> q \in AllRuns \/ q = Repeated(trip, dep)
    BY <1>4, <1>9, <2>2, <2>3
  <2> QED BY <2>4
<1>11. Agree(patterns, AllRuns)'
  BY <1>8, <1>10
<1>12. ExpandInv'
  <2>1. \E k \in Nat : packing'.dep = Window'.start + (k * Window'.headway)
    <3>1. Window' = Window
      <4>1. WindowsOf(feed, packing.trip)' = WindowsOf(feed, packing.trip)
        BY <1>1 DEF WindowsOf
      <4> QED BY <1>1, <4>1 DEF Window
    <3>2. PICK k \in Nat : dep + Window.headway = Window.start + (k * Window.headway)
      BY <1>2, NextDeparture
    <3>3. packing'.dep = Window'.start + (k * Window'.headway)
      BY <1>1, <3>1, <3>2
    <3> QED BY <3>3
  <2>2. patterns'[p].route = patterns[p].route /\ patterns'[p].stops = patterns[p].stops
    <3> DEFINE x == [patterns[p] EXCEPT !.trips = Append(@, run)]
    <3>1. IsTable(patterns) /\ DOMAIN patterns[p] = {"route", "stops", "mode", "trips"}
      BY <1>3 DEF ArePatterns, IsPattern
    <3>2. x.route = patterns[p].route /\ x.stops = patterns[p].stops
      BY <3>1
    <3>3. patterns' = [patterns EXCEPT ![p] = x]
      BY <1>2 DEF WithRun
    <3> HIDE DEF x, p
    <3> QED BY <1>3, <3>1, <3>2, <3>3, ReplaceRow
  <2>3. /\ WindowsOf(feed, packing.trip)' # <<>>
        /\ TripOf(feed, packing.trip)' = TripOf(feed, trip)
        /\ StopsOf(packing.trip)' = StopsOf(trip)
    <3>1. WindowsOf(feed, packing.trip)' = WindowsOf(feed, trip)
      BY <1>1 DEF WindowsOf
    <3> QED BY <1>1, <1>4, <1>5, <3>1
  <2> QED BY <1>1, <1>4, <1>5, <2>1, <2>2, <2>3 DEF ExpandInv
<1> QED BY <1>1, <1>2, <1>11, <1>12 DEF OnceInv

(* A trip is packed: as its rows say, or none of its departures is due yet. *)
LEMMA OncePackTrip ==
  ASSUME BuildInv, OnceInv, PackTrip
  PROVE  OnceInv'
<1>1. /\ UNCHANGED <<feed, lookup, canonical>> /\ pc = "trips"
      /\ pending \subseteq TripsToPack(feed)
      /\ Agree(patterns, AllRuns)
      /\ IsTable(patterns)
  BY DEF PackTrip, BuildInv, OnceInv
<1>2. PICK trip \in pending : /\ Len(TimesOf(feed, trip)) >= 2
                              /\ pending' = pending \ {trip}
                              /\ \E t, p : ChosenPattern(trip, t, p) /\ PackedIn(trip, t, p)
  BY PackChoice
<1>3. PICK t, p : ChosenPattern(trip, t, p) /\ PackedIn(trip, t, p)
  BY <1>2
<1>4. /\ \A s : WindowsOf(feed, s)' = WindowsOf(feed, s)
      /\ \A s : StopsOf(s)' = StopsOf(s) /\ TripOf(feed, s)' = TripOf(feed, s)
      /\ \A s, d : Repeated(s, d)' = Repeated(s, d)
      /\ \A s, id, offset : RunDue(s, id, offset)' = RunDue(s, id, offset)
      /\ \A s : Asked(s)' = Asked(s)
  BY <1>1, DueStays
<1>5. trip \notin PackedTrips /\ PackedTrips' = PackedTrips \cup {trip}
  <2>1. \A s : TimesOf(feed, s)' = TimesOf(feed, s)
    BY <1>1 DEF TimesOf
  <2>2. TripsToPack(feed)' = TripsToPack(feed)
    BY <1>1, DueStays
  <2> QED BY <1>1, <1>2, <2>1, <2>2 DEF PackedTrips
<1>6. \A s : ~IsPacking(s)
  BY <1>1 DEF IsPacking
<1>7. Agree(t, AllRuns)
  <2>1. CASE t = patterns
    BY <1>1, <2>1
  <2>2. CASE t # patterns
    <3>1. PICK new : new.trips = <<>> /\ t = Append(patterns, new)
      BY <1>3, <2>2 DEF ChosenPattern
    <3> QED BY <1>1, <3>1, AgreeWithPattern
  <2> QED BY <2>1, <2>2
<1>8. /\ ArePatterns(feed, DOMAIN stopIds, t) /\ p \in DOMAIN t
      /\ t[p].route = TripOf(feed, trip).route /\ t[p].stops = StopsOf(trip)
  BY <1>3 DEF ChosenPattern
<1>9. \A q \in AllRuns : q.run.id[1] # trip
  <2>1. \A q : q \in AllRuns <=> \E s \in PackedTrips : q \in RunsDue(s)
    BY DEF AllRuns
  <2> QED BY <1>5, <2>1, IdsOfRuns
<1>10. CASE WindowsOf(feed, trip) = <<>>
  <2> DEFINE run == Run(trip, <<trip>>, 0)
  <2>1. pc' = "trips" /\ packing' = packing /\ patterns' = WithRun(t, p, run)
    BY <1>1, <1>3, <1>10 DEF PackedIn
  <2>2. [run |-> run, route |-> t[p].route, stops |-> t[p].stops] = RunDue(trip, <<trip>>, 0)
    BY <1>8 DEF RunDue
  <2>3. \A q \in AllRuns : q.run.id # run.id
    <3>1. run.id = <<trip>>
      BY DEF Run
    <3>2. <<trip>>[1] = trip
      OBVIOUS
    <3> HIDE DEF run
    <3> QED BY <1>9, <3>1, <3>2
  <2>4. Agree(patterns', AllRuns \cup {RunDue(trip, <<trip>>, 0)})
    <3> HIDE DEF run
    <3> QED BY <1>7, <1>8, <2>1, <2>2, <2>3, AgreeWithRun
  <2>5. \A s \in PackedTrips : RunsDue(s)' = RunsDue(s)
    <3>1. \A s : ~IsPacking(s)'
      BY <2>1 DEF IsPacking
    <3> QED BY <1>1, <1>6, <3>1, DueOfOthers
  <2>6. RunsDue(trip)' = {RunDue(trip, <<trip>>, 0)}
    BY <1>4, <1>10 DEF RunsDue
  <2>7. AllRuns' = AllRuns \cup {RunDue(trip, <<trip>>, 0)}
    <3>1. \A q : q \in AllRuns' <=> \E s \in PackedTrips' : q \in RunsDue(s)'
      BY DEF AllRuns
    <3>2. \A q : q \in AllRuns <=> \E s \in PackedTrips : q \in RunsDue(s)
      BY DEF AllRuns
    <3> QED BY <1>5, <2>5, <2>6, <3>1, <3>2
  <2>8. Agree(patterns, AllRuns)'
    BY <2>4, <2>7
  <2> QED BY <2>1, <2>8 DEF OnceInv, ExpandInv
<1>11. CASE WindowsOf(feed, trip) # <<>>
  <2>1. /\ patterns' = t /\ pc' = "windows"
        /\ packing' = [trip |-> trip, pattern |-> p, window |-> 1, dep |-> 0]
    BY <1>3, <1>11 DEF PackedIn
  <2>2. packing'.trip = trip /\ packing'.pattern = p /\ packing'.window = 1
    BY <2>1
  <2>3. \A s \in PackedTrips : RunsDue(s)' = RunsDue(s)
    <3>1. \A s \in PackedTrips : ~IsPacking(s)'
      BY <1>5, <2>2 DEF IsPacking
    <3> QED BY <1>1, <1>6, <3>1, DueOfOthers
  <2>4. RunsDue(trip)' = {}
    <3>1. \A d : ~Passed(d)'
      <4> SUFFICES ASSUME NEW d, NEW n \in DOMAIN WindowsOf(feed, packing.trip)'
                   PROVE  ~(n < packing'.window)
        BY <2>1 DEF Passed
      <4>1. n \in DOMAIN WindowsOf(feed, trip)
        BY <1>1, <2>2 DEF WindowsOf
      <4>2. PICK m \in Nat : DOMAIN WindowsOf(feed, trip) = 1 .. m
        BY WindowsAreRows DEF BuildInv, StationInv, IsWindowOrder
      <4> QED BY <2>2, <4>1, <4>2
    <3>2. Due(trip)' = {}
      BY <2>1, <2>2, <3>1 DEF Due, IsPacking
    <3> QED BY <1>4, <1>11, <3>2 DEF RunsDue
  <2>5. AllRuns' = AllRuns
    <3>1. \A q : q \in AllRuns' <=> \E s \in PackedTrips' : q \in RunsDue(s)'
      BY DEF AllRuns
    <3>2. \A q : q \in AllRuns <=> \E s \in PackedTrips : q \in RunsDue(s)
      BY DEF AllRuns
    <3>3. \A q : q \in AllRuns' <=> q \in AllRuns
      BY <1>5, <2>3, <2>4, <3>1, <3>2
    <3> QED BY <3>3
  <2>6. Agree(patterns, AllRuns)'
    BY <1>7, <2>1, <2>5
  <2>7. ExpandInv'
    <3>1. /\ WindowsOf(feed, packing.trip)' = WindowsOf(feed, trip)
          /\ TripOf(feed, packing.trip)' = TripOf(feed, trip)
          /\ StopsOf(packing.trip)' = StopsOf(trip)
      <4>1. WindowsOf(feed, packing.trip)' = WindowsOf(feed, trip)
        BY <1>1, <2>2 DEF WindowsOf
      <4> QED BY <1>4, <2>2, <4>1
    <3> QED BY <1>5, <1>8, <1>11, <2>1, <2>2, <3>1 DEF ExpandInv
  <2> QED BY <2>1, <2>6, <2>7 DEF OnceInv
<1> QED BY <1>10, <1>11

(* The end.                                                                *)
LEMMA OnceSort ==
  ASSUME BuildInv, OnceInv, SortTrips
  PROVE  OnceInv'
<1>1. /\ UNCHANGED <<feed, lookup, canonical, pending>>
      /\ pc = "trips" /\ pc' = "done" /\ pending = {}
      /\ patterns' = [p \in DOMAIN patterns |-> [patterns[p] EXCEPT !.trips = Sorted(@)]]
  BY DEF SortTrips
<1>2. ArePatterns(feed, DOMAIN stopIds, patterns) /\ Agree(patterns, AllRuns)
  BY DEF BuildInv, ArePatterns, OnceInv
<1>3. Agree(patterns', AllRuns)
  BY <1>1, <1>2, AgreeSorted
<1>4. AllRuns' = AllRuns
  <2>1. \A s : ~IsPacking(s) /\ ~IsPacking(s)'
    BY <1>1 DEF IsPacking
  <2>2. \A s : RunsDue(s)' = RunsDue(s)
    BY <1>1, <2>1, DueOfOthers
  <2>3. PackedTrips' = PackedTrips
    <3>1. \A s : TimesOf(feed, s)' = TimesOf(feed, s)
      BY <1>1 DEF TimesOf
    <3> QED BY <1>1, <3>1, DueStays DEF PackedTrips
  <2> QED BY <2>2, <2>3 DEF AllRuns
<1> QED BY <1>1, <1>3, <1>4 DEF OnceInv, ExpandInv

LEMMA FeedStays ==
  ASSUME [Next]_vars
  PROVE  /\ UNCHANGED feed
         /\ ~RegisterStop => UNCHANGED <<row, canonical>>
<1>1. CASE UNCHANGED vars
  BY <1>1 DEF vars
<1>2. CASE RegisterStop
  BY <1>2 DEF RegisterStop
<1>3. CASE StopsDone \/ SkipTrip \/ Panic
  BY <1>3 DEF StopsDone, SkipTrip, Panic
<1>4. CASE PackTrip
  BY <1>4 DEF PackTrip
<1>5. CASE OpenWindow \/ SkipWindow \/ CloseWindow \/ WindowsDone
  BY <1>5 DEF OpenWindow, SkipWindow, CloseWindow, WindowsDone
<1>6. CASE AddRun \/ SortTrips
  BY <1>6 DEF AddRun, SortTrips
<1> QED BY <1>1, <1>2, <1>3, <1>4, <1>5, <1>6 DEF Next

LEMMA OnceStep ==
  BuildInv /\ (FeedIsDefinite => OnceInv) /\ [Next]_vars => (FeedIsDefinite => OnceInv)'
<1> SUFFICES ASSUME BuildInv, FeedIsDefinite => OnceInv, [Next]_vars, FeedIsDefinite'
             PROVE  OnceInv'
  OBVIOUS
<1>1. UNCHANGED feed
  BY FeedStays
<1>2. FeedIsDefinite
  <2>1. TripsToPack(feed)' = TripsToPack(feed)
    BY <1>1 DEF TripsToPack, IncludedTrips, IncludedRoutes
  <2>2. FeedIsDefinite' = FeedIsDefinite
    BY <1>1, <2>1 DEF FeedIsDefinite, IsDefinite, RowsOf, RepeatsOf, BaseOf, FirstRow
  <2> QED BY <2>2
<1>3. OnceInv
  BY <1>2
<1>4. CASE UNCHANGED vars
  <2>1. UNCHANGED <<feed, pc, lookup, canonical, pending, patterns, packing>>
    BY <1>4 DEF vars
  <2>2. /\ \A s : WindowsOf(feed, s)' = WindowsOf(feed, s)
        /\ \A s : StopsOf(s)' = StopsOf(s) /\ TripOf(feed, s)' = TripOf(feed, s)
        /\ \A s : Asked(s)' = Asked(s)
        /\ \A s, n : AskedBy(s, n)' = AskedBy(s, n)
        /\ TripsToPack(feed)' = TripsToPack(feed)
    BY <2>1, DueStays
  <2>3. PackedTrips' = PackedTrips
    <3>1. \A s : TimesOf(feed, s)' = TimesOf(feed, s)
      BY <2>1 DEF TimesOf
    <3> QED BY <2>1, <2>2, <3>1 DEF PackedTrips
  <2>4. \A s : Due(s)' = Due(s)
    BY <2>1, <2>2 DEF Due, IsPacking, Passed
  <2>5. AllRuns' = AllRuns
    <3>1. \A s : RunsDue(s)' = RunsDue(s)
      BY <2>1, <2>4, RunsDueStay
    <3> QED BY <2>3, <3>1 DEF AllRuns
  <2>6. Window' = Window
    BY <2>1 DEF Window, WindowsOf
  <2>7. ExpandInv'
    <3>1. ExpandInv
      BY <1>3 DEF OnceInv
    <3> QED BY <2>1, <2>2, <2>3, <2>6, <3>1 DEF ExpandInv
  <2> QED BY <1>3, <2>1, <2>2, <2>5, <2>7 DEF OnceInv
<1>5. CASE RegisterStop \/ StopsDone
  BY <1>3, <1>5, OnceStops
<1>6. CASE SkipTrip \/ Panic
  BY <1>3, <1>6, OnceSkip
<1>7. CASE PackTrip
  BY <1>3, <1>7, OncePackTrip
<1>8. CASE OpenWindow
  BY <1>3, <1>8, OnceOpen
<1>9. CASE SkipWindow \/ CloseWindow
  BY <1>3, <1>9, OnceClose
<1>10. CASE AddRun
  BY <1>2, <1>3, <1>10, OnceAddRun
<1>11. CASE WindowsDone
  BY <1>3, <1>11, OnceDone
<1>12. CASE SortTrips
  BY <1>3, <1>12, OnceSort
<1> QED BY <1>4, <1>5, <1>6, <1>7, <1>8, <1>9, <1>10, <1>11, <1>12 DEF Next

-----------------------------------------------------------------------------
(* A stop that is in the feed is known to be of the station of its row.     *)
CanonicalInv ==
  /\ DOMAIN canonical = {Id(r) : r \in Read}
  /\ \A id \in DOMAIN canonical : \E r \in Read : Id(r) = id /\ canonical[id] = Station(r)

LEMMA CanonicalInit == Init => CanonicalInv
<1> SUFFICES ASSUME Init PROVE CanonicalInv
  OBVIOUS
<1>1. Read = {}
  BY RowsAreNumbers DEF Init, Read
<1>2. DOMAIN canonical = {}
  BY DEF Init
<1> QED BY <1>1, <1>2 DEF CanonicalInv

LEMMA CanonicalStep == StationInv /\ CanonicalInv /\ [Next]_vars => CanonicalInv'
<1> SUFFICES ASSUME StationInv, CanonicalInv, [Next]_vars
             PROVE  CanonicalInv'
  OBVIOUS
<1>1. CASE RegisterStop
  <2>1. /\ row \in DOMAIN feed.stops /\ feed' = feed /\ row' = row + 1
        /\ canonical' = Put(canonical, Id(row), Station(row))
    BY <1>1 DEF RegisterStop, Id, Station
  <2>2. Read' = Read \cup {row}
    <3>1. row \in Nat /\ DOMAIN feed.stops = 1 .. Len(feed.stops) /\ Len(feed.stops) \in Nat
      BY RowsAreNumbers DEF StationInv
    <3> QED BY <2>1, <3>1 DEF Read
  <2>3. \A r : Id(r)' = Id(r) /\ Station(r)' = Station(r)
    BY <2>1 DEF Id, Station
  <2>4. /\ DOMAIN canonical' = DOMAIN canonical \cup {Id(row)}
        /\ canonical'[Id(row)] = Station(row)
        /\ \A id \in DOMAIN canonical \ {Id(row)} : canonical'[id] = canonical[id]
    BY <2>1 DEF Put
  <2>5. DOMAIN canonical' = {Id(r)' : r \in Read'}
    BY <2>2, <2>3, <2>4 DEF CanonicalInv
  <2>6. \A id \in DOMAIN canonical' : \E r \in Read' : Id(r)' = id /\ canonical'[id] = Station(r)'
    BY <2>2, <2>3, <2>4 DEF CanonicalInv
  <2> QED BY <2>5, <2>6 DEF CanonicalInv
<1>2. CASE ~RegisterStop
  <2>1. UNCHANGED <<feed, row, canonical>>
    BY <1>2, FeedStays
  <2> QED BY <2>1 DEF CanonicalInv, Read, Id, Station
<1> QED BY <1>1, <1>2

LEMMA CanonicalIsStation ==
  ASSUME StationInv, CanonicalInv, pc # "stops", NEW stop
  PROVE  Canonical(stop) \in StationsOf(stop)
<1>1. Read = DOMAIN feed.stops
  BY DEF StationInv
<1>2. CASE stop \in DOMAIN canonical
  <2>1. PICK r \in DOMAIN feed.stops :
          feed.stops[r].id = stop /\ canonical[stop] = StationOf(feed.stops[r])
    BY <1>1, <1>2 DEF CanonicalInv, Id, Station
  <2> QED BY <1>2, <2>1 DEF Canonical, StationsOf
<1>3. CASE stop \notin DOMAIN canonical
  <2>1. {s \in DOMAIN feed.stops : feed.stops[s].id = stop} = {}
    BY <1>1, <1>3 DEF CanonicalInv, Id
  <2> QED BY <1>3, <2>1 DEF Canonical, StationsOf
<1> QED BY <1>2, <1>3

-----------------------------------------------------------------------------
(* The rows of a trip in a definite order are its times in that order.      *)
RankOf(trip, r) ==
  Cardinality({q \in RowsOf(trip) : feed.stopTimes[q].seq <= feed.stopTimes[r].seq})

LEMMA TimesByRank ==
  ASSUME feed \in Feeds, NEW trip \in TripsToPack(feed), IsDefinite(trip)
  PROVE  LET n == Cardinality(RowsOf(trip))
         IN  /\ n \in Nat /\ Len(TimesOf(feed, trip)) = n
             /\ DOMAIN TimesOf(feed, trip) = 1 .. n
             /\ \A r \in RowsOf(trip) : /\ RankOf(trip, r) \in 1 .. n
                                        /\ TimesOf(feed, trip)[RankOf(trip, r)] = feed.stopTimes[r]
             /\ FirstRow(trip) \in RowsOf(trip)
             /\ StartOf(trip) = BaseOf(trip)
<1> DEFINE rows  == RowsOf(trip)
           key   == [r \in rows |-> feed.stopTimes[r].seq]
           order == InOrder(rows, key)
           n     == Cardinality(rows)
<1>1. IsTable(feed.stopTimes) /\ rows \subseteq DOMAIN feed.stopTimes
  BY FeedsAssumption DEF IsFeed, RowsOf
<1>2. \A r \in rows : key[r] = feed.stopTimes[r].seq /\ key[r] \in Int /\ r \in Int
  <2>1. \A r \in DOMAIN feed.stopTimes : feed.stopTimes[r].seq \in Int
    BY FeedsAssumption DEF IsFeed, Word
  <2>2. \A r \in DOMAIN feed.stopTimes : r \in Int
    BY <1>1, TableFacts
  <2> QED BY <1>1, <2>1, <2>2
<1>3. IsFiniteSet(rows) /\ rows \subseteq Int
  <2>1. IsFiniteSet(DOMAIN feed.stopTimes)
    BY <1>1, TableFacts
  <2> HIDE DEF rows
  <2> QED BY <1>1, <1>2, <2>1, FS_Subset
<1>4. TimesOf(feed, trip) = [i \in DOMAIN order |-> feed.stopTimes[order[i]]]
  BY DEF TimesOf, RowsOf
<1>5. IsOrder(rows, key, order) /\ IsRanked(rows, key, order)
  <2> HIDE DEF rows, key
  <2> QED BY <1>2, <1>3, InOrderSorts
<1>6. \A r, q \in rows : key[r] = key[q] => r = q
  <2>1. \A r, q \in rows : feed.stopTimes[r].seq = feed.stopTimes[q].seq => r = q
    BY DEF IsDefinite
  <2> QED BY <1>2, <2>1
<1>7. rows # {}
  BY DEF TripsToPack, RowsOf
<1>8. \A r \in rows : Cardinality(UpTo(rows, key, r)) = RankOf(trip, r)
  <2> TAKE r \in rows
  <2>1. \A q \in rows : key[q] < key[r] \/ (key[q] = key[r] /\ q <= r) <=> key[q] <= key[r]
    <3> HIDE DEF key, rows
    <3> QED BY <1>2, <1>6
  <2>2. UpTo(rows, key, r) = {q \in rows : key[q] <= key[r]}
    <3> HIDE DEF key, rows
    <3> QED BY <2>1 DEF UpTo
  <2>3. {q \in rows : key[q] <= key[r]}
          = {q \in rows : feed.stopTimes[q].seq <= feed.stopTimes[r].seq}
    BY <1>2
  <2> QED BY <2>2, <2>3 DEF RankOf
<1> HIDE DEF key, order
<1>9. /\ n \in Nat /\ order \in [1 .. n -> rows]
      /\ \A i, j \in 1 .. n : i < j => key[order[i]] <= key[order[j]]
      /\ \A r \in rows : \E i \in 1 .. n : order[i] = r
      /\ \A r \in rows : RankOf(trip, r) \in 1 .. n /\ order[RankOf(trip, r)] = r
  <2>1. \A r \in rows : RankOf(trip, r) \in 1 .. n /\ order[RankOf(trip, r)] = r
    <3> HIDE DEF rows
    <3> QED BY <1>5, <1>8 DEF IsRanked
  <2> HIDE DEF rows
  <2> QED BY <1>5, <2>1 DEF IsOrder
<1> HIDE DEF n
<1>10. /\ DOMAIN TimesOf(feed, trip) = 1 .. n
       /\ \A i \in 1 .. n : TimesOf(feed, trip)[i] = feed.stopTimes[order[i]]
  BY <1>4, <1>9
<1>11. Len(TimesOf(feed, trip)) = n
  <2>1. /\ Len(TimesOf(feed, trip)) \in Nat
        /\ DOMAIN TimesOf(feed, trip) = 1 .. Len(TimesOf(feed, trip))
    BY TimesFacts
  <2>2. \A a, b \in Nat : 1 .. a = 1 .. b => a = b
    <3> TAKE a \in Nat, b \in Nat
    <3> HAVE 1 .. a = 1 .. b
    <3>1. \A i \in Int : i \in 1 .. a <=> i \in 1 .. b
      OBVIOUS
    <3>2. ~(a < b)
      <4>1. b >= 1 => b \in 1 .. a
        BY <3>1
      <4> QED BY <4>1
    <3>3. ~(b < a)
      <4>1. a >= 1 => a \in 1 .. b
        BY <3>1
      <4> QED BY <4>1
    <3> QED BY <3>2, <3>3
  <2> QED BY <1>9, <1>10, <2>1, <2>2
<1>12. FirstRow(trip) = order[1] /\ 1 \in 1 .. n /\ order[1] \in rows
  <2>1. 1 \in 1 .. n /\ order[1] \in rows
    <3>1. PICK r \in rows : TRUE
      BY <1>7
    <3> QED BY <1>9, <3>1
  <2>2. \A q \in rows : key[order[1]] <= key[q]
    <3> TAKE q \in rows
    <3>1. PICK i \in 1 .. n : order[i] = q
      BY <1>9
    <3>2. key[q] \in Int
      BY <1>2
    <3> QED BY <1>9, <2>1, <3>1, <3>2
  <2>3. \A q \in rows : feed.stopTimes[order[1]].seq <= feed.stopTimes[q].seq
    BY <1>2, <2>1, <2>2
  <2>4. /\ FirstRow(trip) \in rows
        /\ \A q \in rows : feed.stopTimes[FirstRow(trip)].seq <= feed.stopTimes[q].seq
    BY <2>1, <2>3 DEF FirstRow
  <2>5. key[FirstRow(trip)] = key[order[1]]
    <3>1. key[FirstRow(trip)] <= key[order[1]] /\ key[order[1]] <= key[FirstRow(trip)]
      BY <1>2, <2>1, <2>2, <2>4
    <3>2. key[FirstRow(trip)] \in Int /\ key[order[1]] \in Int
      BY <1>2, <2>1, <2>4
    <3> QED BY <3>1, <3>2
  <2> QED BY <1>6, <2>1, <2>4, <2>5
<1>13. StartOf(trip) = BaseOf(trip)
  BY <1>10, <1>12 DEF StartOf, BaseOf
<1> QED BY <1>9, <1>10, <1>11, <1>12, <1>13 DEF n

-----------------------------------------------------------------------------
(* The run of a trip with that offset.                                     *)
IdOf(trip, offset) ==
  IF IsRepeated(trip) THEN <<trip, offset + BaseOf(trip)>> ELSE <<trip>>

Described(trip, offset) == RunDue(trip, IdOf(trip, offset), offset)

(* The windows of a trip ask for the departures that its rows say.          *)
LEMMA AskedAreStarts ==
  ASSUME feed \in Feeds, NEW trip
  PROVE  /\ WindowsOf(feed, trip) = <<>> <=> ~IsRepeated(trip)
         /\ Asked(trip) = Starts(trip)
         /\ \A dep \in Starts(trip) : dep \in Int
<1>1. PICK order : IsWindowOrder(trip, order)
  BY WindowsAreRows
<1> DEFINE windows == WindowsOf(feed, trip)
<1>2. PICK m \in Nat : DOMAIN windows = 1 .. m
  BY <1>1 DEF IsWindowOrder
<1>3. /\ \A n \in DOMAIN windows : /\ order[n] \in WindowRows(trip)
                                   /\ windows[n] = feed.frequencies[order[n]]
      /\ \A w \in WindowRows(trip) : \E n \in DOMAIN windows : order[n] = w
  BY <1>1 DEF IsWindowOrder
<1>4. \A n \in DOMAIN windows : windows[n].headway \in Nat
  BY WindowsFacts, StartsAre
<1>5. windows = <<>> <=> ~IsRepeated(trip)
  <2>1. windows = <<>> <=> DOMAIN windows = {}
    <3>1. windows = <<>> => DOMAIN windows = {}
      OBVIOUS
    <3>2. DOMAIN windows = {} => windows = <<>>
      <4>1. windows = [n \in DOMAIN windows |-> windows[n]]
        BY DEF WindowsOf
      <4>2. [n \in {} |-> windows[n]] = <<>>
        OBVIOUS
      <4> HIDE DEF windows
      <4> QED BY <4>1, <4>2
    <3> QED BY <3>1, <3>2
  <2>2. IsRepeated(trip) <=> WindowRows(trip) # {}
    BY DEF IsRepeated, WindowRows
  <2> QED BY <1>3, <2>1, <2>2
<1>6. Asked(trip) = Starts(trip)
  <2>1. \A dep : dep \in Asked(trip) <=>
          \E n \in DOMAIN windows : windows[n].headway > 0 /\ dep \in StartsIn(windows[n])
    BY DEF Asked, AskedBy
  <2>2. \A dep : dep \in Starts(trip) <=>
          \E w \in WindowRows(trip) : /\ feed.frequencies[w].headway > 0
                                      /\ dep \in StartsIn(feed.frequencies[w])
    BY DEF Starts, RepeatsOf, WindowRows
  <2> HIDE DEF windows
  <2>3. \A dep : dep \in Asked(trip) <=> dep \in Starts(trip)
    BY <1>3, <2>1, <2>2
  <2> QED BY <2>3
<1>7. \A dep \in Starts(trip) : dep \in Int
  <2> SUFFICES ASSUME NEW w \in RepeatsOf(trip), NEW dep \in StartsIn(feed.frequencies[w])
               PROVE  dep \in Int
    BY DEF Starts
  <2>1. feed.frequencies[w] \in [trip : Nat, start : Seconds, end : Seconds, headway : Word]
    BY FeedsAssumption DEF RepeatsOf, IsFeed
  <2> QED BY <2>1, StartsAre
<1> QED BY <1>5, <1>6, <1>7

(* An offset moves no time of a definite trip out of an i32.               *)
LEMMA OffsetsFit ==
  ASSUME feed \in Feeds, NEW trip \in TripsToPack(feed), IsDefinite(trip),
         NEW offset \in Offsets(trip)
  PROVE  /\ offset \in Int
         /\ \A r \in RowsOf(trip) : /\ feed.stopTimes[r].arrival \in Int
                                    /\ feed.stopTimes[r].departure \in Int
                                    /\ feed.stopTimes[r].arrival + offset \in Seconds
                                    /\ feed.stopTimes[r].departure + offset \in Seconds
<1>1. \A r \in RowsOf(trip) : /\ feed.stopTimes[r].arrival \in Seconds
                              /\ feed.stopTimes[r].departure \in Seconds
  BY FeedsAssumption DEF IsFeed, RowsOf
<1>2. \A x \in Seconds : x \in Int /\ x + 0 = x
  BY SizesAssumption DEF Seconds
<1>3. FirstRow(trip) \in RowsOf(trip)
  BY TimesByRank
<1>4. BaseOf(trip) \in Int
  BY <1>1, <1>2, <1>3 DEF BaseOf
<1>5. CASE ~IsRepeated(trip)
  <2>1. offset = 0
    BY <1>5 DEF Offsets
  <2> QED BY <1>1, <1>2, <2>1
<1>6. CASE IsRepeated(trip)
  <2>1. PICK dep \in Starts(trip) : offset = dep - BaseOf(trip)
    BY <1>6 DEF Offsets
  <2>2. PICK w \in RepeatsOf(trip) : dep \in StartsIn(feed.frequencies[w])
    BY DEF Starts
  <2>3. dep \in Int
    BY AskedAreStarts
  <2>4. \A r \in RowsOf(trip) : /\ feed.stopTimes[r].arrival + (dep - BaseOf(trip)) \in Seconds
                                /\ feed.stopTimes[r].departure + (dep - BaseOf(trip)) \in Seconds
    BY <2>2 DEF IsDefinite
  <2> QED BY <1>1, <1>2, <1>4, <2>1, <2>3, <2>4
<1> QED BY <1>5, <1>6

(* At the end the runs due are those described.                            *)
LEMMA DueAtTheEnd ==
  ASSUME feed \in Feeds, pc = "done", NEW trip \in TripsToPack(feed), IsDefinite(trip)
  PROVE  \A q : q \in RunsDue(trip)
                  <=> \E offset \in Offsets(trip) : q = Described(trip, offset)
<1>1. Due(trip) = Starts(trip)
  BY AskedAreStarts DEF Due, IsPacking
<1>2. CASE ~IsRepeated(trip)
  <2>1. Offsets(trip) = {0} /\ Described(trip, 0) = RunDue(trip, <<trip>>, 0)
    BY <1>2 DEF Offsets, Described, IdOf
  <2>2. RunsDue(trip) = {RunDue(trip, <<trip>>, 0)}
    BY <1>2, AskedAreStarts DEF RunsDue
  <2> QED BY <2>1, <2>2
<1>3. CASE IsRepeated(trip)
  <2>1. BaseOf(trip) \in Int /\ StartOf(trip) = BaseOf(trip)
    <3>1. FirstRow(trip) \in RowsOf(trip) /\ StartOf(trip) = BaseOf(trip)
      BY TimesByRank
    <3>2. \A r \in RowsOf(trip) : feed.stopTimes[r].departure \in Int
      BY FeedsAssumption, SizesAssumption DEF IsFeed, RowsOf, Seconds
    <3> QED BY <3>1, <3>2 DEF BaseOf
  <2>2. \A dep \in Starts(trip) : dep \in Int
    BY AskedAreStarts
  <2>3. \A dep \in Starts(trip) : Repeated(trip, dep) = Described(trip, dep - BaseOf(trip))
    <3> TAKE dep \in Starts(trip)
    <3>1. (dep - BaseOf(trip)) + BaseOf(trip) = dep
      BY <2>1, <2>2
    <3> QED BY <1>3, <2>1, <3>1 DEF Repeated, Described, IdOf
  <2>4. Offsets(trip) = {dep - BaseOf(trip) : dep \in Starts(trip)}
    BY <1>3 DEF Offsets
  <2>5. RunsDue(trip) = {Repeated(trip, dep) : dep \in Starts(trip)}
    BY <1>1, <1>3, AskedAreStarts DEF RunsDue
  <2> QED BY <2>3, <2>4, <2>5
<1> QED BY <1>2, <1>3

(* A run described calls as the rows say, and with no other offset.         *)
LEMMA DescribedCalls ==
  ASSUME StationInv, CanonicalInv, pc # "stops", NEW trip \in TripsToPack(feed),
         IsDefinite(trip), NEW offset \in Offsets(trip), NEW id,
         NEW pattern, pattern.stops = StopsOf(trip), Len(StopsOf(trip)) = Len(TimesOf(feed, trip))
  PROVE  /\ CallsAsRows(pattern, Run(trip, id, offset), trip, offset)
         /\ \A o \in Int : CallsAsRows(pattern, Run(trip, id, offset), trip, o) => o = offset
<1> DEFINE times == TimesOf(feed, trip)
           run   == Run(trip, id, offset)
           n     == Cardinality(RowsOf(trip))
<1>1. /\ n \in Nat /\ Len(times) = n /\ DOMAIN times = 1 .. n
      /\ \A r \in RowsOf(trip) : /\ RankOf(trip, r) \in 1 .. n
                                 /\ times[RankOf(trip, r)] = feed.stopTimes[r]
      /\ FirstRow(trip) \in RowsOf(trip)
  BY TimesByRank DEF StationInv
<1>2. /\ \A i \in 1 .. n : StopsOf(trip)[i] = StopIdx(times, i)
      /\ \A i \in 1 .. n : run.arrivals[i] = Wrapped(times[i].arrival + offset)
      /\ \A i \in 1 .. n : run.departures[i] = Wrapped(times[i].departure + offset)
  BY <1>1 DEF StopsOf, Run
<1> HIDE DEF times, run, n
<1>3. ASSUME NEW r \in RowsOf(trip)
      PROVE  /\ pattern.stops[RankOf(trip, r)] \in {lookup[s] : s \in StationsOf(feed.stopTimes[r].stop)}
             /\ run.arrivals[RankOf(trip, r)] = feed.stopTimes[r].arrival + offset
             /\ run.departures[RankOf(trip, r)] = feed.stopTimes[r].departure + offset
  <2>1. pattern.stops[RankOf(trip, r)] = lookup[Canonical(feed.stopTimes[r].stop)]
    BY <1>1, <1>2 DEF StopIdx
  <2>2. Canonical(feed.stopTimes[r].stop) \in StationsOf(feed.stopTimes[r].stop)
    BY CanonicalIsStation
  <2>3. /\ offset \in Int
        /\ feed.stopTimes[r].arrival \in Int /\ feed.stopTimes[r].departure \in Int
        /\ feed.stopTimes[r].arrival + offset \in Seconds
        /\ feed.stopTimes[r].departure + offset \in Seconds
    BY OffsetsFit DEF StationInv
  <2>4. /\ Wrapped(feed.stopTimes[r].arrival + offset) = feed.stopTimes[r].arrival + offset
        /\ Wrapped(feed.stopTimes[r].departure + offset) = feed.stopTimes[r].departure + offset
    BY <2>3, WrappedFacts
  <2> QED BY <1>1, <1>2, <2>1, <2>2, <2>4
<1>4. CallsAsRows(pattern, run, trip, offset)
  <2>1. Len(pattern.stops) = Cardinality(RowsOf(trip))
    BY <1>1 DEF times, n
  <2> QED BY <1>3, <2>1 DEF CallsAsRows, RankOf
<1>5. ASSUME NEW o \in Int, CallsAsRows(pattern, run, trip, o)
      PROVE  o = offset
  <2>1. run.departures[RankOf(trip, FirstRow(trip))] = feed.stopTimes[FirstRow(trip)].departure + o
    BY <1>1, <1>5 DEF CallsAsRows, RankOf
  <2>2. run.departures[RankOf(trip, FirstRow(trip))] = feed.stopTimes[FirstRow(trip)].departure + offset
    BY <1>1, <1>3
  <2>3. offset \in Int /\ feed.stopTimes[FirstRow(trip)].departure \in Int
    BY <1>1, OffsetsFit DEF StationInv
  <2> QED BY <2>1, <2>2, <2>3
<1> QED BY <1>4, <1>5 DEF run

(* Where a run is packed is where the run described is.                    *)
LEMMA PackingsAre ==
  ASSUME BuildInv, CanonicalInv, OnceInv, FeedIsDefinite, pc = "done",
         NEW trip \in PackedTrips, NEW offset \in Offsets(trip), NEW x \in Places
  PROVE  x \in Packings(trip, offset) <=> What(patterns, x) = Described(trip, offset)
<1> DEFINE pattern == patterns[x[1]]
           run     == pattern.trips[x[2]]
<1>1. /\ feed \in Feeds /\ StationInv /\ pc # "stops"
      /\ trip \in TripsToPack(feed) /\ IsDefinite(trip)
  BY DEF BuildInv, StationInv, PackedTrips, FeedIsDefinite
<1>2. /\ What(patterns, x).run = run /\ What(patterns, x).route = pattern.route
      /\ What(patterns, x).stops = pattern.stops
  BY DEF What
<1>3. ASSUME NEW t \in PackedTrips, NEW o \in Offsets(t), What(patterns, x) = Described(t, o)
      PROVE  /\ t \in TripsToPack(feed) /\ IsDefinite(t) /\ o \in Int
             /\ run = Run(t, IdOf(t, o), o) /\ run.id[1] = t
             /\ pattern.route = TripOf(feed, t).route
             /\ run.service = TripOf(feed, t).service
             /\ pattern.stops = StopsOf(t)
             /\ CallsAsRows(pattern, run, t, o)
             /\ \A o2 \in Int : CallsAsRows(pattern, run, t, o2) => o2 = o
  <2>1. t \in TripsToPack(feed) /\ IsDefinite(t)
    BY DEF PackedTrips, FeedIsDefinite
  <2>2. /\ run = Run(t, IdOf(t, o), o) /\ pattern.route = TripOf(feed, t).route
        /\ pattern.stops = StopsOf(t)
    <3>1. /\ Described(t, o).run = Run(t, IdOf(t, o), o)
          /\ Described(t, o).route = TripOf(feed, t).route
          /\ Described(t, o).stops = StopsOf(t)
      BY DEF Described, RunDue
    <3> HIDE DEF run, pattern
    <3> QED BY <1>2, <1>3, <3>1
  <2>3. run.id[1] = t /\ run.service = TripOf(feed, t).service
    BY <2>2 DEF Run, IdOf
  <2>4. Len(StopsOf(t)) = Len(TimesOf(feed, t))
    BY <1>1, TimesFacts DEF StopsOf
  <2> HIDE DEF run, pattern
  <2>5. o \in Int
    BY <1>1, <2>1, OffsetsFit
  <2>6. /\ CallsAsRows(pattern, run, t, o)
        /\ \A o2 \in Int : CallsAsRows(pattern, run, t, o2) => o2 = o
    BY <1>1, <2>1, <2>2, <2>4, DescribedCalls
  <2> QED BY <2>1, <2>2, <2>3, <2>5, <2>6
<1>4. x \in Packings(trip, offset)
        <=> /\ run.id[1] = trip
            /\ pattern.route = TripOf(feed, trip).route
            /\ run.service = TripOf(feed, trip).service
            /\ CallsAsRows(pattern, run, trip, offset)
  BY DEF Packings
<1> HIDE DEF pattern, run
<1>5. ASSUME What(patterns, x) = Described(trip, offset)
      PROVE  x \in Packings(trip, offset)
  BY <1>3, <1>4, <1>5
<1>6. ASSUME x \in Packings(trip, offset)
      PROVE  What(patterns, x) = Described(trip, offset)
  <2>1. What(patterns, x) \in AllRuns
    BY DEF OnceInv, Agree, Places, PlacesIn
  <2>2. PICK t \in PackedTrips : What(patterns, x) \in RunsDue(t)
    BY <2>1 DEF AllRuns
  <2>3. t \in TripsToPack(feed) /\ IsDefinite(t)
    BY DEF PackedTrips, FeedIsDefinite
  <2>4. PICK o \in Offsets(t) : What(patterns, x) = Described(t, o)
    BY <1>1, <2>2, <2>3, DueAtTheEnd
  <2>5. t = trip
    BY <1>3, <1>4, <1>6, <2>4
  <2>6. offset \in Int
    BY <1>1, OffsetsFit
  <2>7. offset = o
    BY <1>3, <1>4, <1>6, <2>4, <2>5, <2>6
  <2> QED BY <2>4, <2>5, <2>7
<1> QED BY <1>5, <1>6

LEMMA AllPackedOnce ==
  ASSUME BuildInv, CanonicalInv, OnceInv, FeedIsDefinite, pc = "done"
  PROVE  LET trips == {t \in TripsToPack(feed) : Cardinality(RowsOf(t)) >= 2}
         IN  /\ \A trip \in trips : \A offset \in Offsets(trip) :
                  Cardinality(Packings(trip, offset)) = 1
             /\ \A p \in DOMAIN patterns : \A i \in DOMAIN patterns[p].trips :
                  \E trip \in trips : \E offset \in Offsets(trip) :
                    <<p, i>> \in Packings(trip, offset)
<1> DEFINE trips == {t \in TripsToPack(feed) : Cardinality(RowsOf(t)) >= 2}
<1>1. feed \in Feeds /\ \A t \in TripsToPack(feed) : IsDefinite(t)
  BY DEF BuildInv, StationInv, FeedIsDefinite
<1>2. trips = PackedTrips
  <2>1. pending = {}
    BY DEF OnceInv
  <2>2. \A t \in TripsToPack(feed) : Len(TimesOf(feed, t)) = Cardinality(RowsOf(t))
    BY <1>1, TimesByRank
  <2> QED BY <2>1, <2>2 DEF PackedTrips
<1> HIDE DEF trips
<1>3. \A q : q \in AllRuns <=> \E t \in PackedTrips : \E o \in Offsets(t) : q = Described(t, o)
  <2>1. \A t \in PackedTrips : \A q :
          q \in RunsDue(t) <=> \E o \in Offsets(t) : q = Described(t, o)
    BY <1>1, DueAtTheEnd DEF PackedTrips
  <2>2. \A q : q \in AllRuns <=> \E t \in PackedTrips : q \in RunsDue(t)
    BY DEF AllRuns
  <2> QED BY <2>1, <2>2
<1>4. /\ \A x \in Places : What(patterns, x) \in AllRuns
      /\ \A r \in AllRuns : \E x \in Places : What(patterns, x) = r
      /\ \A x, y \in Places :
           patterns[x[1]].trips[x[2]].id = patterns[y[1]].trips[y[2]].id => x = y
  <2>1. Places = PlacesIn(patterns)
    BY DEF Places, PlacesIn
  <2>2. Agree(patterns, AllRuns)
    BY DEF OnceInv
  <2> QED BY <2>1, <2>2 DEF Agree
<1>5. ASSUME NEW trip \in trips, NEW offset \in Offsets(trip)
      PROVE  Cardinality(Packings(trip, offset)) = 1
  <2>1. PICK x \in Places : What(patterns, x) = Described(trip, offset)
    BY <1>2, <1>3, <1>4
  <2>2. x \in Packings(trip, offset)
    BY <1>2, <2>1, PackingsAre
  <2>3. \A y \in Packings(trip, offset) : y = x
    <3> TAKE y \in Packings(trip, offset)
    <3>1. y \in Places
      BY DEF Packings
    <3>2. What(patterns, y) = What(patterns, x)
      BY <1>2, <2>1, <3>1, PackingsAre
    <3>3. patterns[y[1]].trips[y[2]] = patterns[x[1]].trips[x[2]]
      BY <3>2 DEF What
    <3> QED BY <1>4, <3>1, <3>3
  <2>4. Packings(trip, offset) = {x}
    BY <2>2, <2>3
  <2> QED BY <2>4, FS_Singleton
<1>6. ASSUME NEW p \in DOMAIN patterns, NEW i \in DOMAIN patterns[p].trips
      PROVE  \E trip \in trips : \E offset \in Offsets(trip) : <<p, i>> \in Packings(trip, offset)
  <2>1. <<p, i>> \in Places
    BY DEF Places
  <2>2. PICK t \in PackedTrips : \E o \in Offsets(t) : What(patterns, <<p, i>>) = Described(t, o)
    BY <1>3, <1>4, <2>1
  <2>3. PICK o \in Offsets(t) : What(patterns, <<p, i>>) = Described(t, o)
    BY <2>2
  <2> QED BY <1>2, <2>1, <2>3, PackingsAre
<1> QED BY <1>5, <1>6 DEF trips

(* Every run that a definite feed describes is packed exactly once, in
   whatever order the trips come, and nothing else is.                     *)
THEOREM RunsArePackedOnce == Spec => []EveryRunOnce
<1> DEFINE Inv == BuildInv /\ CanonicalInv /\ (FeedIsDefinite => OnceInv)
<1>1. Init => Inv
  BY BuildInit, CanonicalInit, OnceInit
<1>2. Inv /\ [Next]_vars => Inv'
  <2>1. BuildInv => StationInv
    BY DEF BuildInv
  <2> QED BY <2>1, BuildStep, CanonicalStep, OnceStep
<1>3. Inv => EveryRunOnce
  BY AllPackedOnce, Zenon DEF EveryRunOnce
<1> HIDE DEF Inv
<1> QED BY <1>1, <1>2, <1>3, PTL DEF Spec
=============================================================================
