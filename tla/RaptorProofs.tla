---------------------------- MODULE RaptorProofs ----------------------------
(***************************************************************************)
(* Proofs about the forward search, for all timetables and queries that    *)
(* are well formed, any buffer and any number of rounds.                   *)
(***************************************************************************)
EXTENDS RaptorProperties, JourneyFacts, FunctionTheorems

(* The labels a search starts from.                                        *)
LEMMA AccessLabelsType ==
  ASSUME NEW qu \in Queries
  PROVE  /\ AccessLabels(qu) \in [Stops -> Labels]
         /\ Times(AccessLabels(qu)) \in [Stops -> 0 .. Inf]
<1>1. \A s \in Stops : AccessLabels(qu)[s] \in Labels
  <2> SUFFICES ASSUME NEW s \in Stops
               PROVE  AccessLabels(qu)[s] \in Labels
    OBVIOUS
  <2>1. CASE LinksTo(qu.access, s) = {}
    BY <2>1, InfAssumption DEF AccessLabels, Unreached, Label, Labels, Parents
  <2>2. CASE LinksTo(qu.access, s) # {}
    <3> DEFINE D == {qu.access[i].duration : i \in LinksTo(qu.access, s)}
    <3>1. D \in SUBSET Nat /\ D # {}
      BY <2>2, QueryFacts DEF LinksTo
    <3>2. Min(D) \in D
      BY <3>1, MinOfNats
    <3>3. PICK i \in DOMAIN qu.access : Min(D) = qu.access[i].duration
      BY <3>2 DEF LinksTo
    <3>4. qu.time + Min(D) \in 0 .. Inf
      BY <3>3, QueryFacts, InfAssumption
    <3>5. AccessLabels(qu)[s] = Label(qu.time + Min(D), Access)
      BY <2>2 DEF AccessLabels
    <3> QED BY <3>4, <3>5 DEF Label, Labels, Parents
  <2> QED BY <2>1, <2>2
<1>2. AccessLabels(qu) \in [Stops -> Labels]
  BY <1>1 DEF AccessLabels
<1> QED BY <1>2 DEF Times, Labels

(* The trip to catch can be caught.                                        *)
LEMMA CatchableTrip ==
  ASSUME NEW t \in Timetables, NEW p \in DOMAIN t.patterns, NEW qu,
         NEW pos, NEW ready,
         EarliestCatchable(t.patterns[p], pos, ready, qu) # 0
  PROVE  LET i == EarliestCatchable(t.patterns[p], pos, ready, qu)
         IN  /\ i \in DOMAIN t.patterns[p].trips
             /\ t.patterns[p].trips[i].departures[pos] >= ready
             /\ Boardable(t.patterns[p].trips[i], qu)
<1> DEFINE trips == t.patterns[p].trips
           ok == {i \in DOMAIN trips : /\ trips[i].departures[pos] >= ready
                                       /\ Boardable(trips[i], qu)}
<1>1. trips \in Seq(PatternTrip)
  BY PatternFacts
<1>2. ok \in SUBSET Nat
  BY <1>1
<1>3. ok # {} /\ EarliestCatchable(t.patterns[p], pos, ready, qu) = Min(ok)
  BY DEF EarliestCatchable
<1>4. Min(ok) \in ok
  BY <1>2, <1>3, MinOfNats, Zenon
<1> QED BY <1>3, <1>4, Zenon

-----------------------------------------------------------------------------
(* The inductive invariant: the types, where the loops are, what the trip on
   board was boarded with, and that labels are supported and pruned.       *)
LoopsInv ==
  /\ K >= 1
  /\ collecting >= 1
  /\ touched \subseteq DOMAIN tt.patterns
  /\ \A p \in touched : MarkedPositions(tt.patterns[p], marked) # {}
  /\ pc \notin {"patterns", "scan"} => touched = {}

OnBoard ==
  LET pattern == tt.patterns[scan.pattern]
      trip    == pattern.trips[scan.trip]
      label   == Prev[pattern.stops[scan.from]]
  IN  /\ scan.trip \in DOMAIN pattern.trips
      /\ Boardable(trip, query)
      /\ scan.from \in DOMAIN pattern.stops
      /\ scan.from < scan.pos
      /\ label.time # Inf
      /\ trip.departures[scan.from] >= BoardingReady(label)

ScanInv ==
  pc = "scan" =>
    /\ scan.pattern \in DOMAIN tt.patterns
    /\ PatternAllowed(tt.patterns[scan.pattern], query)
    /\ scan.pos \in DOMAIN tt.patterns[scan.pattern].stops
    /\ scan.trip # 0 => OnBoard

BestInv ==
  /\ BestIsEarliest
  /\ pc \in {"patterns", "scan"} =>
       \A s \in Stops \ nextMarked : cur[s].time = best[s]
  /\ pc = "walks" =>
       \A s \in Stops \ (nextMarked \cup walked) : cur[s].time = best[s]

TraceInv ==
  pc = "trace" =>
    /\ trace.stop \in Stops
    /\ trace.round \in DOMAIN rounds
    /\ rounds[trace.round][trace.stop].time # Inf

SearchInv ==
  TypeOK /\ LoopsInv /\ ScanInv /\ LabelsSupported /\ BestInv /\ TraceInv

-----------------------------------------------------------------------------
LEMMA InitInv == Init => SearchInv
<1> SUFFICES ASSUME Init PROVE SearchInv
  OBVIOUS
<1> USE DEF Init
<1> DEFINE first == AccessLabels(query)
<1>1. /\ first \in [Stops -> Labels]
      /\ Times(first) \in [Stops -> 0 .. Inf]
  BY AccessLabelsType
<1>2. rounds \in Seq([Stops -> Labels]) /\ Len(rounds) = 1 /\ rounds[1] = first
  BY <1>1
<1>3. marked \subseteq Stops
  BY QueryFacts DEF LinkStops
<1>4. TypeOK
  BY <1>1, <1>2, <1>3, InfAssumption
     DEF TypeOK, NotScanning, NotTracing, Legs
<1>5. LoopsInv
  BY <1>2 DEF LoopsInv, K
<1>6. LabelsSupported
  <2>1. \A k, s : Supported(tt, query, rounds, k, first, s)
    BY DEF Supported
  <2> QED BY <1>2, <2>1 DEF LabelsSupported
<1>7. BestInv
  <2>1. \A s \in Stops : first[s].time \in Nat /\ best[s] = first[s].time
    BY <1>1 DEF Times, Labels
  <2>2. \A s \in Stops : best[s] <= first[s].time /\ first[s].time <= best[s]
    BY <2>1
  <2> QED BY <1>2, <2>1, <2>2 DEF BestInv, BestIsEarliest
<1> QED BY <1>4, <1>5, <1>6, <1>7 DEF SearchInv, ScanInv, TraceInv

-----------------------------------------------------------------------------
(* A step that leaves rounds and cur alone leaves their support alone.     *)
LEMMA SupportUnchanged ==
  ASSUME LabelsSupported,
         tt' = tt, query' = query, rounds' = rounds, cur' = cur
  PROVE  LabelsSupported'
BY DEF LabelsSupported, K

(* A label that a round supports is supported in every later round, whatever
   is appended to the rounds.                                              *)
LEMMA SupportGrows ==
  ASSUME NEW t, NEW qu, NEW before, NEW after, NEW labels,
         NEW k \in Nat, NEW m \in Nat, k <= m, NEW s,
         \A i \in 1 .. (k - 1) : after[i] = before[i],
         Supported(t, qu, before, k, labels, s)
  PROVE  Supported(t, qu, after, m, labels, s)
<1> DEFINE p == labels[s].parent
<1>1. p.round \in 1 .. (k - 1) =>
        p.round \in 1 .. (m - 1) /\ after[p.round] = before[p.round]
  OBVIOUS
<1> QED BY <1>1, Zenon DEF Supported, RideSupports

(* Lowering other labels of the round keeps a label supported.             *)
LEMMA SupportSurvives ==
  ASSUME NEW t \in Timetables, NEW qu, NEW before,
         NEW old \in [Stops -> Labels], NEW new \in [Stops -> Labels],
         NEW k \in Nat, NEW s \in Stops,
         \A r \in Stops : new[r].time <= old[r].time,
         new[s] = old[s], Supported(t, qu, before, k, old, s)
  PROVE  Supported(t, qu, before, k, new, s)
<1> DEFINE p == old[s].parent
<1>1. CASE /\ p.kind = "transfer"
           /\ <<p.from, s>> \in DOMAIN t.walks
           /\ p.duration = t.walks[<<p.from, s>>]
           /\ old[p.from].time # Inf
           /\ old[p.from].time + p.duration <= old[s].time
  <2>1. p.from \in Stops
    <3>1. DOMAIN t.walks \subseteq Stops \X Stops
      BY TimetablesAssumption DEF WellFormedTimetable, WalksAreTransfers
    <3> QED BY <1>1, <3>1
  <2>2. p.duration \in Nat
    BY <1>1, WalkFacts
  <2>3. /\ old[p.from].time \in 0 .. Inf
        /\ new[p.from].time \in 0 .. Inf
        /\ old[s].time \in 0 .. Inf
        /\ new[p.from].time <= old[p.from].time
    BY <2>1 DEF Labels
  <2>4. new[p.from].time # Inf /\ new[p.from].time + p.duration <= new[s].time
    BY <1>1, <2>2, <2>3, InfAssumption
  <2> QED BY <1>1, <2>4 DEF Supported
<1>2. CASE ~(/\ p.kind = "transfer"
             /\ <<p.from, s>> \in DOMAIN t.walks
             /\ p.duration = t.walks[<<p.from, s>>]
             /\ old[p.from].time # Inf
             /\ old[p.from].time + p.duration <= old[s].time)
  BY <1>2, Zenon DEF Supported
<1> QED BY <1>1, <1>2

(* What the types say of the labels.                                       *)
LEMMA RoundFacts ==
  ASSUME TypeOK, LoopsInv
  PROVE  /\ K \in Nat \ {0}
         /\ DOMAIN rounds = 1 .. K
         /\ Prev \in [Stops -> Labels]
         /\ \A k \in DOMAIN rounds : rounds[k] \in [Stops -> Labels]
         /\ \A k \in DOMAIN rounds, s \in Stops : rounds[k][s].time \in 0 .. Inf
         /\ \A s \in Stops : cur[s].time \in 0 .. Inf /\ best[s] \in 0 .. Inf
<1>1. rounds \in Seq([Stops -> Labels]) /\ K \in Nat /\ K >= 1
  BY DEF TypeOK, LoopsInv, K
<1>2. DOMAIN rounds = 1 .. K /\ K \in DOMAIN rounds
  BY <1>1 DEF K
<1>3. \A k \in DOMAIN rounds : rounds[k] \in [Stops -> Labels]
  BY <1>1, <1>2
<1>4. \A k \in DOMAIN rounds, s \in Stops : rounds[k][s].time \in 0 .. Inf
  BY <1>3 DEF Labels
<1>5. \A s \in Stops : cur[s].time \in 0 .. Inf /\ best[s] \in 0 .. Inf
  BY DEF TypeOK, Labels
<1> QED BY <1>1, <1>2, <1>3, <1>4, <1>5 DEF Prev

LEMMA LabelTime ==
  ASSUME TypeOK, LoopsInv, NEW k \in DOMAIN rounds, NEW s \in Stops
  PROVE  k \in Nat /\ rounds[k][s].time \in Nat
<1>1. k \in 1 .. K
  BY RoundFacts
<1>2. rounds[k][s].time \in 0 .. Inf
  BY RoundFacts
<1> QED BY <1>1, <1>2

LEMMA StartRoundStep ==
  ASSUME SearchInv, StartRound
  PROVE  SearchInv'
<1> USE DEF SearchInv, StartRound
<1>1. /\ K \in Nat \ {0}
      /\ K \in DOMAIN rounds
      /\ Prev \in [Stops -> Labels]
      /\ \A s \in Stops : Prev[s].time \in 0 .. Inf /\ best[s] \in 0 .. Inf
  BY RoundFacts DEF Prev
<1>2. Touched(tt, marked) \subseteq Nat
  BY PatternFacts DEF Touched, TypeOK
<1>3. TypeOK'
  BY <1>1, <1>2 DEF TypeOK
<1>4. LoopsInv'
  BY DEF LoopsInv, K, Touched
<1>5. LabelsSupported'
  <2>1. \A s \in Stops : Supported(tt, query, rounds, K + 1, Prev, s)
    BY <1>1, SupportGrows DEF LabelsSupported, Prev
  <2> QED BY <2>1 DEF LabelsSupported, K
<1>6. BestInv'
  <2>1. best = Times(Prev)
    BY DEF BestInv, BestIsEarliest, Prev, K
  <2>2. \A s \in Stops : cur'[s].time = best'[s] /\ cur'[s].time <= best'[s]
    BY <1>1, <2>1 DEF Times
  <2> QED BY <2>2 DEF BestInv, BestIsEarliest
<1> QED BY <1>3, <1>4, <1>5, <1>6 DEF ScanInv, TraceInv

LEMMA LastRoundDoneStep ==
  ASSUME SearchInv, LastRoundDone
  PROVE  SearchInv'
<1> USE DEF SearchInv, LastRoundDone
<1>1. LabelsSupported'
  BY SupportUnchanged
<1>2. BestInv'
  BY DEF BestInv, BestIsEarliest
<1> QED BY <1>1, <1>2 DEF TypeOK, LoopsInv, K, ScanInv, TraceInv

LEMMA SkipPatternStep ==
  ASSUME SearchInv, SkipPattern
  PROVE  SearchInv'
<1> USE DEF SearchInv, SkipPattern
<1>1. LabelsSupported'
  BY SupportUnchanged
<1>2. BestInv'
  BY DEF BestInv, BestIsEarliest
<1>3. TypeOK'
  BY DEF TypeOK
<1>4. LoopsInv'
  BY DEF LoopsInv, K
<1> QED BY <1>1, <1>2, <1>3, <1>4 DEF ScanInv, TraceInv

LEMMA StartPatternStep ==
  ASSUME SearchInv, StartPattern
  PROVE  SearchInv'
<1> USE DEF SearchInv, StartPattern
<1> DEFINE p == Min(touched)
           pattern == tt.patterns[p]
<1>1. p \in touched /\ p \in DOMAIN tt.patterns /\ p \in Nat
  BY MinOfNats DEF TypeOK, LoopsInv
<1>2. pattern.stops \in Seq(Stops)
  BY <1>1, PatternFacts DEF TypeOK
<1>3. MarkedPositions(pattern, marked) \in SUBSET Nat
  BY <1>2 DEF MarkedPositions
<1>4. MarkedPositions(pattern, marked) # {}
  BY <1>1 DEF LoopsInv
<1>5. FirstMarked(pattern) \in DOMAIN pattern.stops /\ FirstMarked(pattern) \in Nat
  BY <1>3, <1>4, MinOfNats DEF FirstMarked, MarkedPositions
<1>6. TypeOK'
  BY <1>1, <1>5 DEF TypeOK
<1>7. LoopsInv'
  BY DEF LoopsInv, K
<1>8. ScanInv'
  BY <1>1, <1>5 DEF ScanInv
<1>9. LabelsSupported'
  BY SupportUnchanged
<1>10. BestInv'
  BY DEF BestInv, BestIsEarliest
<1> QED BY <1>6, <1>7, <1>8, <1>9, <1>10 DEF TraceInv

(* The position scanned: what alighting there writes, and whom it may board. *)
LEMMA ScanFacts ==
  ASSUME TypeOK, LoopsInv, ScanInv, pc = "scan"
  PROVE  LET pattern == tt.patterns[scan.pattern]
         IN  /\ scan.pattern \in DOMAIN tt.patterns
             /\ scan.pattern \in Nat
             /\ scan.pos \in 1 .. Len(pattern.stops)
             /\ DOMAIN pattern.stops = 1 .. Len(pattern.stops)
             /\ Len(pattern.stops) \in Nat
             /\ pattern.stops[scan.pos] \in Stops
             /\ scan.trip # 0 =>
                  pattern.trips[scan.trip].arrivals[scan.pos] \in Nat
<1> DEFINE pattern == tt.patterns[scan.pattern]
<1>1. scan.pattern \in DOMAIN tt.patterns /\ tt \in Timetables
  BY DEF ScanInv, TypeOK
<1>2. pattern.stops \in Seq(Stops) /\ scan.pattern \in Nat
  BY <1>1, PatternFacts
<1>3. /\ scan.pos \in 1 .. Len(pattern.stops)
      /\ DOMAIN pattern.stops = 1 .. Len(pattern.stops)
      /\ Len(pattern.stops) \in Nat
      /\ pattern.stops[scan.pos] \in Stops
  BY <1>2 DEF ScanInv
<1>4. ASSUME scan.trip # 0
      PROVE  pattern.trips[scan.trip].arrivals[scan.pos] \in Nat
  BY <1>1, <1>3, <1>4, TripFacts, Zenon DEF ScanInv, OnBoard
<1> QED BY <1>1, <1>2, <1>3, <1>4

LEMMA ScanPositionStep ==
  ASSUME SearchInv, ScanPosition
  PROVE  SearchInv'
<1> DEFINE pattern   == tt.patterns[scan.pattern]
           stop      == pattern.stops[scan.pos]
           arrival   == pattern.trips[scan.trip].arrivals[scan.pos]
           improves  == /\ scan.trip # 0
                        /\ arrival < best[stop]
                        /\ arrival < cur[stop].time
           candidate == Candidate(pattern, stop)
           last      == scan.pos = Len(pattern.stops)
           label     == Label(arrival, Board(scan.pattern, scan.trip,
                                             scan.from, scan.pos, K))
<1> HIDE DEF label, pattern
<1>1. /\ TypeOK /\ LoopsInv /\ ScanInv /\ LabelsSupported /\ BestInv
      /\ pc = "scan"
  BY Zenon DEF SearchInv, ScanPosition
<1>2. /\ tt' = tt /\ query' = query /\ rounds' = rounds /\ best' = best
      /\ marked' = marked /\ touched' = touched /\ relaxing' = relaxing
      /\ walked' = walked /\ collecting' = collecting /\ trace' = trace
      /\ bestSoFar' = bestSoFar /\ journeys' = journeys
      /\ K' = K /\ Prev' = Prev
  BY Zenon DEF ScanPosition, K, Prev
<1>3. /\ cur' = IF improves THEN [cur EXCEPT ![stop] = label] ELSE cur
      /\ nextMarked' = IF improves THEN nextMarked \cup {stop} ELSE nextMarked
      /\ scan' = IF last THEN NotScanning
                 ELSE IF IsBetter(pattern, candidate)
                 THEN [scan EXCEPT !.pos = @ + 1, !.trip = candidate,
                                   !.from = scan.pos]
                 ELSE [scan EXCEPT !.pos = @ + 1]
      /\ pc' = IF last THEN "patterns" ELSE "scan"
  BY Zenon DEF ScanPosition, label, pattern
<1>4. /\ scan.pattern \in DOMAIN tt.patterns
      /\ scan.pattern \in Nat
      /\ scan.pos \in 1 .. Len(pattern.stops)
      /\ DOMAIN pattern.stops = 1 .. Len(pattern.stops)
      /\ Len(pattern.stops) \in Nat
      /\ stop \in Stops
      /\ scan.trip # 0 => arrival \in Nat
  BY <1>1, ScanFacts DEF pattern
<1>5. /\ K \in Nat \ {0}
      /\ DOMAIN rounds = 1 .. K
      /\ \A s \in Stops : cur[s].time \in 0 .. Inf /\ best[s] \in 0 .. Inf
  BY <1>1, RoundFacts
<1>6. scan \in [pattern : Nat, pos : Nat, trip : Nat, from : Nat]
  BY <1>1 DEF TypeOK
<1>7. ASSUME improves
      PROVE  /\ label \in Labels
             /\ label.time = arrival
             /\ label.time < cur[stop].time
  <2>1. arrival \in 0 .. Inf
    <3>1. arrival \in Nat
      BY <1>4, <1>7
    <3>2. cur[stop].time \in 0 .. Inf /\ Inf \in Nat
      BY <1>4, <1>5, InfAssumption
    <3>3. arrival < cur[stop].time
      BY <1>7
    <3> HIDE DEF arrival, stop
    <3> QED BY <3>1, <3>2, <3>3
  <2>2. Board(scan.pattern, scan.trip, scan.from, scan.pos, K) \in Parents
    BY <1>5, <1>6 DEF Board, Parents
  <2> QED BY <1>7, <2>1, <2>2 DEF label, Label, Labels
<1>8. cur \in [Stops -> Labels] /\ cur' \in [Stops -> Labels]
  <2>1. cur \in [Stops -> Labels]
    BY <1>1 DEF TypeOK
  <2> QED BY <1>3, <1>4, <1>7, <2>1
<1>9. \A s \in Stops : cur'[s].time <= cur[s].time
  <2>1. CASE improves
    BY <1>3, <1>4, <1>5, <1>7, <1>8, <2>1
  <2>2. CASE ~improves
    BY <1>3, <1>5, <2>2
  <2> QED BY <2>1, <2>2
<1>10. ASSUME ~last, IsBetter(pattern, candidate)
       PROVE  /\ candidate \in DOMAIN pattern.trips
              /\ candidate \in Nat \ {0}
              /\ Boardable(pattern.trips[candidate], query)
              /\ Prev[stop].time # Inf
              /\ pattern.trips[candidate].departures[scan.pos]
                   >= BoardingReady(Prev[stop])
  <2>1. candidate # 0
    BY <1>10 DEF IsBetter
  <2>2. /\ Prev[stop].time # Inf
        /\ candidate = EarliestCatchable(pattern, scan.pos,
                                         BoardingReady(Prev[stop]), query)
    BY <2>1 DEF Candidate
  <2>3. tt \in Timetables /\ scan.pattern \in DOMAIN tt.patterns
    BY <1>1, <1>4 DEF TypeOK
  <2>4. /\ candidate \in DOMAIN pattern.trips
        /\ pattern.trips[candidate].departures[scan.pos]
             >= BoardingReady(Prev[stop])
        /\ Boardable(pattern.trips[candidate], query)
    BY <2>1, <2>2, <2>3, CatchableTrip, Zenon DEF pattern
  <2>5. candidate \in Nat \ {0}
    BY <2>3, <2>4, TripFacts, Zenon DEF pattern
  <2> QED BY <2>2, <2>4, <2>5, Zenon
<1>11. scan' \in [pattern : Nat, pos : Nat, trip : Nat, from : Nat]
  <2>1. CASE last
    BY <1>3, <2>1 DEF NotScanning
  <2>2. CASE ~last /\ IsBetter(pattern, candidate)
    <3>1. candidate \in Nat
      BY <1>10, <2>2
    <3>2. scan' = [scan EXCEPT !.pos = @ + 1, !.trip = candidate,
                               !.from = scan.pos]
      BY <1>3, <2>2
    <3>3. scan.pos \in Nat /\ scan.pos + 1 \in Nat
      BY <1>6
    <3> HIDE DEF candidate
    <3> QED BY <1>6, <3>1, <3>2, <3>3
  <2>3. CASE ~last /\ ~IsBetter(pattern, candidate)
    BY <1>3, <1>6, <2>3
  <2> QED BY <2>1, <2>2, <2>3
<1>12. TypeOK'
  <2>1. nextMarked' \in SUBSET Stops
    BY <1>1, <1>3, <1>4 DEF TypeOK
  <2>2. pc' \in {"patterns", "scan"}
    BY <1>3
  <2> QED BY <1>1, <1>2, <1>8, <1>11, <2>1, <2>2 DEF TypeOK
<1>13. LoopsInv'
  BY <1>1, <1>2, <1>3 DEF LoopsInv, K
<1>14. ScanInv'
  <2> SUFFICES ASSUME ~last
               PROVE  /\ scan'.pattern \in DOMAIN tt.patterns
                      /\ PatternAllowed(tt.patterns[scan'.pattern], query)
                      /\ scan'.pos \in DOMAIN tt.patterns[scan'.pattern].stops
                      /\ scan'.trip # 0 => OnBoard'
    BY <1>2, <1>3 DEF ScanInv
  <2>1. scan'.pattern = scan.pattern /\ scan'.pos = scan.pos + 1
    BY <1>3, <1>6
  <2>2. scan'.pos \in DOMAIN pattern.stops
    BY <1>4, <2>1
  <2>3. CASE IsBetter(pattern, candidate)
    <3>1. scan'.trip = candidate /\ scan'.from = scan.pos
      BY <1>3, <1>6, <2>3
    <3>2. scan'.from \in DOMAIN pattern.stops /\ scan'.from < scan'.pos
      BY <1>4, <2>1, <3>1
    <3>3. OnBoard'
      BY <1>2, <1>10, <2>1, <2>3, <3>1, <3>2, Zenon
         DEF OnBoard, pattern, BoardingReady
    <3> QED BY <1>1, <2>1, <2>2, <3>3 DEF ScanInv, pattern
  <2>4. CASE ~IsBetter(pattern, candidate)
    <3>1. scan'.trip = scan.trip /\ scan'.from = scan.from
      BY <1>3, <1>6, <2>4
    <3>2. ASSUME scan.trip # 0
          PROVE  OnBoard'
      <4>1. OnBoard /\ scan.from < scan'.pos
        <5>1. OnBoard
          BY <1>1, <3>2 DEF ScanInv
        <5>2. scan.from < scan.pos
          BY <5>1 DEF OnBoard
        <5>3. scan.from \in Nat /\ scan.pos \in Nat
          BY <1>6
        <5> QED BY <2>1, <5>1, <5>2, <5>3
      <4> QED BY <1>2, <2>1, <3>1, <4>1, Zenon DEF OnBoard, BoardingReady
    <3> QED BY <1>1, <2>1, <2>2, <3>1, <3>2 DEF ScanInv, pattern
  <2> QED BY <2>3, <2>4
<1>15. ASSUME NEW s \in Stops
       PROVE  Supported(tt, query, rounds, K + 1, cur', s)
  <2>1. CASE improves /\ s = stop
    <3>1. cur'[s] = label
      BY <1>3, <1>8, <2>1
    <3>2. /\ OnBoard
          /\ PatternAllowed(pattern, query)
      BY <1>1, <2>1 DEF ScanInv, pattern
    <3>3. K \in 1 .. ((K + 1) - 1)
      BY <1>5
    <3> DEFINE parent == Board(scan.pattern, scan.trip, scan.from, scan.pos, K)
    <3>4. RideSupports(tt, query, parent, s, arrival,
                       Prev[pattern.stops[scan.from]])
      BY <1>4, <2>1, <3>2, Zenon DEF RideSupports, OnBoard, pattern, Board
    <3>5. /\ label.parent = parent
          /\ label.time = arrival
      BY DEF label, Label
    <3>6. /\ parent.kind = "board" /\ parent.round = K
          /\ rounds[parent.round]
                [tt.patterns[parent.pattern].stops[parent.board]]
               = Prev[pattern.stops[scan.from]]
      BY DEF Board, Prev, pattern
    <3> HIDE DEF parent
    <3> QED BY <3>1, <3>3, <3>4, <3>5, <3>6 DEF Supported
  <2>2. CASE ~(improves /\ s = stop)
    <3>1. cur'[s] = cur[s]
      BY <1>3, <1>8, <2>2
    <3>2. Supported(tt, query, rounds, K + 1, cur, s)
      BY <1>1 DEF LabelsSupported
    <3>3. tt \in Timetables /\ K + 1 \in Nat
      BY <1>1, <1>5 DEF TypeOK
    <3> QED BY <1>8, <1>9, <3>1, <3>2, <3>3, SupportSurvives
  <2> QED BY <2>1, <2>2
<1>16. LabelsSupported'
  BY <1>1, <1>2, <1>15 DEF LabelsSupported
<1>17. BestInv'
  <2>1. \A s \in Stops : cur'[s].time <= best[s]
    BY <1>1, <1>5, <1>8, <1>9 DEF BestInv, BestIsEarliest, Labels
  <2>2. \A s \in Stops \ nextMarked' : cur'[s].time = best[s]
    BY <1>1, <1>3 DEF BestInv
  <2> QED BY <1>1, <1>2, <1>3, <2>1, <2>2 DEF BestInv, BestIsEarliest
<1>18. TraceInv'
  BY <1>3 DEF TraceInv
<1> QED BY <1>12, <1>13, <1>14, <1>16, <1>17, <1>18 DEF SearchInv

(* Committing what a round improved makes best the labels of the round.    *)
LEMMA CommitFacts ==
  ASSUME SearchInv, NEW stops \in SUBSET Stops,
         \A s \in Stops \ stops : cur[s].time = best[s]
  PROVE  /\ Commit(stops) = Times(cur)
         /\ Commit(stops) \in [Stops -> 0 .. Inf]
         /\ \A s \in Stops : Commit(stops)[s] <= best[s]
<1>1. \A s \in Stops : cur[s].time \in 0 .. Inf /\ best[s] \in 0 .. Inf
  BY RoundFacts DEF SearchInv
<1>2. \A s \in Stops : cur[s].time <= best[s]
  BY DEF SearchInv, BestInv, BestIsEarliest
<1>3. \A s \in Stops : Commit(stops)[s] = cur[s].time
  BY <1>1, <1>2 DEF Commit
<1> QED BY <1>1, <1>2, <1>3 DEF Commit, Times

LEMMA StartWalksStep ==
  ASSUME SearchInv, StartWalks
  PROVE  SearchInv'
<1> USE DEF SearchInv, StartWalks
<1>1. /\ best' = Times(cur)
      /\ best' \in [Stops -> 0 .. Inf]
      /\ \A s \in Stops : best'[s] <= best[s]
  <2>1. nextMarked \in SUBSET Stops
    BY DEF TypeOK
  <2>2. \A s \in Stops \ nextMarked : cur[s].time = best[s]
    BY DEF BestInv
  <2> QED BY <2>1, <2>2, CommitFacts
<1>2. TypeOK'
  BY <1>1 DEF TypeOK
<1>3. LoopsInv'
  BY DEF LoopsInv, K
<1>4. LabelsSupported'
  BY SupportUnchanged
<1>5. BestInv'
  <2>1. /\ \A s \in Stops : cur[s].time \in 0 .. Inf /\ best[s] \in 0 .. Inf
        /\ \A k \in DOMAIN rounds, s \in Stops :
              rounds[k][s].time \in 0 .. Inf /\ best[s] <= rounds[k][s].time
    BY RoundFacts DEF BestInv, BestIsEarliest
  <2>2. \A s \in Stops : best'[s] = cur[s].time
    BY <1>1 DEF Times
  <2>3. \A k \in DOMAIN rounds, s \in Stops : best'[s] <= rounds[k][s].time
    BY <1>1, <2>1, <2>2
  <2>4. \A s \in Stops : cur'[s].time = best'[s] /\ cur'[s].time <= best'[s]
    BY <2>1, <2>2
  <2> QED BY <2>3, <2>4 DEF BestInv, BestIsEarliest
<1> QED BY <1>2, <1>3, <1>4, <1>5 DEF ScanInv, TraceInv

LEMMA RelaxWalksStep ==
  ASSUME SearchInv, RelaxWalks
  PROVE  SearchInv'
<1> USE DEF SearchInv
<1> DEFINE s == Min(relaxing)
           better == WalkImproves(s)
           w(t) == tt.walks[<<s, t>>]
<1>1. /\ cur' = [t \in Stops |->
                  IF t \in better
                  THEN Label(cur[s].time + w(t), Transfer(s, w(t)))
                  ELSE cur[t]]
      /\ walked' = walked \cup better
      /\ relaxing' = relaxing \ {s}
      /\ pc = "walks"
  BY DEF RelaxWalks
<1>2. /\ tt' = tt /\ query' = query /\ pc' = pc /\ rounds' = rounds
      /\ best' = best /\ marked' = marked /\ touched' = touched
      /\ scan' = scan /\ nextMarked' = nextMarked
      /\ collecting' = collecting /\ trace' = trace
      /\ bestSoFar' = bestSoFar /\ journeys' = journeys
      /\ K' = K
  BY DEF RelaxWalks, K
<1>3. s \in relaxing /\ s \in Stops
  BY StopsAssumption, MinOfNats DEF RelaxWalks, TypeOK
<1>4. /\ \A t \in Stops : cur[t].time \in 0 .. Inf /\ best[t] \in 0 .. Inf
      /\ K \in Nat \ {0}
  BY RoundFacts
<1>5. \A t \in better : /\ t \in Stops /\ t # s
                        /\ <<s, t>> \in DOMAIN tt.walks
                        /\ w(t) \in Nat /\ w(t) > 0
                        /\ cur[s].time + w(t) < best[t]
                        /\ cur[s].time + w(t) < cur[t].time
  <2> SUFFICES ASSUME NEW t \in better
               PROVE  /\ t \in Stops /\ t # s
                      /\ <<s, t>> \in DOMAIN tt.walks
                      /\ w(t) \in Nat /\ w(t) > 0
                      /\ cur[s].time + w(t) < best[t]
                      /\ cur[s].time + w(t) < cur[t].time
    OBVIOUS
  <2>1. /\ t \in Stops
        /\ <<s, t>> \in DOMAIN tt.walks
        /\ cur[s].time + w(t) < best[t]
        /\ cur[s].time + w(t) < cur[t].time
    BY DEF WalkImproves
  <2>2. w(t) \in Nat /\ w(t) > 0
    BY <2>1, WalkFacts DEF TypeOK
  <2>3. t # s
    BY <1>3, <1>4, <2>1, <2>2
  <2> QED BY <2>1, <2>2, <2>3
<1> HIDE DEF better, w, s
<1>6. cur \in [Stops -> Labels]
  BY DEF TypeOK
<1>7. ASSUME NEW t \in better
      PROVE  /\ cur[s].time + w(t) \in 0 .. Inf
             /\ cur[s].time # Inf
             /\ Label(cur[s].time + w(t), Transfer(s, w(t))) \in Labels
  <2>1. cur[s].time + w(t) \in 0 .. Inf /\ cur[s].time # Inf
    <3>1. w(t) \in Nat /\ cur[s].time + w(t) < best[t]
      BY <1>5
    <3>2. cur[s].time \in 0 .. Inf /\ best[t] \in 0 .. Inf
      BY <1>3, <1>4, <1>5
    <3>3. \A c, d, b : /\ c \in 0 .. Inf /\ d \in Nat /\ b \in 0 .. Inf
                       /\ c + d < b
                       => c + d \in 0 .. Inf /\ c # Inf
      BY InfAssumption
    <3> QED BY <3>1, <3>2, <3>3
  <2>2. Transfer(s, w(t)) \in Parents
    BY <1>3, <1>5 DEF Transfer, Parents
  <2> QED BY <2>1, <2>2 DEF Label, Labels
<1>8. cur' \in [Stops -> Labels]
  BY <1>1, <1>6, <1>7
<1>9. \A t \in Stops : cur'[t].time <= cur[t].time
  <2> SUFFICES ASSUME NEW t \in Stops PROVE cur'[t].time <= cur[t].time
    OBVIOUS
  <2>1. CASE t \in better
    <3>1. cur'[t].time = cur[s].time + w(t)
      BY <1>1, <2>1 DEF Label
    <3>2. cur[s].time + w(t) < cur[t].time
      BY <1>5, <2>1
    <3>3. cur'[t].time < cur[t].time
      BY <3>1, <3>2, Zenon
    <3>4. cur'[t].time \in 0 .. Inf /\ cur[t].time \in 0 .. Inf
      BY <1>4, <1>7, <2>1, <3>1
    <3> QED BY <3>3, <3>4
  <2>2. CASE t \notin better
    BY <1>1, <1>4, <2>2
  <2> QED BY <2>1, <2>2
<1>10. TypeOK'
  <2>1. walked' \in SUBSET Stops /\ relaxing' \in SUBSET Stops
    BY <1>1, <1>5 DEF TypeOK
  <2> QED BY <1>2, <1>8, <2>1 DEF TypeOK
<1>11. LoopsInv'
  BY <1>1, <1>2 DEF LoopsInv, K
<1>12. ASSUME NEW t \in Stops
       PROVE  Supported(tt, query, rounds, K + 1, cur', t)
  <2>1. CASE t \in better
    <3>1. cur'[t] = Label(cur[s].time + w(t), Transfer(s, w(t)))
      BY <1>1, <2>1
    <3>2. cur'[s] = cur[s]
      BY <1>1, <1>3, <1>5
    <3>3. cur[s].time + w(t) <= cur[s].time + w(t)
      BY <1>7, <2>1
    <3>4. /\ cur'[t].parent.kind = "transfer"
          /\ cur'[t].parent.from = s
          /\ cur'[t].parent.duration = w(t)
          /\ cur'[t].time = cur[s].time + w(t)
      BY <3>1 DEF Label, Transfer
    <3>5. <<s, t>> \in DOMAIN tt.walks /\ cur[s].time # Inf
      BY <1>5, <1>7, <2>1
    <3>6. w(t) = tt.walks[<<s, t>>]
      BY DEF w
    <3> QED BY <3>2, <3>3, <3>4, <3>5, <3>6 DEF Supported
  <2>2. CASE t \notin better
    <3>1. cur'[t] = cur[t]
      BY <1>1, <2>2
    <3>2. Supported(tt, query, rounds, K + 1, cur, t)
      BY DEF LabelsSupported
    <3>3. tt \in Timetables /\ K + 1 \in Nat
      BY <1>4 DEF TypeOK
    <3> QED BY <1>6, <1>8, <1>9, <3>1, <3>2, <3>3, SupportSurvives
  <2> QED BY <2>1, <2>2
<1>13. LabelsSupported'
  BY <1>2, <1>12 DEF LabelsSupported
<1>14. BestInv'
  <2>1. \A t \in Stops : cur'[t].time <= best[t]
    BY <1>4, <1>8, <1>9 DEF BestInv, BestIsEarliest, Labels
  <2>2. \A t \in Stops \ (nextMarked \cup walked') : cur'[t].time = best[t]
    BY <1>1 DEF BestInv
  <2> QED BY <1>1, <1>2, <2>1, <2>2 DEF BestInv, BestIsEarliest
<1>15. ScanInv' /\ TraceInv'
  BY <1>1, <1>2 DEF ScanInv, TraceInv
<1> QED BY <1>10, <1>11, <1>13, <1>14, <1>15

LEMMA EndRoundStep ==
  ASSUME SearchInv, EndRound
  PROVE  SearchInv'
<1> USE DEF SearchInv
<1> DEFINE improved == nextMarked \cup walked
<1>1. /\ best' = Commit(improved)
      /\ rounds' = Append(rounds, cur)
      /\ marked' = IF improved = {} THEN marked ELSE improved
      /\ pc' = IF improved = {} THEN "collect" ELSE "round"
      /\ pc = "walks"
  BY DEF EndRound
<1>2. /\ tt' = tt /\ query' = query /\ cur' = cur /\ touched' = touched
      /\ scan' = scan /\ nextMarked' = nextMarked /\ relaxing' = relaxing
      /\ walked' = walked /\ collecting' = collecting /\ trace' = trace
      /\ bestSoFar' = bestSoFar /\ journeys' = journeys
  BY DEF EndRound
<1>3. /\ best' = Times(cur)
      /\ best' \in [Stops -> 0 .. Inf]
      /\ \A s \in Stops : best'[s] <= best[s]
  <2>1. improved \in SUBSET Stops
    BY DEF TypeOK
  <2>2. \A s \in Stops \ improved : cur[s].time = best[s]
    BY <1>1 DEF BestInv
  <2> QED BY <1>1, <2>1, <2>2, CommitFacts
<1>4. /\ K \in Nat \ {0}
      /\ DOMAIN rounds = 1 .. K
      /\ cur \in [Stops -> Labels]
      /\ \A s \in Stops : cur[s].time \in 0 .. Inf /\ best[s] \in 0 .. Inf
      /\ \A k \in DOMAIN rounds, s \in Stops : rounds[k][s].time \in 0 .. Inf
  BY RoundFacts DEF TypeOK
<1>5. rounds \in Seq([Stops -> Labels])
  BY DEF TypeOK
<1>6. /\ rounds' \in Seq([Stops -> Labels])
      /\ K' = K + 1
      /\ DOMAIN rounds' = 1 .. (K + 1)
      /\ rounds'[K + 1] = cur
      /\ \A k \in 1 .. K : rounds'[k] = rounds[k]
  BY <1>1, <1>4, <1>5 DEF K
<1>7. TypeOK'
  BY <1>1, <1>2, <1>3, <1>6 DEF TypeOK
<1>8. LoopsInv'
  BY <1>1, <1>2, <1>4, <1>6 DEF LoopsInv
<1>9. LabelsSupported'
  <2>1. ASSUME NEW k \in 1 .. K, NEW s \in Stops
        PROVE  Supported(tt, query, rounds', k, rounds'[k], s)
    <3>1. Supported(tt, query, rounds, k, rounds[k], s)
      BY <1>4 DEF LabelsSupported
    <3>2. k \in Nat /\ k <= k
      OBVIOUS
    <3>3. \A i \in 1 .. (k - 1) : rounds'[i] = rounds[i]
      BY <1>4, <1>6
    <3> QED BY <1>6, <3>1, <3>2, <3>3, SupportGrows
  <2>2. ASSUME NEW s \in Stops, NEW m \in Nat, K + 1 <= m
        PROVE  Supported(tt, query, rounds', m, cur, s)
    <3>1. Supported(tt, query, rounds, K + 1, cur, s)
      BY DEF LabelsSupported
    <3>2. K + 1 \in Nat
      BY <1>4
    <3>3. \A i \in 1 .. ((K + 1) - 1) : rounds'[i] = rounds[i]
      BY <1>4, <1>6
    <3> QED BY <2>2, <3>1, <3>2, <3>3, SupportGrows
  <2>3. \A s \in Stops : Supported(tt, query, rounds', K' + 1, cur, s)
    BY <1>4, <1>6, <2>2
  <2>4. \A k \in DOMAIN rounds', s \in Stops :
          Supported(tt, query, rounds', k, rounds'[k], s)
    BY <1>4, <1>6, <2>1, <2>2
  <2> QED BY <1>2, <2>3, <2>4 DEF LabelsSupported
<1>10. BestInv'
  <2>1. \A s \in Stops : best'[s] = cur[s].time
    BY <1>3 DEF Times
  <2>2. \A k \in DOMAIN rounds, s \in Stops : best'[s] <= rounds[k][s].time
    <3>1. \A k \in DOMAIN rounds, s \in Stops : best[s] <= rounds[k][s].time
      BY DEF BestInv, BestIsEarliest
    <3> QED BY <1>3, <1>4, <2>1, <3>1
  <2>3. \A k \in DOMAIN rounds', s \in Stops : best'[s] <= rounds'[k][s].time
    BY <1>4, <1>6, <2>1, <2>2
  <2>4. \A s \in Stops : cur'[s].time <= best'[s]
    BY <1>2, <1>4, <2>1
  <2>5. best' = Times(rounds'[Len(rounds')])
    BY <1>3, <1>6 DEF K
  <2>6. pc' \notin {"patterns", "scan", "walks"}
    BY <1>1
  <2> QED BY <2>3, <2>4, <2>5, <2>6 DEF BestInv, BestIsEarliest
<1>11. ScanInv' /\ TraceInv'
  BY <1>1 DEF ScanInv, TraceInv
<1> QED BY <1>7, <1>8, <1>9, <1>10, <1>11

LEMMA SkipRoundStep ==
  ASSUME SearchInv, SkipRound
  PROVE  SearchInv'
<1> USE DEF SearchInv, SkipRound
<1>1. LabelsSupported'
  BY SupportUnchanged
<1>2. BestInv'
  BY DEF BestInv, BestIsEarliest
<1>3. TypeOK' /\ LoopsInv'
  BY DEF TypeOK, LoopsInv, K
<1> QED BY <1>1, <1>2, <1>3 DEF ScanInv, TraceInv

(* StartTrace traces from a label the round holds, by a link the query has. *)
LEMMA StartTraceFacts ==
  ASSUME SearchInv, StartTrace
  PROVE  LET round == rounds[collecting]
             e     == BestEgress(round)
             link  == query.egress[e]
         IN  /\ e \in UsableEgress(round)
             /\ link.stop \in Stops
             /\ link.duration \in Nat
             /\ round[link.stop].time # Inf
             /\ collecting \in DOMAIN rounds
             /\ collecting \in Nat
             /\ round[link.stop].time \in Nat
<1> USE DEF SearchInv
<1> DEFINE round == rounds[collecting]
           e     == BestEgress(round)
           link  == query.egress[e]
<1>1. e # 0 /\ collecting <= Len(rounds)
  BY DEF StartTrace, Improvement
<1>2. query \in Queries /\ query.egress \in Seq(StreetLink)
  BY QueryFacts DEF TypeOK
<1>3. e \in UsableEgress(round)
  <2> DEFINE usable == UsableEgress(round)
             least  == {i \in usable : \A j \in usable :
                          Total(round, query.egress[i])
                            <= Total(round, query.egress[j])}
  <2>1. least \in SUBSET Nat /\ (e # 0 => e = Min(least))
    <3>1. usable \subseteq DOMAIN query.egress /\ DOMAIN query.egress \subseteq Nat
      BY <1>2 DEF UsableEgress
    <3>2. e # 0 => e = Min(least)
      BY DEF BestEgress
    <3> QED BY <3>1, <3>2
  <2>2. least # {}
    <3> DEFINE totals == {Total(round, query.egress[i]) : i \in usable}
    <3>1. usable # {}
      BY <1>1 DEF BestEgress
    <3>2. \A i \in usable : Total(round, query.egress[i]) \in Nat
      <4>1. collecting \in DOMAIN rounds
        BY <1>1, RoundFacts DEF TypeOK, LoopsInv, K
      <4> QED BY <1>2, <4>1, QueryFacts, RoundFacts, InfAssumption
              DEF UsableEgress, Total
    <3>3. totals \in SUBSET Nat /\ totals # {}
      BY <3>1, <3>2
    <3>4. Min(totals) \in totals /\ \A y \in totals : Min(totals) <= y
      BY <3>3, MinOfNats
    <3>5. PICK i \in usable : Min(totals) = Total(round, query.egress[i])
      BY <3>4
    <3>6. i \in least
      BY <3>4, <3>5
    <3> QED BY <3>6
  <2>3. Min(least) \in least
    BY <2>1, <2>2, MinOfNats
  <2> QED BY <1>1, <2>1, <2>3
<1>4. /\ link.stop \in Stops
      /\ link.duration \in Nat
      /\ round[link.stop].time # Inf
  BY <1>2, <1>3, QueryFacts DEF UsableEgress
<1>5. /\ collecting \in DOMAIN rounds
      /\ collecting \in Nat
      /\ round[link.stop].time \in Nat
  <2>1. collecting \in DOMAIN rounds /\ collecting \in Nat
    BY <1>1, RoundFacts DEF TypeOK, LoopsInv, K
  <2> QED BY <1>4, <2>1, RoundFacts, InfAssumption
<1> QED BY <1>3, <1>4, <1>5

LEMMA StartTraceStep ==
  ASSUME SearchInv, StartTrace
  PROVE  SearchInv'
<1> USE DEF SearchInv
<1> DEFINE round == rounds[collecting]
           e     == BestEgress(round)
           link  == query.egress[e]
<1>1. /\ e # 0
      /\ bestSoFar' = Total(round, link)
      /\ trace' = [stop |-> link.stop, round |-> collecting,
                   legs |-> WalkIfAny(link.stop, link.duration)]
      /\ pc' = "trace" /\ pc = "collect"
      /\ collecting <= Len(rounds)
  BY DEF StartTrace, Improvement
<1>2. /\ tt' = tt /\ query' = query /\ rounds' = rounds /\ cur' = cur
      /\ best' = best /\ marked' = marked /\ touched' = touched
      /\ scan' = scan /\ nextMarked' = nextMarked /\ relaxing' = relaxing
      /\ walked' = walked /\ collecting' = collecting
      /\ journeys' = journeys
  BY DEF StartTrace
<1>3. /\ link.stop \in Stops
      /\ link.duration \in Nat
      /\ round[link.stop].time # Inf
      /\ collecting \in DOMAIN rounds
      /\ collecting \in Nat
      /\ round[link.stop].time \in Nat
  BY StartTraceFacts
<1>4. TypeOK'
  <2>1. bestSoFar' \in Nat
    BY <1>1, <1>3 DEF Total
  <2>2. trace' \in [stop : Nat, round : Nat, legs : Seq(Legs)]
    BY <1>1, <1>3, WalkIfAnyType, StopsAssumption
  <2> QED BY <1>1, <1>2, <2>1, <2>2 DEF TypeOK
<1>5. LoopsInv'
  BY <1>1, <1>2 DEF LoopsInv, K
<1>6. LabelsSupported'
  BY <1>2, SupportUnchanged
<1>7. BestInv'
  BY <1>1, <1>2 DEF BestInv, BestIsEarliest
<1>8. TraceInv'
  BY <1>1, <1>2, <1>3 DEF TraceInv
<1> QED BY <1>1, <1>4, <1>5, <1>6, <1>7, <1>8 DEF ScanInv

(* A ride boards at a stop it serves, and takes time.                      *)
LEMMA RideFacts ==
  ASSUME NEW t \in Timetables, NEW qu, NEW p, NEW s, NEW time, NEW from,
         from.time \in Nat, RideSupports(t, qu, p, s, time, from)
  PROVE  /\ p.pattern \in Nat /\ p.trip \in Nat
         /\ p.board \in Nat /\ p.alight \in Nat
         /\ t.patterns[p.pattern].stops[p.board] \in Stops
         /\ from.time <= time
<1> DEFINE pattern == t.patterns[p.pattern]
           trip    == pattern.trips[p.trip]
<1>1. /\ p.pattern \in DOMAIN t.patterns
      /\ p.trip \in DOMAIN pattern.trips
      /\ p.board \in DOMAIN pattern.stops
      /\ p.alight \in DOMAIN pattern.stops
      /\ p.board < p.alight
      /\ trip.arrivals[p.alight] = time
      /\ trip.departures[p.board] >= BoardingReady(from)
  BY DEF RideSupports
<1>2. p.pattern \in Nat /\ pattern.stops \in Seq(Stops)
  BY <1>1, PatternFacts
<1> HIDE DEF pattern
<1>3. p.board \in Nat /\ p.alight \in Nat /\ pattern.stops[p.board] \in Stops
  BY <1>1, <1>2
<1>4. /\ p.trip \in Nat
      /\ trip.departures[p.board] \in Nat
      /\ time \in Nat
      /\ trip.departures[p.board] <= time
  <2>1. /\ p.trip \in Nat \ {0}
        /\ \A x \in DOMAIN pattern.stops :
              trip.arrivals[x] \in Nat /\ trip.departures[x] \in Nat
        /\ \A x, y \in DOMAIN pattern.stops :
              x < y => trip.departures[x] <= trip.arrivals[y]
    BY <1>1, TripFacts, Zenon DEF pattern
  <2> QED BY <1>1, <2>1
<1>5. from.time <= BoardingReady(from) /\ BoardingReady(from) \in Nat
  BY BufferAssumption DEF BoardingReady
<1> HIDE DEF trip
<1>6. from.time <= time
  BY <1>1, <1>4, <1>5
<1> QED BY <1>2, <1>3, <1>4, <1>6 DEF pattern

(* The label a trace is at: the ride that explains it.                     *)
LEMMA TracedRideHolds ==
  ASSUME SearchInv, pc = "trace", TracedParent.kind = "board"
  PROVE  LET p == TracedParent
         IN  /\ p.round \in 1 .. (trace.round - 1)
             /\ RideSupports(tt, query, p, trace.stop, TracedTime,
                  rounds[p.round][tt.patterns[p.pattern].stops[p.board]])
<1> DEFINE label == rounds[trace.round][trace.stop]
           p     == label.parent
           from  == rounds[p.round][tt.patterns[p.pattern].stops[p.board]]
<1>1. /\ p.kind = "board"
      /\ Supported(tt, query, rounds, trace.round, rounds[trace.round],
                   trace.stop)
  BY DEF SearchInv, TraceInv, LabelsSupported, TracedParent
<1>2. label # Unreached
  BY <1>1 DEF Unreached, Label, NoParent
<1>3. label # AccessLabels(query)[trace.stop]
  <2>1. trace.stop \in Stops
    BY DEF SearchInv, TraceInv
  <2> QED BY <1>1, <2>1 DEF AccessLabels, Unreached, Label, NoParent, Access
<1> HIDE DEF from, p, label
<1>4. p.kind # "transfer"
  BY <1>1
<1>5. /\ p.round \in 1 .. (trace.round - 1)
      /\ RideSupports(tt, query, p, trace.stop, label.time, from)
  BY <1>1, <1>2, <1>3, <1>4, Zenon DEF Supported, from, p, label
<1> QED BY <1>5, Zenon DEF TracedParent, TracedTime, from, label, p

(* The label a trace is at: where its parent leads.                        *)
LEMMA TracedRide ==
  ASSUME SearchInv, pc = "trace", TracedParent.kind = "board"
  PROVE  LET p    == TracedParent
             from == tt.patterns[p.pattern].stops[p.board]
         IN  /\ p.pattern \in Nat /\ p.trip \in Nat
             /\ p.board \in Nat /\ p.alight \in Nat
             /\ p.round \in Nat /\ p.round \in DOMAIN rounds
             /\ p.round < trace.round
             /\ from \in Stops
             /\ rounds[p.round][from].time # Inf
             /\ rounds[p.round][from].time <= TracedTime
<1> USE DEF SearchInv
<1> DEFINE label == rounds[trace.round][trace.stop]
           p     == label.parent
           stop  == tt.patterns[p.pattern].stops[p.board]
           from  == rounds[p.round][stop]
<1>1. trace.round \in DOMAIN rounds /\ trace.stop \in Stops
  BY DEF TraceInv
<1>2. /\ p.round \in 1 .. (trace.round - 1)
      /\ RideSupports(tt, query, p, trace.stop, label.time, from)
  BY TracedRideHolds, Zenon DEF TracedParent, TracedTime
<1> HIDE DEF label, p
<1>3. /\ p.round \in Nat /\ p.round \in DOMAIN rounds
      /\ p.round < trace.round
  <2>1. K \in Nat /\ DOMAIN rounds = 1 .. K
    BY RoundFacts
  <2>2. trace.round \in 1 .. K
    BY <1>1, <2>1
  <2>3. p.round \in 1 .. (trace.round - 1)
    BY <1>2
  <2> QED BY <2>1, <2>2, <2>3
<1>4. /\ from.time # Inf
      /\ stop \in Stops
  <2>1. /\ p.pattern \in DOMAIN tt.patterns
        /\ p.board \in DOMAIN tt.patterns[p.pattern].stops
    BY <1>2, Zenon DEF RideSupports
  <2>2. tt.patterns[p.pattern].stops \in Seq(Stops)
    BY <2>1, PatternFacts DEF TypeOK
  <2>3. stop \in Stops
    BY <2>1, <2>2
  <2>4. from.time # Inf
    BY <1>2, Zenon DEF RideSupports
  <2> QED BY <2>3, <2>4
<1>5. from.time \in Nat
  BY <1>3, <1>4, LabelTime
<1>6. tt \in Timetables
  BY DEF TypeOK
<1> HIDE DEF from
<1>7. /\ p.pattern \in Nat /\ p.trip \in Nat
      /\ p.board \in Nat /\ p.alight \in Nat
      /\ from.time <= label.time
  BY <1>2, <1>5, <1>6, RideFacts
<1> QED BY <1>3, <1>4, <1>7, Zenon DEF TracedParent, TracedTime, from, label, p

(* The label a trace is at: the walk that explains it.                     *)
LEMMA TracedWalkHolds ==
  ASSUME SearchInv, pc = "trace", TracedParent.kind = "transfer"
  PROVE  LET p == TracedParent
         IN  /\ <<p.from, trace.stop>> \in DOMAIN tt.walks
             /\ p.duration = tt.walks[<<p.from, trace.stop>>]
             /\ p.duration \in Nat
             /\ p.duration > 0
             /\ rounds[trace.round][p.from].time # Inf
             /\ rounds[trace.round][p.from].time + p.duration <= TracedTime
<1> USE DEF SearchInv
<1> DEFINE label == rounds[trace.round][trace.stop]
           p     == label.parent
<1>1. /\ trace.round \in DOMAIN rounds
      /\ trace.stop \in Stops
      /\ p.kind = "transfer"
      /\ Supported(tt, query, rounds, trace.round, rounds[trace.round],
                   trace.stop)
  BY DEF TraceInv, LabelsSupported, TracedParent
<1>2. /\ <<p.from, trace.stop>> \in DOMAIN tt.walks
      /\ p.duration = tt.walks[<<p.from, trace.stop>>]
      /\ rounds[trace.round][p.from].time # Inf
      /\ rounds[trace.round][p.from].time + p.duration <= label.time
  <2>1. label # Unreached
    BY <1>1 DEF Unreached, Label, NoParent
  <2>2. label # AccessLabels(query)[trace.stop]
    BY <1>1 DEF AccessLabels, Unreached, Label, NoParent, Access
  <2>3. p.kind # "board"
    BY <1>1
  <2> QED BY <1>1, <2>1, <2>2, <2>3 DEF Supported
<1>3. p.duration \in Nat /\ p.duration > 0
  BY <1>2, WalkFacts DEF TypeOK
<1> QED BY <1>2, <1>3, Zenon DEF TracedParent, TracedTime

LEMMA TracedWalk ==
  ASSUME SearchInv, pc = "trace", TracedParent.kind = "transfer"
  PROVE  LET p == TracedParent
         IN  /\ p.from \in Stops
             /\ p.duration \in Nat
             /\ rounds[trace.round][p.from].time # Inf
             /\ rounds[trace.round][p.from].time < TracedTime
<1> USE DEF SearchInv
<1> DEFINE label == rounds[trace.round][trace.stop]
           p     == label.parent
<1>1. trace.round \in DOMAIN rounds /\ trace.stop \in Stops
  BY DEF TraceInv
<1>2. /\ <<p.from, trace.stop>> \in DOMAIN tt.walks
      /\ p.duration \in Nat /\ p.duration > 0
      /\ rounds[trace.round][p.from].time # Inf
      /\ rounds[trace.round][p.from].time + p.duration <= label.time
  BY TracedWalkHolds, Zenon DEF TracedParent, TracedTime
<1>3. p.from \in Stops
  <2>1. DOMAIN tt.walks \subseteq Stops \X Stops
    BY TimetablesAssumption DEF TypeOK, WellFormedTimetable, WalksAreTransfers
  <2> QED BY <1>2, <2>1
<1> DEFINE earlier == rounds[trace.round][p.from].time
           later   == label.time
<1>4. earlier \in Nat /\ later \in Nat
  BY <1>1, <1>3, LabelTime
<1>5. earlier < later
  <2>1. earlier + p.duration <= later
    BY <1>2
  <2> HIDE DEF earlier, later, p
  <2> QED BY <1>2, <1>4, <2>1
<1> QED BY <1>2, <1>3, <1>5 DEF TracedParent, TracedTime

LEMMA TraceRideStep ==
  ASSUME SearchInv, TraceRide
  PROVE  SearchInv'
<1> USE DEF SearchInv, TraceRide
<1> DEFINE p    == TracedParent
           from == tt.patterns[p.pattern].stops[p.board]
           leg  == Ride(p.pattern, p.trip, p.board, p.alight)
<1>1. /\ p.pattern \in Nat /\ p.trip \in Nat
      /\ p.board \in Nat /\ p.alight \in Nat
      /\ p.round \in Nat /\ p.round \in DOMAIN rounds
      /\ from \in Stops
      /\ rounds[p.round][from].time # Inf
  BY TracedRide, Zenon
<1>2. leg \in Legs
  BY <1>1 DEF Ride, Legs
<1> HIDE DEF p, leg
<1>3. trace \in [stop : Nat, round : Nat, legs : Seq(Legs)]
  BY DEF TypeOK
<1>4. trace' = [trace EXCEPT !.stop = from, !.round = p.round,
                             !.legs = <<leg>> \o @]
  BY DEF p, leg
<1>5. /\ trace'.stop = from /\ trace'.round = p.round
      /\ trace' \in [stop : Nat, round : Nat, legs : Seq(Legs)]
  <2>1. <<leg>> \o trace.legs \in Seq(Legs)
    BY <1>2, <1>3
  <2>2. from \in Nat
    BY <1>1, StopsAssumption
  <2> QED BY <1>1, <1>3, <1>4, <2>1, <2>2, Zenon
<1>6. TypeOK'
  BY <1>5 DEF TypeOK
<1>7. LoopsInv'
  BY DEF LoopsInv, K
<1>8. LabelsSupported'
  BY SupportUnchanged
<1>9. BestInv'
  BY DEF BestInv, BestIsEarliest
<1>10. TraceInv'
  BY <1>1, <1>5, Zenon DEF TraceInv
<1> QED BY <1>6, <1>7, <1>8, <1>9, <1>10 DEF ScanInv

LEMMA TraceWalkStep ==
  ASSUME SearchInv, TraceWalk
  PROVE  SearchInv'
<1> USE DEF SearchInv, TraceWalk
<1> DEFINE p   == TracedParent
           out == WalkIfAny(trace.stop, p.duration)
<1>1. /\ p.from \in Stops
      /\ p.duration \in Nat
      /\ rounds[trace.round][p.from].time # Inf
  BY TracedWalk
<1>2. out \in Seq(Legs)
  BY <1>1, WalkIfAnyType DEF TraceInv
<1> HIDE DEF p, out
<1>3. trace \in [stop : Nat, round : Nat, legs : Seq(Legs)]
  BY DEF TypeOK
<1>4. trace' = [trace EXCEPT !.stop = p.from, !.legs = out \o @]
  BY DEF p, out
<1>5. /\ trace'.stop = p.from /\ trace'.round = trace.round
      /\ trace' \in [stop : Nat, round : Nat, legs : Seq(Legs)]
  <2>1. out \o trace.legs \in Seq(Legs)
    BY <1>2, <1>3
  <2>2. p.from \in Nat
    BY <1>1, StopsAssumption
  <2> QED BY <1>3, <1>4, <2>1, <2>2
<1>6. TypeOK'
  BY <1>5 DEF TypeOK
<1>7. LoopsInv'
  BY DEF LoopsInv, K
<1>8. LabelsSupported'
  BY SupportUnchanged
<1>9. BestInv'
  BY DEF BestInv, BestIsEarliest
<1>10. TraceInv'
  BY <1>1, <1>5 DEF TraceInv
<1> QED BY <1>6, <1>7, <1>8, <1>9, <1>10 DEF ScanInv

LEMMA EndTraceStep ==
  ASSUME SearchInv, EndTrace
  PROVE  SearchInv'
<1> USE DEF SearchInv
<1> DEFINE links == LinksTo(query.access, trace.stop)
           walk  == IF TracedParent.kind = "access" /\ links # {}
                    THEN WalkIfAny(trace.stop,
                                   query.access[Min(links)].duration)
                    ELSE <<>>
           legs  == walk \o trace.legs
<1>1. /\ journeys' = Append(journeys, [legs |-> legs, arrival |-> bestSoFar,
                                       transfers |-> Transfers(legs)])
      /\ pc' = "collect" /\ pc = "trace"
      /\ collecting' = collecting + 1
      /\ trace' = NotTracing
      /\ tt' = tt /\ query' = query /\ rounds' = rounds /\ cur' = cur
      /\ best' = best /\ marked' = marked /\ touched' = touched
      /\ scan' = scan /\ nextMarked' = nextMarked /\ relaxing' = relaxing
      /\ walked' = walked /\ bestSoFar' = bestSoFar
  BY DEF EndTrace
<1>2. walk \in Seq(Legs)
  <2>1. CASE TracedParent.kind = "access" /\ links # {}
    <3>1. links \in SUBSET Nat
      BY QueryFacts DEF LinksTo, TypeOK
    <3>2. Min(links) \in DOMAIN query.access
      BY <2>1, <3>1, MinOfNats DEF LinksTo
    <3>3. query.access[Min(links)].duration \in Nat
      BY <3>2, QueryFacts DEF TypeOK
    <3> QED BY <1>1, <2>1, <3>3, WalkIfAnyType DEF TraceInv
  <2>2. CASE ~(TracedParent.kind = "access" /\ links # {})
    BY <2>2
  <2> QED BY <2>1, <2>2
<1>3. legs \in Seq(Legs)
  BY <1>2 DEF TypeOK
<1> HIDE DEF legs
<1>4. [legs |-> legs, arrival |-> bestSoFar, transfers |-> Transfers(legs)]
        \in Answers
  BY <1>3, RideCountType DEF Answers, TypeOK
<1>5. trace' \in [stop : Nat, round : Nat, legs : Seq(Legs)]
  BY <1>1 DEF NotTracing
<1>6. TypeOK'
  <2>1. journeys \in Seq(Answers) /\ collecting \in Nat
    BY DEF TypeOK
  <2>2. journeys' \in Seq(Answers)
    BY <1>1, <1>4, <2>1
  <2>3. collecting' \in Nat
    BY <1>1, <2>1
  <2> QED BY <1>1, <1>5, <2>2, <2>3 DEF TypeOK
<1>7. LoopsInv'
  <2>1. collecting \in Nat
    BY DEF TypeOK
  <2> QED BY <1>1, <2>1 DEF LoopsInv, K
<1>8. LabelsSupported'
  BY <1>1, SupportUnchanged
<1>9. BestInv'
  BY <1>1 DEF BestInv, BestIsEarliest
<1> QED BY <1>1, <1>6, <1>7, <1>8, <1>9 DEF ScanInv, TraceInv

LEMMA AnswerStep ==
  ASSUME SearchInv, Answer
  PROVE  SearchInv'
<1> USE DEF SearchInv, Answer
<1>1. LabelsSupported'
  BY SupportUnchanged
<1>2. BestInv'
  BY DEF BestInv, BestIsEarliest
<1> QED BY <1>1, <1>2 DEF TypeOK, LoopsInv, K, ScanInv, TraceInv

LEMMA StutteringStep ==
  ASSUME SearchInv, UNCHANGED vars
  PROVE  SearchInv'
<1> USE DEF SearchInv, vars
<1>1. LabelsSupported'
  BY SupportUnchanged
<1>2. BestInv'
  BY DEF BestInv, BestIsEarliest
<1>3. ScanInv'
  BY Zenon DEF ScanInv, OnBoard, Prev, K, BoardingReady
<1> QED BY <1>1, <1>2, <1>3 DEF TypeOK, LoopsInv, K, TraceInv

-----------------------------------------------------------------------------
LEMMA NextInv == SearchInv /\ [Next]_vars => SearchInv'
<1> SUFFICES ASSUME SearchInv, [Next]_vars PROVE SearchInv'
  OBVIOUS
<1>1. CASE StartRound
  BY <1>1, StartRoundStep
<1>2. CASE LastRoundDone
  BY <1>2, LastRoundDoneStep
<1>3. CASE SkipPattern
  BY <1>3, SkipPatternStep
<1>4. CASE StartPattern
  BY <1>4, StartPatternStep
<1>5. CASE ScanPosition
  BY <1>5, ScanPositionStep
<1>6. CASE StartWalks
  BY <1>6, StartWalksStep
<1>7. CASE RelaxWalks
  BY <1>7, RelaxWalksStep
<1>8. CASE EndRound
  BY <1>8, EndRoundStep
<1>9. CASE SkipRound
  BY <1>9, SkipRoundStep
<1>10. CASE StartTrace
  BY <1>10, StartTraceStep
<1>11. CASE TraceRide
  BY <1>11, TraceRideStep
<1>12. CASE TraceWalk
  BY <1>12, TraceWalkStep
<1>13. CASE EndTrace
  BY <1>13, EndTraceStep
<1>14. CASE Answer
  BY <1>14, AnswerStep
<1>15. CASE UNCHANGED vars
  BY <1>15, StutteringStep
<1> QED BY <1>1, <1>2, <1>3, <1>4, <1>5, <1>6, <1>7, <1>8, <1>9, <1>10, <1>11,
           <1>12, <1>13, <1>14, <1>15 DEF Next

LEMMA Invariance == Spec => []SearchInv
BY InitInv, NextInv, PTL DEF Spec

(* Every variable of a search keeps its type, the trace's and the answer's
   included: reconstruct never leaves the timetable.                       *)
THEOREM TypeCorrect == Spec => []TypeOK
<1>1. SearchInv => TypeOK
  BY DEF SearchInv
<1> QED BY <1>1, Invariance, PTL

(* A search never holds a label that no earlier label explains.            *)
THEOREM SearchIsSound == Spec => []LabelsSupported
<1>1. SearchInv => LabelsSupported
  BY DEF SearchInv
<1> QED BY <1>1, Invariance, PTL

(* The pruning bound is exact between rounds and never too late.           *)
THEOREM PruningIsExact == Spec => []BestIsEarliest
<1>1. SearchInv => BestIsEarliest
  BY DEF SearchInv, BestInv
<1> QED BY <1>1, Invariance, PTL

(* Each step of a trace goes to an earlier label, or to one of an earlier
   round that is no later: a trace cannot go round in circles.             *)
THEOREM TraceDescends == Spec => TraceGoesBack
<1> DEFINE Back == \/ TracedTime' < TracedTime
                   \/ TracedTime' = TracedTime /\ trace'.round < trace.round
<1>1. SearchInv /\ [Next]_vars => [pc = "trace" /\ pc' = "trace" => Back]_vars
  <2> SUFFICES ASSUME SearchInv, Next, pc = "trace", pc' = "trace"
               PROVE  Back
    OBVIOUS
  <2>0. TypeOK /\ LoopsInv /\ TraceInv
    BY DEF SearchInv
  <2>1. /\ trace \in [stop : Nat, round : Nat, legs : Seq(Legs)]
        /\ trace.round \in DOMAIN rounds /\ trace.stop \in Stops
        /\ TracedTime \in Nat
    <3>1. trace \in [stop : Nat, round : Nat, legs : Seq(Legs)]
      BY <2>0 DEF TypeOK
    <3>2. trace.round \in DOMAIN rounds /\ trace.stop \in Stops
      BY <2>0 DEF TraceInv
    <3>3. TracedTime \in Nat
      BY <2>0, <3>2, LabelTime DEF TracedTime
    <3> QED BY <3>1, <3>2, <3>3
  <2>2. CASE TraceRide
    <3> DEFINE p == TracedParent
               from == tt.patterns[p.pattern].stops[p.board]
    <3>1. /\ p.round \in DOMAIN rounds
          /\ p.round < trace.round
          /\ from \in Stops
          /\ rounds[p.round][from].time <= TracedTime
      BY <2>2, TracedRide, Zenon DEF TraceRide
    <3>2. trace'.stop = from /\ trace'.round = p.round /\ rounds' = rounds
      BY <2>1, <2>2 DEF TraceRide
    <3>3. TracedTime' = rounds[p.round][from].time
      BY <3>2 DEF TracedTime
    <3>4. rounds[p.round][from].time \in Nat
      BY <3>1, LabelTime DEF SearchInv
    <3> HIDE DEF from, p
    <3>5. trace'.round < trace.round
      BY <3>1, <3>2
    <3>6. TracedTime' <= TracedTime /\ TracedTime' \in Nat
      BY <3>1, <3>3, <3>4, Zenon
    <3> QED BY <2>1, <3>5, <3>6
  <2>3. CASE TraceWalk
    <3>1. rounds[trace.round][TracedParent.from].time < TracedTime
      BY <2>3, TracedWalk DEF TraceWalk
    <3>2. /\ trace'.stop = TracedParent.from /\ trace'.round = trace.round
          /\ rounds' = rounds
      BY <2>1, <2>3 DEF TraceWalk
    <3> QED BY <3>1, <3>2 DEF TracedTime
  <2> QED BY <2>2, <2>3 DEF Next, StartRound, LastRoundDone, SkipPattern,
             StartPattern, ScanPosition, StartWalks, RelaxWalks, EndRound,
             SkipRound, StartTrace, EndTrace, Answer
<1> QED BY <1>1, Invariance, PTL DEF Spec, TraceGoesBack

-----------------------------------------------------------------------------
(***************************************************************************)
(* Proof that the forward search implements KnownArrivals, for all         *)
(* timetables and queries that are well formed: whatever it marks, prunes  *)
(* and overwrites, it never claims an arrival that is not one ride or one   *)
(* walk away from an arrival it has at that moment.                        *)
(***************************************************************************)

(* What is walked on from in a round is what a ride of that round reached,
   or a walk since.                                                        *)
WalkedOnInv ==
  /\ pc = "walks" => relaxing \subseteq nextMarked
  /\ pc \in {"patterns", "scan", "walks"} =>
       \A s \in nextMarked : cur[s].parent.kind \in {"board", "transfer"}

RefinementInv == SearchInv /\ WalkedOnInv

-----------------------------------------------------------------------------
(* The steps of KnownArrivals, in the terms of Travel.                     *)
LEMMA SameTravel ==
  ASSUME NEW a
  PROVE  Arrivals!Taken(a) =
           RidesFrom(tt, query, a)
             \cup (IF a.kind = "access" THEN {} ELSE WalksFrom(tt, a))
             \cup {[a EXCEPT !.rides = @ + 1]}
BY DEF Arrivals!Taken, Arrivals!RidesFrom, RidesFrom, Arrivals!WalksFrom, WalksFrom,
       Arrivals!Arrival, Arrival, Arrivals!ReadyAt, ReadyAt,
       Arrivals!PatternAllowed, PatternAllowed, Arrivals!Boardable, Boardable

LEMMA SameAccess == Arrivals!AccessArrivals(query) = AccessArrivals(query)
BY DEF Arrivals!AccessArrivals, AccessArrivals, Arrivals!Arrival, Arrival

(* An arrival known is a label of a finished round, or of the one under way. *)
LEMMA KnownCases ==
  ASSUME NEW a \in Known
  PROVE  \/ \E k \in DOMAIN rounds, s \in Stops :
              rounds[k][s].time # Inf /\ a = AsArrival(rounds[k][s], s, k - 1)
         \/ /\ pc \in {"patterns", "scan", "walks"}
            /\ \E s \in Stops : cur[s].time # Inf /\ a = AsArrival(cur[s], s, K)
BY DEF Known, ArrivalsOf

LEMMA RoundIsKnown ==
  ASSUME NEW k \in DOMAIN rounds, NEW s \in Stops, rounds[k][s].time # Inf
  PROVE  AsArrival(rounds[k][s], s, k - 1) \in Known
BY DEF Known, ArrivalsOf

LEMMA CurIsKnown ==
  ASSUME pc \in {"patterns", "scan", "walks"}, NEW s \in Stops, cur[s].time # Inf
  PROVE  AsArrival(cur[s], s, K) \in Known
BY DEF Known, ArrivalsOf

(* One step of the abstract search, and what is to show for it.            *)
Explained(a) == a \in Known \/ \E b \in Known : a \in Arrivals!Taken(b)

-----------------------------------------------------------------------------
LEMMA WalkedOnInit == Init => WalkedOnInv
BY DEF Init, WalkedOnInv

LEMMA WalkedOnStep ==
  ASSUME SearchInv, WalkedOnInv, [Next]_vars
  PROVE  WalkedOnInv'
<1> USE DEF WalkedOnInv
<1>1. CASE StartRound
  BY <1>1 DEF StartRound
<1>2. CASE SkipPattern \/ StartPattern
  BY <1>2 DEF SkipPattern, StartPattern
<1>3. CASE ScanPosition
  <2> DEFINE pattern == tt.patterns[scan.pattern]
             stop    == pattern.stops[scan.pos]
             label   == Label(pattern.trips[scan.trip].arrivals[scan.pos],
                              Board(scan.pattern, scan.trip, scan.from, scan.pos, K))
  <2>1. stop \in Stops /\ label.parent.kind = "board" /\ cur \in [Stops -> Labels]
    BY <1>3, ScanFacts, Zenon DEF SearchInv, TypeOK, ScanPosition, Label, Board
  <2>2. /\ pc = "scan" /\ pc' # "walks" /\ nextMarked \subseteq Stops
        /\ \/ cur' = cur /\ nextMarked' = nextMarked
           \/ /\ nextMarked' = nextMarked \cup {stop}
              /\ cur' = [cur EXCEPT ![stop] = label]
    BY <1>3, Zenon DEF ScanPosition, SearchInv, TypeOK
  <2> HIDE DEF stop, label
  <2> QED BY <2>1, <2>2
<1>4. CASE StartWalks
  BY <1>4 DEF StartWalks
<1>5. CASE RelaxWalks
  <2>1. \A t \in Stops : cur'[t] = cur[t] \/ cur'[t].parent.kind = "transfer"
    BY <1>5 DEF RelaxWalks, Label, Transfer
  <2>2. nextMarked' = nextMarked /\ nextMarked \subseteq Stops
        /\ relaxing' \subseteq relaxing /\ pc = "walks" /\ pc' = "walks"
    BY <1>5 DEF RelaxWalks, SearchInv, TypeOK
  <2> QED BY <2>1, <2>2
<1>6. CASE LastRoundDone \/ EndRound
  BY <1>6 DEF LastRoundDone, EndRound
<1>7. CASE SkipRound \/ StartTrace \/ TraceRide \/ TraceWalk \/ EndTrace \/ Answer
  BY <1>7 DEF SkipRound, StartTrace, TraceRide, TraceWalk, EndTrace, Answer
<1>8. CASE UNCHANGED vars
  BY <1>8 DEF vars
<1> QED BY <1>1, <1>2, <1>3, <1>4, <1>5, <1>6, <1>7, <1>8 DEF Next

-----------------------------------------------------------------------------
(* Round 0 knows the access walks.                                         *)
LEMMA InitKnows ==
  ASSUME Init
  PROVE  Arrivals!KnownInit
<1> DEFINE first == AccessLabels(query)
<1>1. /\ tt \in Timetables /\ query \in Queries /\ pc = "round"
      /\ rounds = <<first>> /\ DOMAIN rounds = {1} /\ rounds[1] = first
  BY DEF Init
<1>2. ASSUME NEW s \in Stops, first[s].time # Inf
      PROVE  AsArrival(first[s], s, 0) \in AccessArrivals(query)
  <2> DEFINE links == LinksTo(query.access, s)
             times == {query.access[i].duration : i \in links}
  <2>1. links # {}
    BY <1>2 DEF AccessLabels, Unreached, Label
  <2>2. first[s] = Label(query.time + Min(times), Access)
    BY <2>1 DEF AccessLabels
  <2>3. times \in SUBSET Nat /\ times # {}
    BY <1>1, <2>1, QueryFacts DEF LinksTo, StreetLink
  <2>4. Min(times) \in times
    BY <2>3, MinOfNats
  <2>5. PICK i \in links : query.access[i].duration = Min(times)
    BY <2>4
  <2>6. i \in DOMAIN query.access /\ query.access[i].stop = s
    BY <2>5 DEF LinksTo
  <2>7. AsArrival(first[s], s, 0)
          = Arrival(s, query.time + Min(times), "access", 0)
    BY <2>2 DEF AsArrival, Label, Access
  <2> QED BY <2>5, <2>6, <2>7 DEF AccessArrivals
<1>3. Known \subseteq AccessArrivals(query)
  <2> SUFFICES ASSUME NEW a \in Known PROVE a \in AccessArrivals(query)
    OBVIOUS
  <2>1. PICK k \in DOMAIN rounds, s \in Stops :
          rounds[k][s].time # Inf /\ a = AsArrival(rounds[k][s], s, k - 1)
    BY <1>1, KnownCases
  <2>2. k - 1 = 0 /\ rounds[k] = first
    BY <1>1
  <2> QED BY <1>2, <2>1, <2>2
<1> QED BY <1>1, <1>3, SameAccess DEF Arrivals!KnownInit

(* What a step leaves alone is known after it as before.                   *)
LEMMA NothingNew ==
  ASSUME rounds' = rounds,
         \/ pc' \notin {"patterns", "scan", "walks"}
         \/ pc \in {"patterns", "scan", "walks"} /\ cur' = cur
  PROVE  \A a \in Known' : Explained(a)
BY DEF Known, K, Explained

LEMMA StartRoundKnows ==
  ASSUME SearchInv, StartRound
  PROVE  \A a \in Known' : Explained(a)
<1>1. /\ rounds' = rounds /\ cur' = Prev /\ K' = K
      /\ K \in DOMAIN rounds /\ K \in Nat \ {0}
  BY RoundFacts DEF StartRound, K, SearchInv
<1>2. ASSUME NEW a \in Known'
      PROVE  \/ a \in Known
             \/ \E s \in Stops : Prev[s].time # Inf /\ a = AsArrival(Prev[s], s, K)
  BY <1>1 DEF Known, ArrivalsOf
<1>3. ASSUME NEW s \in Stops, Prev[s].time # Inf
      PROVE  Explained(AsArrival(Prev[s], s, K))
  <2> DEFINE b == AsArrival(Prev[s], s, K - 1)
  <2>1. b \in Known
    BY <1>1, <1>3, RoundIsKnown DEF Prev
  <2>2. AsArrival(Prev[s], s, K) = [b EXCEPT !.rides = @ + 1]
    BY <1>1 DEF AsArrival, Arrival
  <2> HIDE DEF b
  <2>3. [b EXCEPT !.rides = @ + 1] \in Arrivals!Taken(b)
    BY SameTravel
  <2> QED BY <2>1, <2>2, <2>3 DEF Explained
<1> QED BY <1>2, <1>3 DEF Explained

(* One trip of one pattern, from one position to a later one, is a ride.    *)
LEMMA OneRide ==
  ASSUME NEW t, NEW qu, NEW a, NEW p \in DOMAIN t.patterns,
         PatternAllowed(t.patterns[p], qu),
         NEW i \in DOMAIN t.patterns[p].trips,
         NEW x \in DOMAIN t.patterns[p].stops, NEW y \in DOMAIN t.patterns[p].stops,
         x < y, Boardable(t.patterns[p].trips[i], qu),
         t.patterns[p].stops[x] = a.stop,
         t.patterns[p].trips[i].departures[x] >= ReadyAt(a)
  PROVE  Arrival(t.patterns[p].stops[y], t.patterns[p].trips[i].arrivals[y],
                 "ride", a.rides + 1) \in RidesFrom(t, qu, a)
<1> DEFINE stops(r) == t.patterns[r].stops
           trips(r) == t.patterns[r].trips
           all(r) == (DOMAIN trips(r)) \X (DOMAIN stops(r)) \X (DOMAIN stops(r))
           chosen(r) == {z \in all(r) :
                           /\ Boardable(trips(r)[z[1]], qu)
                           /\ stops(r)[z[2]] = a.stop
                           /\ trips(r)[z[1]].departures[z[2]] >= ReadyAt(a)
                           /\ z[2] < z[3]}
           rides(r) == {Arrival(stops(r)[z[3]], trips(r)[z[1]].arrivals[z[3]],
                                "ride", a.rides + 1) : z \in chosen(r)}
           allowed == {r \in DOMAIN t.patterns : PatternAllowed(t.patterns[r], qu)}
<1>1. <<i, x, y>> \in chosen(p)
  OBVIOUS
<1>2. Arrival(stops(p)[y], trips(p)[i].arrivals[y], "ride", a.rides + 1) \in rides(p)
  <2> HIDE DEF chosen
  <2> QED BY <1>1
<1>3. p \in allowed
  OBVIOUS
<1>4. RidesFrom(t, qu, a) = UNION {rides(r) : r \in allowed}
  BY DEF RidesFrom
<1> HIDE DEF rides, allowed
<1> QED BY <1>2, <1>3, <1>4

(* A ride is a ride from the label it was boarded with.                    *)
LEMMA ScanPositionKnows ==
  ASSUME SearchInv, ScanPosition
  PROVE  \A a \in Known' : Explained(a)
<1> DEFINE pattern == tt.patterns[scan.pattern]
           stop    == pattern.stops[scan.pos]
           trip    == pattern.trips[scan.trip]
           arrival == trip.arrivals[scan.pos]
           label   == Label(arrival, Board(scan.pattern, scan.trip,
                                           scan.from, scan.pos, K))
           from    == pattern.stops[scan.from]
           b       == AsArrival(Prev[from], from, K - 1)
<1>1. /\ rounds' = rounds /\ K' = K /\ pc = "scan"
      /\ pc' \in {"patterns", "scan"}
      /\ \/ cur' = cur
         \/ /\ cur' = [cur EXCEPT ![stop] = label]
            /\ scan.trip # 0
  BY Zenon DEF ScanPosition, K
<1>2. CASE cur' = cur
  BY <1>1, <1>2, NothingNew
<1>3. CASE cur' = [cur EXCEPT ![stop] = label] /\ scan.trip # 0
  <2>1. /\ K \in Nat \ {0} /\ K \in DOMAIN rounds /\ cur \in [Stops -> Labels]
    BY RoundFacts DEF SearchInv, TypeOK
  <2>2. /\ scan.pattern \in DOMAIN tt.patterns
        /\ PatternAllowed(pattern, query)
        /\ scan.pos \in DOMAIN pattern.stops
        /\ scan.trip \in DOMAIN pattern.trips
        /\ Boardable(trip, query)
        /\ scan.from \in DOMAIN pattern.stops
        /\ scan.from < scan.pos
        /\ Prev[from].time # Inf
        /\ trip.departures[scan.from] >= BoardingReady(Prev[from])
    BY <1>1, <1>3, Zenon DEF SearchInv, ScanInv, OnBoard
  <2>3. from \in Stops /\ stop \in Stops
    <3>1. pattern.stops \in Seq(Stops)
      BY <2>2, PatternFacts, Zenon DEF SearchInv, TypeOK
    <3>2. \A x \in DOMAIN pattern.stops : pattern.stops[x] \in Stops
      <4> HIDE DEF pattern
      <4> QED BY <3>1
    <3> QED BY <2>2, <3>2, Zenon
  <2>4. b \in Known
    BY <2>1, <2>2, <2>3, RoundIsKnown, Zenon DEF Prev
  <2>5. ReadyAt(b) = BoardingReady(Prev[from]) /\ b.stop = from /\ b.rides = K - 1
    BY Zenon DEF ReadyAt, BoardingReady, AsArrival, Arrival
  <2>6. AsArrival(label, stop, K) = Arrival(stop, arrival, "ride", b.rides + 1)
    <3>1. AsArrival(label, stop, K) = Arrival(stop, arrival, "ride", K)
      BY DEF AsArrival, Label, Board
    <3>2. b.rides + 1 = K
      <4>1. \A k \in Nat : \A r : r = k - 1 => r + 1 = k
        OBVIOUS
      <4> QED BY <2>1, <2>5, <4>1, Zenon
    <3> QED BY <3>1, <3>2
  <2>7. AsArrival(label, stop, K) \in RidesFrom(tt, query, b)
    <3> HIDE DEF b
    <3>1. trip.departures[scan.from] >= ReadyAt(b)
      BY <2>2, <2>5, Zenon
    <3>2. Arrival(stop, arrival, "ride", b.rides + 1) \in RidesFrom(tt, query, b)
      BY <2>2, <2>5, <3>1, OneRide, Zenon
    <3> QED BY <2>6, <3>2
  <2>8. Explained(AsArrival(label, stop, K))
    BY <2>4, <2>7, SameTravel, Zenon DEF Explained
  <2> HIDE DEF label, stop, b
  <2>9. ASSUME NEW s \in Stops, cur'[s].time # Inf
        PROVE  Explained(AsArrival(cur'[s], s, K))
    <3>1. CASE s = stop
      BY <1>3, <2>1, <2>3, <2>8, <3>1
    <3>2. CASE s # stop
      BY <1>1, <1>3, <2>1, <2>9, <3>2, CurIsKnown DEF Explained
    <3> QED BY <3>1, <3>2
  <2>10. ASSUME NEW a \in Known'
         PROVE  \/ a \in Known
                \/ \E s \in Stops : cur'[s].time # Inf /\ a = AsArrival(cur'[s], s, K)
    BY <1>1 DEF Known, ArrivalsOf
  <2> QED BY <2>9, <2>10 DEF Explained
<1> QED BY <1>1, <1>2, <1>3, Zenon

(* A walk is a walk from the label of this moment, which a ride or another
   walk gave.                                                              *)
LEMMA RelaxWalksKnows ==
  ASSUME RefinementInv, RelaxWalks
  PROVE  \A a \in Known' : Explained(a)
<1> USE DEF RefinementInv
<1> DEFINE s == Min(relaxing)
           b == AsArrival(cur[s], s, K)
<1>1. /\ rounds' = rounds /\ K' = K /\ pc = "walks" /\ pc' = "walks" /\ relaxing # {}
      /\ \A t \in Stops :
           cur'[t] = IF t \in WalkImproves(s)
                     THEN Label(cur[s].time + tt.walks[<<s, t>>],
                                Transfer(s, tt.walks[<<s, t>>]))
                     ELSE cur[t]
  BY DEF RelaxWalks, K
<1>2. relaxing \in SUBSET Nat /\ relaxing \subseteq Stops
  BY StopsAssumption DEF SearchInv, TypeOK
<1>3. s \in relaxing /\ s \in Stops
  BY <1>1, <1>2, MinOfNats
<1>4. b.kind # "access" /\ b.stop = s /\ b.time = cur[s].time /\ b.rides = K
  BY <1>1, <1>3 DEF WalkedOnInv, AsArrival, Arrival
<1>5. ASSUME NEW t \in WalkImproves(s)
      PROVE  Explained(AsArrival(cur'[t], t, K))
  <2> DEFINE d == tt.walks[<<s, t>>]
  <2>1. /\ t \in Stops /\ <<s, t>> \in DOMAIN tt.walks
        /\ cur[s].time + d < best[t]
    BY <1>5 DEF WalkImproves
  <2>2. cur[s].time \in 0 .. Inf /\ best[t] \in 0 .. Inf
    BY <1>3, <2>1, RoundFacts DEF SearchInv
  <2>3. d \in Nat
    BY <2>1, WalkFacts DEF SearchInv, TypeOK
  <2> HIDE DEF d
  <2>4. cur[s].time # Inf
    BY <2>1, <2>2, <2>3, InfAssumption
  <2>5. b \in Known
    BY <1>1, <1>3, <2>4, CurIsKnown
  <2>6. cur'[t] = Label(cur[s].time + d, Transfer(s, d))
    BY <1>1, <1>5, <2>1 DEF d
  <2>7. AsArrival(cur'[t], t, K) = Arrival(t, b.time + d, "walk", b.rides)
    BY <1>4, <2>6 DEF AsArrival, Label, Transfer
  <2> HIDE DEF b
  <2>8. AsArrival(cur'[t], t, K) \in WalksFrom(tt, b)
    <3> DEFINE e == <<s, t>>
    <3>1. e \in {f \in DOMAIN tt.walks : f[1] = b.stop} /\ e[2] = t
      BY <1>4, <2>1
    <3>2. tt.walks[e] = d
      BY DEF d
    <3> HIDE DEF e
    <3> QED BY <2>7, <3>1, <3>2 DEF WalksFrom
  <2> QED BY <1>4, <2>5, <2>8, SameTravel DEF Explained
<1>6. ASSUME NEW t \in Stops, cur'[t].time # Inf
      PROVE  Explained(AsArrival(cur'[t], t, K))
  <2> HIDE DEF b, s
  <2>1. CASE t \in WalkImproves(s)
    BY <1>5, <2>1
  <2>2. CASE t \notin WalkImproves(s)
    BY <1>1, <1>6, <2>2, CurIsKnown DEF Explained
  <2> QED BY <2>1, <2>2
<1>7. ASSUME NEW a \in Known'
      PROVE  \/ a \in Known
             \/ \E t \in Stops : cur'[t].time # Inf /\ a = AsArrival(cur'[t], t, K)
  BY <1>1 DEF Known, ArrivalsOf
<1> QED BY <1>6, <1>7 DEF Explained

(* Closing a round, what was known of the one under way is known of the last. *)
LEMMA EndRoundKnows ==
  ASSUME SearchInv, EndRound
  PROVE  \A a \in Known' : Explained(a)
<1>1. /\ rounds' = Append(rounds, cur) /\ pc = "walks" /\ pc' \in {"collect", "round"}
  BY DEF EndRound
<1>2. rounds \in Seq([Stops -> Labels]) /\ cur \in [Stops -> Labels]
      /\ K \in Nat /\ DOMAIN rounds = 1 .. K
  BY RoundFacts DEF SearchInv, TypeOK
<1>3. /\ DOMAIN rounds' = 1 .. K + 1
      /\ \A k \in 1 .. K : rounds'[k] = rounds[k]
      /\ rounds'[K + 1] = cur
  BY <1>1, <1>2 DEF K
<1>4. ASSUME NEW k \in DOMAIN rounds', NEW s \in Stops, rounds'[k][s].time # Inf
      PROVE  AsArrival(rounds'[k][s], s, k - 1) \in Known
  <2>1. CASE k \in 1 .. K
    BY <1>2, <1>3, <1>4, <2>1, RoundIsKnown
  <2>2. CASE k = K + 1
    <3>1. k - 1 = K
      BY <1>2, <2>2
    <3> QED BY <1>1, <1>3, <1>4, <2>2, <3>1, CurIsKnown
  <2> QED BY <1>2, <1>3, <2>1, <2>2
<1>5. ASSUME NEW a \in Known'
      PROVE  \E k \in DOMAIN rounds', s \in Stops :
               rounds'[k][s].time # Inf /\ a = AsArrival(rounds'[k][s], s, k - 1)
  BY <1>1 DEF Known, ArrivalsOf
<1> QED BY <1>4, <1>5 DEF Explained

-----------------------------------------------------------------------------
(* Every step of the search is a step of KnownArrivals, or none.           *)
LEMMA StepLearns ==
  ASSUME RefinementInv, [Next]_vars
  PROVE  Arrivals!Learn
<1>1. tt' = tt /\ query' = query
  BY Zenon DEF Next, vars, StartRound, LastRoundDone, SkipPattern, StartPattern, ScanPosition,
         StartWalks, RelaxWalks, EndRound, SkipRound, StartTrace, TraceRide,
         TraceWalk, EndTrace, Answer
<1>2. \A a \in Known' : Explained(a)
  <2> USE DEF RefinementInv
  <2>1. CASE StartRound
    BY <2>1, StartRoundKnows
  <2>2. CASE ScanPosition
    BY <2>2, ScanPositionKnows
  <2>3. CASE RelaxWalks
    BY <2>3, RelaxWalksKnows
  <2>4. CASE EndRound
    BY <2>4, EndRoundKnows
  <2>5. CASE SkipPattern \/ StartPattern \/ StartWalks
    BY <2>5, NothingNew DEF SkipPattern, StartPattern, StartWalks
  <2>6. CASE LastRoundDone \/ SkipRound \/ StartTrace \/ TraceRide \/ TraceWalk
               \/ EndTrace \/ Answer
    BY <2>6, NothingNew DEF LastRoundDone, SkipRound, StartTrace, TraceRide,
                            TraceWalk, EndTrace, Answer
  <2>7. CASE UNCHANGED vars
    BY <2>7, NothingNew DEF vars
  <2> QED BY <2>1, <2>2, <2>3, <2>4, <2>5, <2>6, <2>7 DEF Next
<1> QED BY <1>1, <1>2 DEF Arrivals!Learn, Explained

(* The search with its rounds, marks and pruning implements the traveller
   who only ever takes one trip or one walk from an arrival known.          *)
THEOREM SearchRefinesKnowledge == Spec => ImplementsKnownArrivals
<1>1. Init => Arrivals!KnownInit /\ RefinementInv
  BY InitKnows, InitInv, WalkedOnInit DEF RefinementInv
<1>2. RefinementInv /\ [Next]_vars => RefinementInv'
  BY NextInv, WalkedOnStep DEF RefinementInv
<1>3. RefinementInv /\ [Next]_vars => [Arrivals!Learn]_<<tt, query, Known>>
  BY StepLearns
<1> QED BY <1>1, <1>2, <1>3, PTL DEF Spec, ImplementsKnownArrivals, Arrivals!KnownSpec

-----------------------------------------------------------------------------
(* From the label of stop s, as traced back to there, legs and the egress walk
   of link e lead to the destination by end: they connect, and a first ride
   leaves late enough for that label.                                      *)
Onward(t, qu, legs, label, s, times, e, end) ==
  /\ Timely(t, qu, legs, s, times)
  /\ times[0] = label.time
  /\ legs # <<>> =>
       (IsRide(legs[1]) => BoardingReady(label) <= BoardTime(t, legs[1]))
  /\ LastPlace(t, legs, s) = e.stop
  /\ times[Len(legs)] + e.duration <= end

LeadsOn(t, qu, legs, label, s, e, end) ==
  \E times \in [0 .. Len(legs) -> Int] : Onward(t, qu, legs, label, s, times, e, end)

(* What a trace has found so far can be travelled from where it is.        *)
OnwardInv ==
  pc = "trace" =>
    \E j \in DOMAIN query.egress, legs \in Seq(Legs) :
      /\ trace.legs = legs \o WalkIfAny(query.egress[j].stop,
                                        query.egress[j].duration)
      /\ LeadsOn(tt, query, legs, rounds[trace.round][trace.stop], trace.stop,
                 query.egress[j], bestSoFar)

(* The ride of a label in front of what leads on from the label.           *)
LEMMA RideLeadsOn ==
  ASSUME NEW t \in Timetables, NEW qu, NEW legs \in Seq(Legs),
         NEW label, NEW from, NEW s, NEW e, NEW end,
         from.time \in Nat, label.time \in Nat,
         label.parent.kind = "board",
         RideSupports(t, qu, label.parent, s, label.time, from),
         LeadsOn(t, qu, legs, label, s, e, end)
  PROVE  LET p   == label.parent
             leg == Ride(p.pattern, p.trip, p.board, p.alight)
         IN  /\ <<leg>> \o legs \in Seq(Legs)
             /\ LeadsOn(t, qu, <<leg>> \o legs, from,
                        t.patterns[p.pattern].stops[p.board], e, end)
<1> DEFINE p   == label.parent
           leg == Ride(p.pattern, p.trip, p.board, p.alight)
           place == t.patterns[p.pattern].stops[p.board]
           all == <<leg>> \o legs
<1>1. PICK times \in [0 .. Len(legs) -> Int] :
        Onward(t, qu, legs, label, s, times, e, end)
  BY DEF LeadsOn
<1>2. /\ Timely(t, qu, legs, s, times)
      /\ times[0] = label.time
      /\ legs # <<>> =>
           (IsRide(legs[1]) => BoardingReady(label) <= BoardTime(t, legs[1]))
      /\ LastPlace(t, legs, s) = e.stop
      /\ times[Len(legs)] + e.duration <= end
  BY <1>1 DEF Onward
<1>3. /\ p.pattern \in Nat /\ p.trip \in Nat
      /\ p.board \in Nat /\ p.alight \in Nat
  BY RideFacts
<1>4. leg \in Legs /\ IsRide(leg)
      /\ leg.pattern = p.pattern /\ leg.trip = p.trip
      /\ leg.board = p.board /\ leg.alight = p.alight
  BY <1>3 DEF Ride, Legs, IsRide
<1>5. /\ Allowed(t, qu, leg)
      /\ t.patterns[leg.pattern].stops[leg.board] = place
      /\ LegEnd(t, leg) = s
      /\ AlightTime(t, leg) = label.time
      /\ BoardTime(t, leg) >= BoardingReady(from)
  <2> HIDE DEF leg
  <2> QED BY <1>4, Zenon DEF RideSupports, Allowed, LegEnd, AlightTime, BoardTime
<1>6. BoardTime(t, leg) \in Nat
  BY <1>5, RideTimes
<1>7. /\ BoardingReady(from) \in Nat /\ from.time <= BoardingReady(from)
      /\ BoardingReady(label) = label.time + Buffer
  BY BufferAssumption DEF BoardingReady
<1>8. from.time <= BoardTime(t, leg) /\ AlightTime(t, leg) <= times[0]
  <2>1. from.time <= BoardTime(t, leg)
    <3>1. \A u \in Int, x, y \in Nat : u <= x /\ y >= x => u <= y
      OBVIOUS
    <3>2. from.time \in Int
      OBVIOUS
    <3> QED BY <1>5, <1>6, <1>7, <3>1, <3>2, Zenon
  <2>2. AlightTime(t, leg) <= times[0]
    <3>1. times[0] \in Int
      BY LenProperties
    <3>2. \A x, y \in Int : x = y => x <= y
      OBVIOUS
    <3>3. AlightTime(t, leg) = times[0]
      BY <1>2, <1>5, Zenon
    <3> HIDE DEF leg
    <3> QED BY <3>1, <3>2, <3>3
  <2> QED BY <2>1, <2>2
<1>9. legs # <<>> =>
        (IsRide(legs[1]) => times[0] + Buffer <= BoardTime(t, legs[1]))
  BY <1>2, <1>7
<1> HIDE DEF p, leg, place
<1>10. MoreInFront(t, qu, leg, place, from.time, legs, s, times, all)
  <2>1. from.time \in Int
    OBVIOUS
  <2>2. MayPrecede(t, qu, leg, place, from.time, legs, times)
    BY <1>4, <1>5, <1>8, <1>9 DEF MayPrecede
  <2>3. Timely(t, qu, legs, s, times) /\ leg \in Legs /\ LegEnd(t, leg) = s
    BY <1>2, <1>4, <1>5
  <2> QED BY <2>1, <2>2, <2>3, OneMoreInFront
<1>11. PICK later \in [0 .. Len(all) -> Int] :
         /\ later[0] = from.time
         /\ later[Len(all)] = times[Len(legs)]
         /\ Timely(t, qu, all, place, later)
  BY <1>10 DEF MoreInFront
<1> HIDE DEF all
<1>12. Onward(t, qu, all, from, place, later, e, end)
  BY <1>2, <1>5, <1>10, <1>11 DEF Onward, MoreInFront
<1>13. LeadsOn(t, qu, all, from, place, e, end)
  BY <1>12 DEF LeadsOn
<1> QED BY <1>10, <1>13, Zenon DEF p, leg, place, all, MoreInFront

(* The walk of a label in front of what leads on from the label.           *)
LEMMA WalkLeadsOn ==
  ASSUME NEW t \in Timetables, NEW qu, NEW legs \in Seq(Legs),
         NEW label, NEW from, NEW place, NEW s \in Stops, NEW d \in Nat, NEW e, NEW end,
         from.time \in Nat,
         <<place, s>> \in DOMAIN t.walks, t.walks[<<place, s>>] = d,
         from.time + d <= label.time,
         LeadsOn(t, qu, legs, label, s, e, end)
  PROVE  /\ <<Walk(s, d)>> \o legs \in Seq(Legs)
         /\ LeadsOn(t, qu, <<Walk(s, d)>> \o legs, from, place, e, end)
<1> DEFINE leg == Walk(s, d)
           all == <<leg>> \o legs
<1>1. PICK times \in [0 .. Len(legs) -> Int] :
        Onward(t, qu, legs, label, s, times, e, end)
  BY DEF LeadsOn
<1>2. /\ Timely(t, qu, legs, s, times)
      /\ times[0] = label.time
      /\ LastPlace(t, legs, s) = e.stop
      /\ times[Len(legs)] + e.duration <= end
  BY <1>1 DEF Onward
<1>3. leg \in Legs /\ ~IsRide(leg) /\ leg.stop = s /\ leg.duration = d
      /\ LegEnd(t, leg) = s
  BY DEF Walk, Legs, IsRide, LegEnd
<1> HIDE DEF leg
<1>4. MoreInFront(t, qu, leg, place, from.time, legs, s, times, all)
  <2>1. from.time \in Int
    OBVIOUS
  <2>2. MayPrecede(t, qu, leg, place, from.time, legs, times)
    BY <1>2, <1>3 DEF MayPrecede
  <2>3. Timely(t, qu, legs, s, times) /\ leg \in Legs /\ LegEnd(t, leg) = s
    BY <1>2, <1>3
  <2> QED BY <2>1, <2>2, <2>3, OneMoreInFront
<1>5. PICK later \in [0 .. Len(all) -> Int] :
         /\ later[0] = from.time
         /\ later[Len(all)] = times[Len(legs)]
         /\ Timely(t, qu, all, place, later)
  BY <1>4 DEF MoreInFront
<1> HIDE DEF all
<1>6. Onward(t, qu, all, from, place, later, e, end)
  BY <1>2, <1>3, <1>4, <1>5 DEF Onward, MoreInFront
<1>7. LeadsOn(t, qu, all, from, place, e, end)
  BY <1>6 DEF LeadsOn
<1> QED BY <1>4, <1>7 DEF leg, all, MoreInFront

-----------------------------------------------------------------------------
LEMMA StartTraceLeadsOn ==
  ASSUME SearchInv, StartTrace
  PROVE  OnwardInv'
<1> DEFINE round == rounds[collecting]
           e     == BestEgress(round)
           link  == query.egress[e]
<1>1. /\ bestSoFar' = Total(round, link)
      /\ trace' = [stop |-> link.stop, round |-> collecting,
                   legs |-> WalkIfAny(link.stop, link.duration)]
      /\ rounds' = rounds /\ query' = query /\ tt' = tt
  BY DEF StartTrace
<1>2. /\ e \in UsableEgress(round) /\ round[link.stop].time \in Nat
  BY StartTraceFacts
<1>3. e \in DOMAIN query.egress /\ link.stop \in Stops /\ link.duration \in Nat
  <2>1. query \in Queries
    BY DEF SearchInv, TypeOK
  <2> QED BY <1>2, <2>1, QueryFacts DEF UsableEgress
<1> DEFINE times == [i \in 0 .. 0 |-> round[link.stop].time]
<1> HIDE DEF link, e
<1>4. /\ times \in [0 .. 0 -> Int] /\ times[0] = round[link.stop].time
  BY <1>2
<1>5. /\ <<>> \in Seq(Legs) /\ Len(<<>>) = 0 /\ DOMAIN <<>> = {}
      /\ WalkIfAny(link.stop, link.duration) \in Seq(Legs)
  BY <1>3, WalkIfAnyType
<1> HIDE DEF times
<1>6. Onward(tt, query, <<>>, round[link.stop], link.stop, times, link, Total(round, link))
  <2>1. times[0] + link.duration <= Total(round, link)
    BY <1>2, <1>3, <1>4 DEF Total
  <2> HIDE DEF round
  <2> QED BY <1>4, <1>5, <2>1 DEF Onward, Timely, LastPlace
<1>7. LeadsOn(tt, query, <<>>, round[link.stop], link.stop, link, Total(round, link))
  BY <1>4, <1>5, <1>6 DEF LeadsOn
<1>8. <<>> \o WalkIfAny(link.stop, link.duration) = WalkIfAny(link.stop, link.duration)
  BY <1>5
<1>9. /\ e \in DOMAIN query'.egress /\ query'.egress[e] = link
      /\ trace'.legs = <<>> \o WalkIfAny(link.stop, link.duration)
      /\ LeadsOn(tt', query', <<>>, rounds'[trace'.round][trace'.stop],
                 trace'.stop, link, bestSoFar')
  BY <1>1, <1>3, <1>7, <1>8 DEF link
<1> QED BY <1>5, <1>9 DEF OnwardInv

LEMMA TraceRideLeadsOn ==
  ASSUME SearchInv, OnwardInv, TraceRide
  PROVE  OnwardInv'
<1> DEFINE label == rounds[trace.round][trace.stop]
           p     == TracedParent
           leg   == Ride(p.pattern, p.trip, p.board, p.alight)
           place == tt.patterns[p.pattern].stops[p.board]
           from  == rounds[p.round][place]
<1>1. /\ pc = "trace" /\ p.kind = "board"
      /\ trace' = [trace EXCEPT !.stop = place, !.round = p.round,
                                !.legs = <<leg>> \o @]
      /\ rounds' = rounds /\ query' = query /\ tt' = tt /\ bestSoFar' = bestSoFar
  BY DEF TraceRide
<1>2. PICK j \in DOMAIN query.egress, legs \in Seq(Legs) :
        /\ trace.legs = legs \o WalkIfAny(query.egress[j].stop,
                                          query.egress[j].duration)
        /\ LeadsOn(tt, query, legs, label, trace.stop, query.egress[j], bestSoFar)
  BY <1>1 DEF OnwardInv
<1> DEFINE walk == WalkIfAny(query.egress[j].stop, query.egress[j].duration)
<1>3. /\ p.pattern \in Nat /\ p.trip \in Nat
      /\ p.board \in Nat /\ p.alight \in Nat
      /\ p.round \in DOMAIN rounds
      /\ place \in Stops /\ from.time # Inf
  BY <1>1, TracedRide, Zenon
<1>4. /\ trace.round \in DOMAIN rounds /\ trace.stop \in Stops
      /\ tt \in Timetables /\ query \in Queries
      /\ trace \in [stop : Nat, round : Nat, legs : Seq(Legs)]
      /\ TypeOK /\ LoopsInv
  BY <1>1 DEF SearchInv, TraceInv, TypeOK
<1>5. from.time \in Nat /\ label.time \in Nat
  BY <1>3, <1>4, LabelTime, Zenon
<1>6. RideSupports(tt, query, label.parent, trace.stop, label.time, from)
      /\ label.parent = p
  BY <1>1, TracedRideHolds, Zenon DEF TracedTime, TracedParent
<1>7. leg \in Legs
  BY <1>3 DEF Ride, Legs
<1> HIDE DEF p, label, from
<1>8. /\ <<leg>> \o legs \in Seq(Legs)
      /\ LeadsOn(tt, query, <<leg>> \o legs, from, place, query.egress[j], bestSoFar)
  BY <1>1, <1>2, <1>4, <1>5, <1>6, RideLeadsOn
<1> HIDE DEF leg, place
<1>9. walk \in Seq(Legs)
  BY <1>4, QueryFacts, WalkIfAnyType
<1> HIDE DEF walk
<1>10. <<leg>> \o (legs \o walk) = (<<leg>> \o legs) \o walk
  BY <1>7, <1>9
<1>11. /\ trace'.stop = place /\ trace'.round = p.round
       /\ trace'.legs = (<<leg>> \o legs) \o walk
  BY <1>1, <1>2, <1>4, <1>10, Zenon DEF walk
<1>12. LeadsOn(tt', query', <<leg>> \o legs, rounds'[trace'.round][trace'.stop],
               trace'.stop, query'.egress[j], bestSoFar')
  BY <1>1, <1>8, <1>11 DEF from
<1> QED BY <1>1, <1>8, <1>11, <1>12 DEF OnwardInv, walk

LEMMA TraceWalkLeadsOn ==
  ASSUME SearchInv, OnwardInv, TraceWalk
  PROVE  OnwardInv'
<1> DEFINE label == rounds[trace.round][trace.stop]
           p     == TracedParent
           leg   == Walk(trace.stop, p.duration)
           from  == rounds[trace.round][p.from]
<1>1. /\ pc = "trace" /\ p.kind = "transfer"
      /\ trace' = [trace EXCEPT !.stop = p.from,
                     !.legs = WalkIfAny(trace.stop, p.duration) \o @]
      /\ rounds' = rounds /\ query' = query /\ tt' = tt /\ bestSoFar' = bestSoFar
  BY DEF TraceWalk
<1>2. PICK j \in DOMAIN query.egress, legs \in Seq(Legs) :
        /\ trace.legs = legs \o WalkIfAny(query.egress[j].stop,
                                          query.egress[j].duration)
        /\ LeadsOn(tt, query, legs, label, trace.stop, query.egress[j], bestSoFar)
  BY <1>1 DEF OnwardInv
<1> DEFINE walk == WalkIfAny(query.egress[j].stop, query.egress[j].duration)
<1>3. /\ <<p.from, trace.stop>> \in DOMAIN tt.walks
      /\ tt.walks[<<p.from, trace.stop>>] = p.duration
      /\ p.duration \in Nat
      /\ WalkIfAny(trace.stop, p.duration) = <<leg>>
      /\ from.time + p.duration <= label.time
      /\ p.from \in Stops /\ from.time # Inf
  BY <1>1, TracedWalkHolds, TracedWalk DEF WalkIfAny, TracedTime
<1>4. /\ trace.round \in DOMAIN rounds /\ trace.stop \in Stops
      /\ tt \in Timetables /\ query \in Queries
      /\ trace \in [stop : Nat, round : Nat, legs : Seq(Legs)]
      /\ TypeOK /\ LoopsInv
  BY <1>1 DEF SearchInv, TraceInv, TypeOK
<1>5. from.time \in Nat
  BY <1>3, <1>4, LabelTime
<1>6. leg \in Legs
  BY <1>3, <1>4 DEF Walk, Legs
<1> HIDE DEF p, label, from
<1>7. /\ <<leg>> \o legs \in Seq(Legs)
      /\ LeadsOn(tt, query, <<leg>> \o legs, from, p.from, query.egress[j], bestSoFar)
  BY <1>2, <1>3, <1>4, <1>5, WalkLeadsOn
<1> HIDE DEF leg
<1>8. walk \in Seq(Legs)
  BY <1>4, QueryFacts, WalkIfAnyType
<1> HIDE DEF walk
<1>9. <<leg>> \o (legs \o walk) = (<<leg>> \o legs) \o walk
  BY <1>6, <1>8
<1>10. /\ trace'.stop = p.from /\ trace'.round = trace.round
       /\ trace'.legs = (<<leg>> \o legs) \o walk
  BY <1>1, <1>2, <1>3, <1>4, <1>9, Zenon DEF walk
<1>11. LeadsOn(tt', query', <<leg>> \o legs, rounds'[trace'.round][trace'.stop],
               trace'.stop, query'.egress[j], bestSoFar')
  BY <1>1, <1>7, <1>10 DEF from
<1> QED BY <1>1, <1>7, <1>10, <1>11 DEF OnwardInv, walk

(* Where a trace ends, it ends at the one access link of the stop.         *)
LEMMA EndTraceFacts ==
  ASSUME SearchInv, EndTrace
  PROVE  LET i == Min(LinksTo(query.access, trace.stop))
         IN  /\ TracedParent.kind = "access"
             /\ LinksTo(query.access, trace.stop) # {}
             /\ i \in DOMAIN query.access
             /\ query.access[i].stop = trace.stop
             /\ query.time + query.access[i].duration = TracedTime
<1> DEFINE label == rounds[trace.round][trace.stop]
           links == LinksTo(query.access, trace.stop)
           i     == Min(links)
           D     == {query.access[x].duration : x \in links}
<1>1. /\ label.time # Inf
      /\ label.parent.kind \notin {"board", "transfer"}
      /\ Supported(tt, query, rounds, trace.round, rounds[trace.round],
                   trace.stop)
      /\ trace.stop \in Stops
      /\ query \in Queries
  BY DEF SearchInv, TypeOK, TraceInv, LabelsSupported, EndTrace, TracedParent
<1>2. label = AccessLabels(query)[trace.stop]
  <2>1. label # Unreached
    BY <1>1 DEF Unreached, Label
  <2> HIDE DEF label
  <2> QED BY <1>1, <2>1, Zenon DEF Supported, label
<1>3. links # {} /\ label = Label(query.time + Min(D), Access)
  BY <1>1, <1>2 DEF AccessLabels, Unreached, Label
<1>4. /\ links \in SUBSET Nat /\ links \subseteq DOMAIN query.access
      /\ \A x \in links : query.access[x].stop = trace.stop
  BY <1>1, QueryFacts DEF LinksTo
<1>5. i \in links
  <2> HIDE DEF links
  <2> QED BY <1>3, <1>4, MinOfNats
<1>6. \A x \in links : x = i
  BY <1>1, <1>4, <1>5, QueriesAssumption DEF WellFormedQuery
<1>7. D = {query.access[i].duration} /\ query.access[i].duration \in Nat
  <2>1. query.access[i].duration \in Nat
    BY <1>1, <1>4, <1>5, QueryFacts
  <2> HIDE DEF links, i
  <2> QED BY <1>5, <1>6, <2>1
<1>8. Min(D) = query.access[i].duration
  <2>1. D \in SUBSET Nat /\ D # {}
    BY <1>7
  <2> HIDE DEF D, i
  <2>2. Min(D) \in D
    BY <2>1, MinOfNats
  <2> QED BY <1>7, <2>2
<1> HIDE DEF D
<1>9. label.parent.kind = "access" /\ label.time = query.time + query.access[i].duration
  BY <1>3, <1>8 DEF Label, Access
<1> QED BY <1>3, <1>4, <1>5, <1>9 DEF TracedParent, TracedTime

LEMMA EndTraceTravels ==
  ASSUME SearchInv, OnwardInv, EndTrace, JourneysFeasible
  PROVE  JourneysFeasible'
<1> DEFINE links == LinksTo(query.access, trace.stop)
           i     == Min(links)
           a     == query.access[i]
           label == rounds[trace.round][trace.stop]
           out   == WalkIfAny(a.stop, a.duration)
           found == out \o trace.legs
<1>1. /\ TracedParent.kind = "access" /\ links # {}
      /\ i \in DOMAIN query.access
      /\ a.stop = trace.stop
      /\ query.time + a.duration = label.time
  BY EndTraceFacts DEF TracedTime
<1>2. /\ pc = "trace"
      /\ journeys' = Append(journeys, [legs |-> found, arrival |-> bestSoFar,
                                       transfers |-> Transfers(found)])
      /\ query' = query /\ tt' = tt
  BY <1>1 DEF EndTrace
<1>3. /\ query \in Queries /\ tt \in Timetables /\ journeys \in Seq(Answers)
      /\ bestSoFar \in Nat /\ trace.legs \in Seq(Legs)
  BY DEF SearchInv, TypeOK
<1>4. PICK j \in DOMAIN query.egress, legs \in Seq(Legs) :
        /\ trace.legs = legs \o WalkIfAny(query.egress[j].stop,
                                          query.egress[j].duration)
        /\ LeadsOn(tt, query, legs, label, trace.stop, query.egress[j], bestSoFar)
  BY <1>2 DEF OnwardInv
<1> DEFINE e  == query.egress[j]
           in == WalkIfAny(e.stop, e.duration)
<1>5. /\ a \in StreetLink /\ e \in StreetLink
      /\ out \in Seq(Legs) /\ in \in Seq(Legs)
      /\ query.time \in Nat
  <2>1. /\ query.access \in Seq(StreetLink) /\ query.egress \in Seq(StreetLink)
        /\ query.time \in Nat
    BY <1>3, QueryFacts
  <2>2. a \in StreetLink /\ e \in StreetLink
    <3> HIDE DEF i
    <3> QED BY <1>1, <1>4, <2>1
  <2>3. a.stop \in Stops /\ a.duration \in Nat /\ e.stop \in Stops /\ e.duration \in Nat
    BY <2>2 DEF StreetLink
  <2> QED BY <2>1, <2>2, <2>3, WalkIfAnyType
<1> HIDE DEF i, links
<1>6. PICK times \in [0 .. Len(legs) -> Int] :
        Onward(tt, query, legs, label, trace.stop, times, e, bestSoFar)
  BY <1>4 DEF LeadsOn
<1>7. /\ Timely(tt, query, legs, a.stop, times)
      /\ query.time + a.duration <= times[0]
      /\ LastPlace(tt, legs, a.stop) = e.stop
      /\ times[Len(legs)] + e.duration <= bestSoFar
  <2>1. times[0] \in Int
    BY <1>6
  <2> QED BY <1>1, <1>6, <2>1 DEF Onward
<1> HIDE DEF a, e, label
<1>8. Feasible(tt, query, out \o legs \o in, a, e, query.time, bestSoFar)
  <2>1. query.time \in Int /\ bestSoFar \in Int
    BY <1>3, <1>5
  <2>2. Feasible(tt, query, WalkIfAny(a.stop, a.duration) \o legs
                              \o WalkIfAny(e.stop, e.duration),
                 a, e, query.time, bestSoFar)
    <3> HIDE DEF out, in, found
    <3> QED BY <1>3, <1>5, <1>6, <1>7, <2>1, TimelyIsFeasible
  <2> QED BY <2>2
<1> HIDE DEF out, in
<1>9. found = out \o legs \o in
  <2>1. trace.legs = legs \o in
    BY <1>4 DEF in, e
  <2>2. out \o (legs \o in) = (out \o legs) \o in
    <3>1. out \in Seq(Legs) /\ in \in Seq(Legs) /\ legs \in Seq(Legs)
      BY <1>5
    <3> HIDE DEF in
    <3>2. (out \o legs) \o in = out \o (legs \o in)
      BY <3>1, ConcatAssociative
    <3> QED BY <3>2
  <2> QED BY <2>1, <2>2
<1> HIDE DEF found
<1>10. SUFFICES ASSUME NEW n \in DOMAIN journeys'
                PROVE  \E x \in DOMAIN query.access, y \in DOMAIN query.egress :
                         Feasible(tt, query, journeys'[n].legs, query.access[x],
                                  query.egress[y], query.time, journeys'[n].arrival)
  BY <1>2 DEF JourneysFeasible
<1>11. CASE n \in DOMAIN journeys
  <2>1. journeys'[n] = journeys[n]
    BY <1>2, <1>3, <1>11
  <2> QED BY <1>11, <2>1 DEF JourneysFeasible
<1>12. CASE n \notin DOMAIN journeys
  <2>1. n = Len(journeys) + 1
    BY <1>2, <1>3, <1>12
  <2>2. journeys'[n].legs = found /\ journeys'[n].arrival = bestSoFar
    BY <1>2, <1>3, <2>1
  <2> QED BY <1>1, <1>8, <1>9, <2>2 DEF a, e
<1> QED BY <1>11, <1>12

TravelInv == OnwardInv /\ JourneysFeasible

LEMMA TravelInit == Init => TravelInv
BY DEF Init, TravelInv, OnwardInv, JourneysFeasible

LEMMA TravelStep == SearchInv /\ TravelInv /\ [Next]_vars => TravelInv'
<1> SUFFICES ASSUME SearchInv, TravelInv, [Next]_vars PROVE TravelInv'
  OBVIOUS
<1> USE DEF TravelInv
<1>1. CASE StartTrace
  <2>1. journeys' = journeys /\ tt' = tt /\ query' = query
    BY <1>1 DEF StartTrace
  <2> QED BY <1>1, <2>1, StartTraceLeadsOn DEF JourneysFeasible
<1>2. CASE TraceRide
  <2>1. journeys' = journeys /\ tt' = tt /\ query' = query
    BY <1>2 DEF TraceRide
  <2> QED BY <1>2, <2>1, TraceRideLeadsOn DEF JourneysFeasible
<1>3. CASE TraceWalk
  <2>1. journeys' = journeys /\ tt' = tt /\ query' = query
    BY <1>3 DEF TraceWalk
  <2> QED BY <1>3, <2>1, TraceWalkLeadsOn DEF JourneysFeasible
<1>4. CASE EndTrace
  <2>1. OnwardInv'
    BY <1>4 DEF EndTrace, OnwardInv
  <2> QED BY <1>4, <2>1, EndTraceTravels
<1>5. CASE ~(StartTrace \/ TraceRide \/ TraceWalk \/ EndTrace)
  <2>1. /\ journeys' = journeys /\ tt' = tt /\ query' = query
        /\ \/ pc' # "trace"
           \/ UNCHANGED <<pc, trace, rounds, bestSoFar>>
    BY <1>5, Zenon DEF Next, vars, StartRound, LastRoundDone, SkipPattern, StartPattern,
         ScanPosition, StartWalks, RelaxWalks, EndRound, SkipRound, Answer
  <2> QED BY <2>1, Zenon DEF OnwardInv, JourneysFeasible
<1> QED BY <1>1, <1>2, <1>3, <1>4, <1>5

(* Whatever a search answers can be travelled as it stands.                *)
THEOREM JourneysCanBeTravelled == Spec => []JourneysFeasible
<1>1. SearchInv /\ TravelInv /\ [Next]_vars => TravelInv'
  BY TravelStep
<1>2. TravelInv => JourneysFeasible
  BY DEF TravelInv
<1> QED BY <1>1, <1>2, TravelInit, Invariance, PTL DEF Spec

-----------------------------------------------------------------------------
(* Marking loses nothing: every round arrives wherever, and as early as, any *)
(* ride from a label of the round before does, although it scans only the   *)
(* patterns of marked stops, from their first marked position, with one trip *)
(* on board at a time.  For all timetables in which whoever is first out is  *)
(* first in, and all queries.                                              *)

(* Trip i of pattern p may be boarded at position a with a label of these.  *)
Rideable(t, qu, labels, p, i, a) ==
  LET pattern == t.patterns[p]
      label   == labels[pattern.stops[a]]
  IN  /\ PatternAllowed(pattern, qu)
      /\ i \in DOMAIN pattern.trips
      /\ Boardable(pattern.trips[i], qu)
      /\ a \in DOMAIN pattern.stops
      /\ label.time # Inf
      /\ pattern.trips[i].departures[a] >= BoardingReady(label)

(* These labels are at position b no later than trip i of pattern p.       *)
AsEarly(t, labels, p, i, b) ==
  labels[t.patterns[p].stops[b]].time <= t.patterns[p].trips[i].arrivals[b]

(* Whatever can be ridden on pattern p with a label of from is kept in to.  *)
PatternKept(t, qu, from, to, p) ==
  \A i \in DOMAIN t.patterns[p].trips, a, b \in DOMAIN t.patterns[p].stops :
    a < b /\ Rideable(t, qu, from, p, i, a) => AsEarly(t, to, p, i, b)

-----------------------------------------------------------------------------
(* A stop that is not marked has the label it had a round ago, if any.      *)
MarksInv ==
  /\ pc \in {"round", "patterns", "scan", "walks"} =>
       \A s \in Stops \ marked :
         Prev[s].time = Inf \/ (K >= 2 /\ Prev[s] = rounds[K - 1][s])
  /\ pc \in {"patterns", "scan", "walks"} =>
       \A s \in Stops \ (nextMarked \cup walked) : cur[s] = Prev[s]

(* Half way along a pattern: what could be boarded at the positions behind
   was kept in an earlier round, or was kept up to here and the trip on board
   arrives no later from here on.                                           *)
ScanKept ==
  LET p     == scan.pattern
      trips == tt.patterns[p].trips
      stops == tt.patterns[p].stops
  IN  \A i \in DOMAIN trips, a \in DOMAIN stops :
        a < scan.pos /\ Rideable(tt, query, Prev, p, i, a) =>
          \/ \A b \in DOMAIN stops : a < b => AsEarly(tt, cur, p, i, b)
          \/ /\ scan.trip # 0
             /\ \A b \in DOMAIN stops : a < b =>
                  IF b < scan.pos THEN AsEarly(tt, cur, p, i, b)
                  ELSE trips[scan.trip].arrivals[b] <= trips[i].arrivals[b]

(* Whatever a label of a finished round could ride, the next round has.    *)
RoundsKept ==
  \A k \in 1 .. K - 1 : \A p \in DOMAIN tt.patterns :
    PatternKept(tt, query, rounds[k], rounds[k + 1], p)

(* The same of the round under way, for the patterns it is through with.   *)
PatternsKept ==
  pc \in {"patterns", "scan", "walks"} =>
    \A p \in DOMAIN tt.patterns \ touched :
      (pc = "scan" => p # scan.pattern) => PatternKept(tt, query, Prev, cur, p)

RidesInv ==
  FirstOutFirstIn(tt) => RoundsKept /\ PatternsKept /\ (pc = "scan" => ScanKept)

-----------------------------------------------------------------------------
(* A label that a ride of this round wrote.                                *)
Ridden(labels, s, k) ==
  labels[s].parent.kind = "board" /\ labels[s].parent.round = k

WalkedFrom(t, labels, s) ==
  \A r \in Stops : <<s, r>> \in DOMAIN t.walks =>
    labels[r].time <= labels[s].time + t.walks[<<s, r>>]

WalksInv ==
  /\ \A k \in DOMAIN rounds, s \in Stops :
       Ridden(rounds[k], s, k - 1) => WalkedFrom(tt, rounds[k], s)
  /\ pc \in {"patterns", "scan", "walks"} =>
       \A s \in Stops : Ridden(cur, s, K) => s \in nextMarked
  /\ pc = "walks" =>
       \A s \in Stops \ relaxing : Ridden(cur, s, K) => WalkedFrom(tt, cur, s)

KeptInv == SearchInv /\ MarksInv /\ RidesInv /\ WalksInv

-----------------------------------------------------------------------------
(* Trips that leave a position no later arrive no later farther on.        *)
LEMMA OrderKept ==
  ASSUME NEW t \in Timetables, FirstOutFirstIn(t),
         NEW p \in DOMAIN t.patterns,
         NEW i \in DOMAIN t.patterns[p].trips,
         NEW j \in DOMAIN t.patterns[p].trips,
         NEW a \in DOMAIN t.patterns[p].stops,
         NEW b \in DOMAIN t.patterns[p].stops, a < b,
         t.patterns[p].trips[i].departures[a] <= t.patterns[p].trips[j].departures[a]
  PROVE  t.patterns[p].trips[i].arrivals[b] <= t.patterns[p].trips[j].arrivals[b]
<1> DEFINE trips == t.patterns[p].trips
           stops == t.patterns[p].stops
<1>1. /\ i \in Nat /\ j \in Nat
      /\ \A x \in DOMAIN stops :
           /\ trips[i].arrivals[x] \in Nat /\ trips[i].departures[x] \in Nat
           /\ trips[j].arrivals[x] \in Nat /\ trips[j].departures[x] \in Nat
  BY TripFacts
<1>2. DOMAIN trips[i].arrivals = DOMAIN stops /\ DOMAIN trips[j].arrivals = DOMAIN stops
  BY TripDomain
<1>3. i < j => trips[i].arrivals[b] <= trips[j].arrivals[b]
  BY <1>2 DEF FirstOutFirstIn, NoOvertaking
<1>4. j < i => trips[j].departures[a] <= trips[i].departures[a]
  BY <1>2 DEF FirstOutFirstIn, NoOvertaking
<1>5. trips[i].departures[a] = trips[j].departures[a]
        => trips[i].arrivals[b] = trips[j].arrivals[b]
  BY <1>2 DEF FirstOutFirstIn, TiesLast
<1>6. trips[i].departures[a] <= trips[j].departures[a]
  OBVIOUS
<1>7. /\ trips[i].arrivals[b] \in Nat /\ trips[j].arrivals[b] \in Nat
      /\ trips[i].departures[a] \in Nat /\ trips[j].departures[a] \in Nat
  BY <1>1
<1> HIDE DEF trips, stops
<1>8. i = j => trips[i].arrivals[b] <= trips[j].arrivals[b]
  BY <1>7
<1>9. ASSUME j < i
      PROVE  trips[i].arrivals[b] <= trips[j].arrivals[b]
  <2>1. trips[i].departures[a] = trips[j].departures[a]
    BY <1>4, <1>6, <1>7, <1>9
  <2> QED BY <1>5, <1>7, <2>1
<1>10. trips[i].arrivals[b] <= trips[j].arrivals[b]
  BY <1>1, <1>3, <1>8, <1>9
<1> QED BY <1>10 DEF trips

(* Whoever could be boarded, the trip caught leaves no later.              *)
LEMMA CatchesFirst ==
  ASSUME NEW t \in Timetables, NoOvertaking(t), NEW qu,
         NEW p \in DOMAIN t.patterns, NEW labels, NEW i, NEW a,
         Rideable(t, qu, labels, p, i, a)
  PROVE  LET pattern == t.patterns[p]
             ready   == BoardingReady(labels[pattern.stops[a]])
             c       == EarliestCatchable(pattern, a, ready, qu)
         IN  /\ c # 0
             /\ c \in DOMAIN pattern.trips
             /\ pattern.trips[c].departures[a] <= pattern.trips[i].departures[a]
<1> DEFINE pattern == t.patterns[p]
           trips   == pattern.trips
           ready   == BoardingReady(labels[pattern.stops[a]])
           ok == {n \in DOMAIN trips : /\ trips[n].departures[a] >= ready
                                       /\ Boardable(trips[n], qu)}
<1>1. i \in ok /\ a \in DOMAIN pattern.stops
  BY Zenon DEF Rideable
<1>2. ok \subseteq DOMAIN trips /\ ok \in SUBSET (Nat \ {0})
  <2>1. \A n \in DOMAIN trips : n \in Nat \ {0}
    BY TripFacts
  <2> QED BY <2>1
<1>3. Min(ok) \in ok /\ Min(ok) <= i
  <2> HIDE DEF ok
  <2>1. ok \in SUBSET Nat /\ ok # {}
    BY <1>1, <1>2
  <2> QED BY <1>1, <2>1, MinOfNats
<1> DEFINE c == EarliestCatchable(pattern, a, ready, qu)
<1>4. c = Min(ok)
  BY <1>1 DEF EarliestCatchable
<1>5. /\ i \in Nat /\ i \in DOMAIN trips /\ a \in DOMAIN pattern.stops
      /\ trips[i].departures[a] \in Nat
  BY <1>1, TripFacts
<1> HIDE DEF c, ok
<1>6. c \in Nat \ {0} /\ c <= i /\ c \in DOMAIN trips
  BY <1>2, <1>3, <1>4
<1>7. c < i => trips[c].departures[a] <= trips[i].departures[a]
  <2>1. DOMAIN trips[c].arrivals = DOMAIN pattern.stops
    BY <1>6, TripDomain
  <2> QED BY <1>5, <1>6, <2>1 DEF NoOvertaking
<1>8. trips[c].departures[a] <= trips[i].departures[a]
  <2>1. CASE c = i
    BY <1>5, <2>1
  <2>2. CASE c < i
    BY <1>7, <2>2
  <2> QED BY <1>5, <1>6, <2>1, <2>2
<1> QED BY <1>6, <1>8, Zenon DEF c

(* Labels that only become earlier keep what they kept.                    *)
LEMMA KeptStays ==
  ASSUME NEW t \in Timetables, NEW qu, NEW p \in DOMAIN t.patterns, NEW from,
         NEW old, NEW new,
         \A s \in Stops : /\ old[s].time \in Nat /\ new[s].time \in Nat
                          /\ new[s].time <= old[s].time
  PROVE  /\ \A i \in DOMAIN t.patterns[p].trips, b \in DOMAIN t.patterns[p].stops :
              AsEarly(t, old, p, i, b) => AsEarly(t, new, p, i, b)
         /\ PatternKept(t, qu, from, old, p) => PatternKept(t, qu, from, new, p)
<1>1. ASSUME NEW i \in DOMAIN t.patterns[p].trips,
             NEW b \in DOMAIN t.patterns[p].stops,
             AsEarly(t, old, p, i, b)
      PROVE  AsEarly(t, new, p, i, b)
  <2>1. t.patterns[p].stops[b] \in Stops
    BY PatternFacts
  <2>2. t.patterns[p].trips[i].arrivals[b] \in Nat
    BY TripFacts
  <2> QED BY <1>1, <2>1, <2>2 DEF AsEarly
<1> QED BY <1>1 DEF PatternKept

(* What the invariant says of the times in a round under way.              *)
LEMMA RoundTimes ==
  ASSUME SearchInv
  PROVE  /\ tt \in Timetables
         /\ K \in Nat \ {0} /\ DOMAIN rounds = 1 .. K
         /\ \A s \in Stops :
              /\ cur[s].time \in Nat /\ best[s] \in Nat /\ Prev[s].time \in Nat
              /\ cur[s].time <= best[s]
              /\ cur[s].time <= Prev[s].time
<1>1. /\ K \in Nat \ {0} /\ DOMAIN rounds = 1 .. K
      /\ \A k \in DOMAIN rounds, s \in Stops : rounds[k][s].time \in 0 .. Inf
      /\ \A s \in Stops : cur[s].time \in 0 .. Inf /\ best[s] \in 0 .. Inf
  BY RoundFacts DEF SearchInv
<1>2. \A s \in Stops : cur[s].time <= best[s] /\ best[s] <= Prev[s].time
  BY <1>1 DEF SearchInv, BestInv, BestIsEarliest, Prev
<1>3. \A s \in Stops : Prev[s].time \in Nat /\ cur[s].time \in Nat /\ best[s] \in Nat
  BY <1>1 DEF Prev
<1>4. tt \in Timetables
  BY DEF SearchInv, TypeOK
<1> QED BY <1>1, <1>2, <1>3, <1>4

(* A ride from a stop that is not marked was kept by a round before.       *)
LEMMA UnmarkedIsKept ==
  ASSUME SearchInv, MarksInv, RidesInv, FirstOutFirstIn(tt),
         pc \in {"round", "patterns"},
         NEW p \in DOMAIN tt.patterns,
         NEW i, NEW a, Rideable(tt, query, Prev, p, i, a),
         tt.patterns[p].stops[a] \notin marked,
         NEW b \in DOMAIN tt.patterns[p].stops, a < b
  PROVE  AsEarly(tt, Prev, p, i, b)
<1> DEFINE s == tt.patterns[p].stops[a]
<1>1. /\ i \in DOMAIN tt.patterns[p].trips /\ a \in DOMAIN tt.patterns[p].stops
      /\ Prev[s].time # Inf
  BY Zenon DEF Rideable
<1>2. s \in Stops \ marked
  BY <1>1, PatternFacts, RoundTimes
<1>3. K >= 2 /\ Prev[s] = rounds[K - 1][s]
  BY <1>1, <1>2 DEF MarksInv
<1>4. Rideable(tt, query, rounds[K - 1], p, i, a)
  BY <1>3, Zenon DEF Rideable
<1>5. K - 1 \in 1 .. K - 1 /\ (K - 1) + 1 = K
  BY <1>3, RoundTimes
<1>6. PatternKept(tt, query, rounds[K - 1], Prev, p)
  BY <1>5 DEF RidesInv, RoundsKept, Prev
<1> QED BY <1>1, <1>4, <1>6 DEF PatternKept

-----------------------------------------------------------------------------
(* The marks of a round are the stops whose labels it changed.             *)
LEMMA MarksInit == Init => MarksInv
<1> SUFFICES ASSUME Init PROVE MarksInv
  OBVIOUS
<1>1. Prev = AccessLabels(query) /\ marked = LinkStops(query.access) /\ pc = "round"
  BY DEF Init, Prev, K
<1>2. ASSUME NEW s \in Stops \ marked
      PROVE  Prev[s].time = Inf
  <2>1. LinksTo(query.access, s) = {}
    BY <1>1 DEF LinkStops, LinksTo
  <2> QED BY <1>1, <2>1 DEF AccessLabels, Unreached, Label
<1> QED BY <1>1, <1>2 DEF MarksInv

LEMMA ScanWrites ==
  ASSUME SearchInv, ScanPosition
  PROVE  LET pattern == tt.patterns[scan.pattern]
             stop    == pattern.stops[scan.pos]
             arrival == pattern.trips[scan.trip].arrivals[scan.pos]
         IN  /\ nextMarked \subseteq nextMarked'
             /\ \A s \in Stops :
                  /\ cur'[s] = cur[s] \/ (s \in nextMarked' /\ Ridden(cur', s, K))
                  /\ cur'[s].time \in Nat /\ cur'[s].time <= cur[s].time
             /\ scan.trip # 0 => arrival \in Nat /\ cur'[stop].time <= arrival
<1> DEFINE pattern == tt.patterns[scan.pattern]
           stop    == pattern.stops[scan.pos]
           arrival == pattern.trips[scan.trip].arrivals[scan.pos]
           label   == Label(arrival, Board(scan.pattern, scan.trip,
                                           scan.from, scan.pos, K))
           improves == /\ scan.trip # 0
                       /\ arrival < best[stop]
                       /\ arrival < cur[stop].time
<1> HIDE DEF label, pattern
<1>1. stop \in Stops /\ (scan.trip # 0 => arrival \in Nat)
  <2>1. TypeOK /\ LoopsInv /\ ScanInv /\ pc = "scan"
    BY Zenon DEF SearchInv, ScanPosition
  <2> QED BY <2>1, ScanFacts DEF pattern
<1>2. /\ cur \in [Stops -> Labels]
      /\ \A s \in Stops : /\ cur[s].time \in Nat /\ best[s] \in Nat
                          /\ cur[s].time <= best[s]
  BY RoundTimes DEF SearchInv, TypeOK
<1>3. /\ cur' = IF improves THEN [cur EXCEPT ![stop] = label] ELSE cur
      /\ nextMarked' = IF improves THEN nextMarked \cup {stop} ELSE nextMarked
  BY Zenon DEF ScanPosition, label, pattern
<1>4. /\ label.time = arrival /\ label.parent.kind = "board"
      /\ label.parent.round = K
  BY DEF Label, Board, label
<1> HIDE DEF stop, arrival
<1>5. ASSUME improves
      PROVE  /\ nextMarked \subseteq nextMarked'
             /\ \A s \in Stops :
                  /\ cur'[s] = cur[s] \/ (s \in nextMarked' /\ Ridden(cur', s, K))
                  /\ cur'[s].time \in Nat /\ cur'[s].time <= cur[s].time
             /\ cur'[stop].time = arrival /\ arrival \in Nat
  <2>1. cur' = [cur EXCEPT ![stop] = label] /\ nextMarked' = nextMarked \cup {stop}
    BY <1>3, <1>5
  <2>2. cur'[stop] = label /\ \A s \in Stops \ {stop} : cur'[s] = cur[s]
    BY <1>1, <1>2, <2>1
  <2>3. scan.trip # 0 /\ arrival \in Nat /\ arrival < cur[stop].time
    BY <1>1, <1>5
  <2>4. cur'[stop].time = arrival /\ Ridden(cur', stop, K)
    BY <1>4, <2>2 DEF Ridden
  <2>5. \A s \in Stops : cur'[s].time \in Nat /\ cur'[s].time <= cur[s].time
    BY <1>1, <1>2, <2>2, <2>3, <2>4
  <2> QED BY <2>1, <2>2, <2>3, <2>4, <2>5
<1>6. ASSUME ~improves
      PROVE  /\ nextMarked' = nextMarked /\ cur' = cur
             /\ scan.trip # 0 => cur[stop].time <= arrival
  BY <1>1, <1>2, <1>3, <1>6
<1>7. /\ nextMarked \subseteq nextMarked'
      /\ \A s \in Stops :
           /\ cur'[s] = cur[s] \/ (s \in nextMarked' /\ Ridden(cur', s, K))
           /\ cur'[s].time \in Nat /\ cur'[s].time <= cur[s].time
  BY <1>2, <1>5, <1>6
<1>8. scan.trip # 0 => arrival \in Nat /\ cur'[stop].time <= arrival
  BY <1>1, <1>5, <1>6
<1> QED BY <1>7, <1>8 DEF stop, arrival, pattern

LEMMA RelaxWrites ==
  ASSUME SearchInv, RelaxWalks
  PROVE  LET s == Min(relaxing)
         IN  /\ s \in Stops /\ s \in relaxing /\ relaxing' = relaxing \ {s}
             /\ cur'[s] = cur[s]
             /\ \A r \in Stops :
                  /\ cur'[r] = cur[r] \/ (r \in walked' /\ cur'[r].parent.kind = "transfer")
                  /\ cur'[r].time \in Nat /\ cur'[r].time <= cur[r].time
             /\ WalkedFrom(tt, cur', s)
<1> DEFINE s == Min(relaxing)
           w(r) == tt.walks[<<s, r>>]
<1>1. s \in relaxing /\ s \in Stops
  BY StopsAssumption, MinOfNats DEF RelaxWalks, SearchInv, TypeOK
<1>2. /\ relaxing' = relaxing \ {s}
      /\ walked' = walked \cup WalkImproves(s)
      /\ cur' = [r \in Stops |->
                  IF r \in WalkImproves(s) THEN Label(cur[s].time + w(r), Transfer(s, w(r)))
                  ELSE cur[r]]
  BY DEF RelaxWalks
<1>3. \A r \in Stops : /\ cur[r].time \in Nat /\ best[r] \in Nat
                      /\ cur[r].time <= best[r]
  BY RoundTimes
<1>4. \A r \in Stops : <<s, r>> \in DOMAIN tt.walks =>
                         w(r) \in Nat /\ w(r) > 0 /\ s # r
  <2> SUFFICES ASSUME NEW r \in Stops, <<s, r>> \in DOMAIN tt.walks
               PROVE  w(r) \in Nat /\ w(r) > 0 /\ s # r
    OBVIOUS
  <2>1. tt.walks[<<s, r>>] \in Nat /\ tt.walks[<<s, r>>] > 0 /\ <<s, r>>[1] # <<s, r>>[2]
    BY RoundTimes, WalkFacts
  <2> QED BY <2>1
<1>5. \A r \in Stops : r \in WalkImproves(s)
        <=> /\ <<s, r>> \in DOMAIN tt.walks
            /\ cur[s].time + w(r) < best[r] /\ cur[s].time + w(r) < cur[r].time
  BY DEF WalkImproves
<1> HIDE DEF s, w
<1>6. ASSUME NEW r \in Stops
      PROVE  /\ cur'[r] = cur[r] \/ (r \in walked' /\ cur'[r].parent.kind = "transfer")
             /\ cur'[r].time \in Nat /\ cur'[r].time <= cur[r].time
             /\ <<s, r>> \in DOMAIN tt.walks => cur'[r].time <= cur[s].time + w(r)
  <2>1. CASE r \in WalkImproves(s)
    <3>1. cur'[r] = Label(cur[s].time + w(r), Transfer(s, w(r)))
      BY <1>2, <2>1
    <3>2. cur'[r].time = cur[s].time + w(r) /\ cur'[r].parent.kind = "transfer"
      BY <3>1 DEF Label, Transfer
    <3>3. w(r) \in Nat /\ cur[s].time \in Nat /\ cur[s].time + w(r) < cur[r].time
      BY <1>1, <1>3, <1>4, <1>5, <2>1
    <3> QED BY <1>2, <1>3, <2>1, <3>2, <3>3
  <2>2. CASE r \notin WalkImproves(s)
    <3>1. cur'[r] = cur[r]
      BY <1>2, <2>2
    <3>2. <<s, r>> \in DOMAIN tt.walks => cur[r].time <= cur[s].time + w(r)
      BY <1>1, <1>3, <1>4, <1>5, <2>2
    <3> QED BY <1>3, <3>1, <3>2
  <2> QED BY <2>1, <2>2
<1>7. cur'[s] = cur[s]
  BY <1>1, <1>2, <1>4, <1>5
<1>8. WalkedFrom(tt, cur', s)
  BY <1>6, <1>7 DEF WalkedFrom, w
<1> QED BY <1>1, <1>2, <1>6, <1>7, <1>8 DEF s

(* Where a position scanned leads, and what it leaves alone.               *)
LEMMA ScanMoves ==
  ASSUME SearchInv, ScanPosition
  PROVE  LET pattern   == tt.patterns[scan.pattern]
             candidate == Candidate(pattern, pattern.stops[scan.pos])
         IN  /\ tt' = tt /\ query' = query /\ rounds' = rounds /\ K' = K
             /\ Prev' = Prev /\ marked' = marked /\ touched' = touched
             /\ walked' = walked /\ relaxing' = relaxing
             /\ pc = "scan"
             /\ pc' = IF scan.pos = Len(pattern.stops) THEN "patterns" ELSE "scan"
             /\ scan.pos # Len(pattern.stops) =>
                  /\ scan'.pattern = scan.pattern
                  /\ scan'.pos = scan.pos + 1
                  /\ scan'.trip = IF IsBetter(pattern, candidate) THEN candidate
                                  ELSE scan.trip
<1> DEFINE pattern   == tt.patterns[scan.pattern]
           candidate == Candidate(pattern, pattern.stops[scan.pos])
           last      == scan.pos = Len(pattern.stops)
<1> HIDE DEF pattern
<1>1. /\ tt' = tt /\ query' = query /\ rounds' = rounds /\ K' = K
      /\ Prev' = Prev /\ marked' = marked /\ touched' = touched
      /\ walked' = walked /\ relaxing' = relaxing
      /\ pc = "scan"
  <2>1. /\ UNCHANGED <<tt, query, rounds, best, marked, touched, relaxing, walked,
                       collecting, trace, bestSoFar, journeys>>
        /\ pc = "scan"
    BY Zenon DEF ScanPosition
  <2> QED BY <2>1 DEF K, Prev
<1>2. /\ scan' = IF last THEN NotScanning
                 ELSE IF IsBetter(pattern, candidate)
                 THEN [scan EXCEPT !.pos = @ + 1, !.trip = candidate,
                                   !.from = scan.pos]
                 ELSE [scan EXCEPT !.pos = @ + 1]
      /\ pc' = IF last THEN "patterns" ELSE "scan"
  BY Zenon DEF ScanPosition, pattern
<1>3. scan \in [pattern : Nat, pos : Nat, trip : Nat, from : Nat]
  BY DEF SearchInv, TypeOK
<1>4. ASSUME ~last
      PROVE  /\ scan'.pattern = scan.pattern
             /\ scan'.pos = scan.pos + 1
             /\ scan'.trip = IF IsBetter(pattern, candidate) THEN candidate
                             ELSE scan.trip
  <2> HIDE DEF candidate
  <2> QED BY <1>2, <1>3, <1>4
<1> QED BY <1>1, <1>2, <1>4 DEF pattern

(* A round that ends is the last of the rounds.                            *)
LEMMA EndRoundMoves ==
  ASSUME SearchInv, EndRound
  PROVE  /\ tt' = tt /\ query' = query /\ cur' = cur /\ touched' = touched
         /\ pc = "walks" /\ relaxing = {} /\ touched = {}
         /\ pc' \in {"collect", "round"}
         /\ pc' = "round" => marked' = nextMarked \cup walked
         /\ K \in Nat \ {0} /\ K' = K + 1
         /\ DOMAIN rounds = 1 .. K /\ DOMAIN rounds' = 1 .. (K + 1)
         /\ rounds'[K + 1] = cur /\ Prev' = cur
         /\ \A k \in 1 .. K : rounds'[k] = rounds[k]
<1>1. /\ tt' = tt /\ query' = query /\ cur' = cur /\ touched' = touched
      /\ pc = "walks" /\ relaxing = {}
      /\ rounds' = Append(rounds, cur)
  BY DEF EndRound
<1>2. /\ pc' \in {"collect", "round"}
      /\ pc' = "round" => marked' = nextMarked \cup walked
  <2> DEFINE improved == nextMarked \cup walked
  <2>1. /\ marked' = IF improved = {} THEN marked ELSE improved
        /\ pc' = IF improved = {} THEN "collect" ELSE "round"
    BY DEF EndRound
  <2> QED BY <2>1
<1>3. touched = {}
  BY <1>1 DEF SearchInv, LoopsInv
<1>4. /\ K \in Nat \ {0} /\ DOMAIN rounds = 1 .. K
      /\ cur \in [Stops -> Labels] /\ rounds \in Seq([Stops -> Labels])
  BY RoundFacts DEF SearchInv, TypeOK
<1>5. /\ K' = K + 1 /\ DOMAIN rounds' = 1 .. (K + 1)
      /\ rounds'[K + 1] = cur
      /\ \A k \in 1 .. K : rounds'[k] = rounds[k]
  BY <1>1, <1>4 DEF K
<1> QED BY <1>1, <1>2, <1>3, <1>4, <1>5 DEF Prev

LEMMA MarksStep ==
  ASSUME SearchInv, MarksInv, [Next]_vars
  PROVE  MarksInv'
<1> USE DEF MarksInv
<1>1. CASE StartRound
  BY <1>1 DEF StartRound, Prev, K
<1>2. CASE SkipPattern \/ StartPattern \/ StartWalks
  BY <1>2 DEF SkipPattern, StartPattern, StartWalks, Prev, K
<1>3. CASE ScanPosition
  <2>1. /\ rounds' = rounds /\ K' = K /\ Prev' = Prev /\ marked' = marked
        /\ walked' = walked /\ pc = "scan" /\ pc' \in {"patterns", "scan"}
    BY <1>3, ScanMoves, Zenon
  <2>2. /\ nextMarked \subseteq nextMarked'
        /\ \A s \in Stops \ nextMarked' : cur'[s] = cur[s]
    BY <1>3, ScanWrites, Zenon
  <2> QED BY <2>1, <2>2
<1>4. CASE RelaxWalks
  <2>1. /\ rounds' = rounds /\ marked' = marked /\ nextMarked' = nextMarked
        /\ pc = "walks" /\ pc' = "walks" /\ walked \subseteq walked'
    BY <1>4 DEF RelaxWalks
  <2>2. \A s \in Stops \ walked' : cur'[s] = cur[s]
    BY <1>4, RelaxWrites
  <2> QED BY <2>1, <2>2 DEF Prev, K
<1>5. CASE EndRound
  <2>1. /\ pc = "walks" /\ pc' \in {"collect", "round"}
        /\ pc' = "round" => marked' = nextMarked \cup walked
        /\ K \in Nat \ {0} /\ K' = K + 1 /\ Prev' = cur
        /\ rounds'[K] = rounds[K]
    BY <1>5, EndRoundMoves
  <2>2. K' >= 2 /\ rounds'[K' - 1] = Prev
    BY <2>1 DEF Prev
  <2> QED BY <2>1, <2>2
<1>6. CASE LastRoundDone \/ SkipRound \/ StartTrace \/ TraceRide \/ TraceWalk
             \/ EndTrace \/ Answer
  BY <1>6 DEF LastRoundDone, SkipRound, StartTrace, TraceRide, TraceWalk, EndTrace, Answer
<1>7. CASE UNCHANGED vars
  BY <1>7 DEF vars, Prev, K
<1> QED BY <1>1, <1>2, <1>3, <1>4, <1>5, <1>6, <1>7 DEF Next

-----------------------------------------------------------------------------
(* A ride of this round is written to the round under way only.            *)
LEMMA OldRides ==
  ASSUME SearchInv, NEW s \in Stops
  PROVE  ~Ridden(Prev, s, K)
<1> DEFINE label == Prev[s]
           p     == label.parent
<1> SUFFICES ASSUME p.kind = "board" PROVE p.round # K
  BY DEF Ridden
<1>1. K \in Nat \ {0} /\ DOMAIN rounds = 1 .. K
  BY RoundTimes
<1>2. Supported(tt, query, rounds, K, Prev, s)
  BY <1>1 DEF SearchInv, LabelsSupported, Prev
<1>3. label # Unreached /\ label # AccessLabels(query)[s]
  BY DEF AccessLabels, Unreached, Label, NoParent, Access
<1> HIDE DEF p, label
<1>4. p.round \in 1 .. (K - 1)
  <2>1. p.kind # "transfer"
    OBVIOUS
  <2> QED BY <1>2, <1>3, <2>1, Zenon DEF Supported, p, label
<1> QED BY <1>1, <1>4

(* Every stop a ride of a round reached is walked on from in that round.   *)
LEMMA WalksInit == Init => WalksInv
<1> SUFFICES ASSUME Init PROVE WalksInv
  OBVIOUS
<1>1. DOMAIN rounds = {1} /\ rounds[1] = AccessLabels(query) /\ pc = "round"
  BY DEF Init
<1>2. \A s \in Stops : ~Ridden(AccessLabels(query), s, 0)
  BY DEF Ridden, AccessLabels, Unreached, Label, NoParent, Access
<1> QED BY <1>1, <1>2 DEF WalksInv

LEMMA WalksStep ==
  ASSUME SearchInv, WalksInv, [Next]_vars
  PROVE  WalksInv'
<1> DEFINE Kept == \A k \in DOMAIN rounds, s \in Stops :
                     Ridden(rounds[k], s, k - 1) => WalkedFrom(tt, rounds[k], s)
<1>1. Kept
  BY DEF WalksInv
<1>2. ASSUME tt' = tt, rounds' = rounds
      PROVE  Kept'
  <2>1. \A k \in DOMAIN rounds, s \in Stops :
          Ridden(rounds'[k], s, k - 1) => WalkedFrom(tt', rounds'[k], s)
    BY <1>1, <1>2
  <2> QED BY <1>2, <2>1
<1> HIDE DEF Kept
<1>3. CASE StartRound
  <2>1. /\ tt' = tt /\ rounds' = rounds /\ cur' = Prev /\ pc' = "patterns"
        /\ K' = K
    BY <1>3 DEF StartRound, K
  <2>2. \A s \in Stops : ~Ridden(cur', s, K)
    BY <2>1, OldRides
  <2> QED BY <1>2, <2>1, <2>2 DEF WalksInv, Kept
<1>4. CASE SkipPattern \/ StartPattern
  <2>1. /\ tt' = tt /\ rounds' = rounds /\ cur' = cur
        /\ nextMarked' = nextMarked /\ pc = "patterns" /\ pc' # "walks" /\ K' = K
    BY <1>4 DEF SkipPattern, StartPattern, K
  <2> QED BY <1>2, <2>1 DEF WalksInv, Kept
<1>5. CASE StartWalks
  <2>1. /\ tt' = tt /\ rounds' = rounds /\ cur' = cur /\ relaxing' = nextMarked
        /\ nextMarked' = nextMarked /\ pc = "patterns" /\ K' = K
    BY <1>5 DEF StartWalks, K
  <2> QED BY <1>2, <2>1 DEF WalksInv, Kept
<1>6. CASE ScanPosition
  <2>1. /\ tt' = tt /\ rounds' = rounds /\ K' = K
        /\ pc = "scan" /\ pc' \in {"patterns", "scan"}
    BY <1>6, ScanMoves, Zenon
  <2>2. /\ nextMarked \subseteq nextMarked'
        /\ \A s \in Stops : cur'[s] = cur[s] \/ s \in nextMarked'
    BY <1>6, ScanWrites, Zenon
  <2>3. \A s \in Stops : Ridden(cur', s, K) => s \in nextMarked'
    BY <2>1, <2>2 DEF WalksInv, Ridden
  <2> QED BY <1>2, <2>1, <2>3 DEF WalksInv, Kept
<1>7. CASE RelaxWalks
  <2> DEFINE m == Min(relaxing)
  <2>1. /\ tt' = tt /\ rounds' = rounds /\ K' = K /\ nextMarked' = nextMarked
        /\ pc = "walks" /\ pc' = "walks"
    BY <1>7 DEF RelaxWalks, K
  <2>2. /\ relaxing' = relaxing \ {m}
        /\ \A r \in Stops :
             /\ cur'[r] = cur[r] \/ cur'[r].parent.kind = "transfer"
             /\ cur'[r].time \in Nat /\ cur'[r].time <= cur[r].time
        /\ WalkedFrom(tt, cur', m)
    BY <1>7, RelaxWrites, Zenon
  <2> HIDE DEF m
  <2>3. \A s \in Stops : Ridden(cur', s, K) => cur'[s] = cur[s] /\ Ridden(cur, s, K)
    BY <2>2 DEF Ridden
  <2>4. ASSUME NEW s \in Stops \ relaxing', Ridden(cur', s, K)
        PROVE  WalkedFrom(tt, cur', s)
    <3>1. CASE s = m
      BY <2>2, <3>1
    <3>2. CASE s # m
      <4>1. WalkedFrom(tt, cur, s) /\ cur'[s] = cur[s]
        BY <2>1, <2>2, <2>3, <2>4, <3>2 DEF WalksInv
      <4>2. ASSUME NEW r \in Stops, <<s, r>> \in DOMAIN tt.walks
            PROVE  cur'[r].time <= cur'[s].time + tt.walks[<<s, r>>]
        <5> DEFINE w == tt.walks[<<s, r>>]
        <5>1. w \in Nat
          BY <4>2, WalkFacts DEF SearchInv, TypeOK
        <5>2. cur[r].time <= cur[s].time + w
          BY <4>1, <4>2 DEF WalkedFrom
        <5>3. /\ cur[r].time \in Nat /\ cur[s].time \in Nat /\ cur'[r].time \in Nat
              /\ cur'[r].time <= cur[r].time
          BY <2>2, RoundTimes
        <5> HIDE DEF w
        <5>4. cur'[r].time <= cur[s].time + w
          BY <5>1, <5>2, <5>3
        <5> QED BY <4>1, <5>4 DEF w
      <4> QED BY <4>2 DEF WalkedFrom
    <3> QED BY <3>1, <3>2
  <2> QED BY <1>2, <2>1, <2>3, <2>4 DEF WalksInv, Kept
<1>8. CASE EndRound
  <2>1. /\ tt' = tt /\ pc = "walks" /\ relaxing = {} /\ pc' \in {"collect", "round"}
        /\ K \in Nat /\ DOMAIN rounds = 1 .. K /\ DOMAIN rounds' = 1 .. (K + 1)
        /\ rounds'[K + 1] = cur
        /\ \A k \in 1 .. K : rounds'[k] = rounds[k]
    BY <1>8, EndRoundMoves
  <2>2. ASSUME NEW k \in 1 .. (K + 1), NEW s \in Stops, Ridden(rounds'[k], s, k - 1)
        PROVE  WalkedFrom(tt, rounds'[k], s)
    <3>1. CASE k = K + 1
      <4>1. k - 1 = K
        BY <2>1, <3>1
      <4> QED BY <2>1, <2>2, <3>1, <4>1 DEF WalksInv
    <3>2. CASE k # K + 1
      <4>1. k \in 1 .. K
        BY <2>1, <3>2
      <4> QED BY <1>1, <2>1, <2>2, <4>1 DEF Kept
    <3> QED BY <3>1, <3>2
  <2> QED BY <2>1, <2>2 DEF WalksInv
<1>9. CASE \/ LastRoundDone \/ SkipRound \/ StartTrace \/ TraceRide \/ TraceWalk
           \/ EndTrace \/ Answer
  <2>1. /\ tt' = tt /\ rounds' = rounds
        /\ pc' \notin {"patterns", "scan", "walks"}
    BY <1>9 DEF LastRoundDone, SkipRound, StartTrace, TraceRide, TraceWalk,
                EndTrace, Answer
  <2> QED BY <1>2, <2>1 DEF WalksInv, Kept
<1>10. CASE UNCHANGED vars
  BY <1>10 DEF vars, WalksInv, K
<1> QED BY <1>3, <1>4, <1>5, <1>6, <1>7, <1>8, <1>9, <1>10 DEF Next

-----------------------------------------------------------------------------
(* A trip on board is only left for one that is no later from here on.     *)
LEMMA ChangeForTheBetter ==
  ASSUME SearchInv, ScanPosition, FirstOutFirstIn(tt), scan.trip # 0,
         scan.pos # Len(tt.patterns[scan.pattern].stops)
  PROVE  LET pattern == tt.patterns[scan.pattern]
         IN  /\ scan'.trip # 0
             /\ \A b \in DOMAIN pattern.stops : scan.pos < b =>
                  pattern.trips[scan'.trip].arrivals[b]
                    <= pattern.trips[scan.trip].arrivals[b]
<1> DEFINE pattern   == tt.patterns[scan.pattern]
           candidate == Candidate(pattern, pattern.stops[scan.pos])
<1>1. /\ scan.pattern \in DOMAIN tt.patterns /\ tt \in Timetables
      /\ scan.pos \in DOMAIN pattern.stops
      /\ scan.trip \in DOMAIN pattern.trips
  BY Zenon DEF SearchInv, TypeOK, ScanInv, OnBoard, ScanPosition
<1>2. scan'.trip = IF IsBetter(pattern, candidate) THEN candidate ELSE scan.trip
  BY ScanMoves, Zenon
<1>3. CASE IsBetter(pattern, candidate)
  <2>1. /\ candidate # 0
        /\ pattern.trips[candidate].departures[scan.pos]
              < pattern.trips[scan.trip].departures[scan.pos]
    BY <1>3, Zenon DEF IsBetter
  <2>2. candidate = EarliestCatchable(pattern, scan.pos,
                      BoardingReady(Prev[pattern.stops[scan.pos]]), query)
    BY <2>1, Zenon DEF Candidate
  <2>3. candidate \in DOMAIN pattern.trips
    BY <1>1, <2>1, <2>2, CatchableTrip, Zenon
  <2> HIDE DEF candidate
  <2>4. /\ pattern.trips[candidate].departures[scan.pos] \in Nat
        /\ pattern.trips[scan.trip].departures[scan.pos] \in Nat
    BY <1>1, <2>3, TripFacts
  <2>5. pattern.trips[candidate].departures[scan.pos]
          <= pattern.trips[scan.trip].departures[scan.pos]
    <3> HIDE DEF pattern
    <3> QED BY <2>1, <2>4
  <2>6. \A b \in DOMAIN pattern.stops : scan.pos < b =>
          pattern.trips[candidate].arrivals[b] <= pattern.trips[scan.trip].arrivals[b]
    BY <1>1, <2>3, <2>5, OrderKept
  <2> QED BY <1>2, <1>3, <2>1, <2>6
<1>4. CASE ~IsBetter(pattern, candidate)
  <2>1. scan'.trip = scan.trip
    BY <1>2, <1>4
  <2>2. \A b \in DOMAIN pattern.stops : pattern.trips[scan.trip].arrivals[b] \in Nat
    BY <1>1, TripFacts
  <2> QED BY <2>1, <2>2
<1> QED BY <1>3, <1>4

(* Whatever could be boarded here, the trip on board after this position is
   no later from here on.                                                  *)
LEMMA BoardsTheBest ==
  ASSUME SearchInv, ScanPosition, FirstOutFirstIn(tt),
         scan.pos # Len(tt.patterns[scan.pattern].stops),
         NEW i, Rideable(tt, query, Prev, scan.pattern, i, scan.pos)
  PROVE  LET pattern == tt.patterns[scan.pattern]
         IN  /\ scan'.trip # 0
             /\ \A b \in DOMAIN pattern.stops : scan.pos < b =>
                  pattern.trips[scan'.trip].arrivals[b] <= pattern.trips[i].arrivals[b]
<1> DEFINE pattern   == tt.patterns[scan.pattern]
           candidate == Candidate(pattern, pattern.stops[scan.pos])
           leaves(j) == pattern.trips[j].departures[scan.pos]
<1>1. /\ scan.pattern \in DOMAIN tt.patterns /\ tt \in Timetables
      /\ scan.pos \in DOMAIN pattern.stops
      /\ scan.trip # 0 => scan.trip \in DOMAIN pattern.trips
  BY Zenon DEF SearchInv, TypeOK, ScanInv, OnBoard, ScanPosition
<1>2. i \in DOMAIN pattern.trips /\ Prev[pattern.stops[scan.pos]].time # Inf
  BY Zenon DEF Rideable
<1>3. candidate = EarliestCatchable(pattern, scan.pos,
                    BoardingReady(Prev[pattern.stops[scan.pos]]), query)
  BY <1>2 DEF Candidate
<1>4. /\ candidate # 0 /\ candidate \in DOMAIN pattern.trips
      /\ leaves(candidate) <= leaves(i)
  BY <1>1, <1>3, CatchesFirst, Zenon DEF FirstOutFirstIn
<1>5. scan'.trip = IF IsBetter(pattern, candidate) THEN candidate ELSE scan.trip
  BY ScanMoves, Zenon
<1> HIDE DEF candidate
<1>6. /\ scan'.trip # 0 /\ scan'.trip \in DOMAIN pattern.trips
      /\ leaves(scan'.trip) <= leaves(i)
  <2>1. CASE IsBetter(pattern, candidate)
    BY <1>4, <1>5, <2>1
  <2>2. CASE ~IsBetter(pattern, candidate)
    <3>1. scan'.trip = scan.trip /\ scan.trip # 0 /\ scan.trip \in DOMAIN pattern.trips
      BY <1>1, <1>4, <1>5, <2>2 DEF IsBetter
    <3>2. ~(leaves(candidate) < leaves(scan.trip))
      BY <1>4, <2>2, Zenon DEF IsBetter
    <3>3. leaves(candidate) \in Nat /\ leaves(scan.trip) \in Nat /\ leaves(i) \in Nat
      BY <1>1, <1>2, <1>4, <3>1, TripFacts, Zenon
    <3> HIDE DEF leaves
    <3>4. leaves(scan.trip) <= leaves(i)
      BY <1>4, <3>2, <3>3
    <3> QED BY <3>1, <3>4
  <2> QED BY <2>1, <2>2
<1>7. \A b \in DOMAIN pattern.stops : scan.pos < b =>
        pattern.trips[scan'.trip].arrivals[b] <= pattern.trips[i].arrivals[b]
  BY <1>1, <1>2, <1>6, OrderKept
<1> QED BY <1>6, <1>7

-----------------------------------------------------------------------------
(* What can be ridden is kept from round to round.                         *)
LEMMA RidesInit == Init => RidesInv
BY DEF Init, RidesInv, RoundsKept, PatternsKept, K

LEMMA RoundsStay ==
  ASSUME RoundsKept, tt' = tt, query' = query, rounds' = rounds
  PROVE  RoundsKept'
<1>1. \A k \in 1 .. K - 1 : \A p \in DOMAIN tt.patterns :
        PatternKept(tt, query, rounds[k], rounds[k + 1], p)
  BY DEF RoundsKept
<1>2. K' = K
  BY DEF K
<1> QED BY <1>1, <1>2 DEF RoundsKept

LEMMA RidesStartRound ==
  ASSUME SearchInv, MarksInv, RidesInv, FirstOutFirstIn(tt), StartRound
  PROVE  RidesInv'
<1>1. /\ tt' = tt /\ query' = query /\ rounds' = rounds
      /\ pc = "round" /\ pc' = "patterns"
      /\ cur' = Prev /\ touched' = Touched(tt, marked) /\ Prev' = Prev
  BY DEF StartRound, Prev, K
<1>2. RoundsKept'
  BY <1>1, RoundsStay DEF RidesInv
<1>3. ASSUME NEW p \in DOMAIN tt.patterns \ Touched(tt, marked)
      PROVE  PatternKept(tt, query, Prev, Prev, p)
  <2>1. \A a \in DOMAIN tt.patterns[p].stops : tt.patterns[p].stops[a] \notin marked
    BY <1>3 DEF Touched, MarkedPositions
  <2>2. ASSUME NEW i \in DOMAIN tt.patterns[p].trips,
               NEW a \in DOMAIN tt.patterns[p].stops,
               NEW b \in DOMAIN tt.patterns[p].stops,
               a < b, Rideable(tt, query, Prev, p, i, a)
        PROVE  AsEarly(tt, Prev, p, i, b)
    BY <1>1, <2>1, <2>2, UnmarkedIsKept
  <2> QED BY <2>2 DEF PatternKept
<1> QED BY <1>1, <1>2, <1>3 DEF RidesInv, PatternsKept

LEMMA RidesSkipPattern ==
  ASSUME SearchInv, RidesInv, FirstOutFirstIn(tt), SkipPattern
  PROVE  RidesInv'
<1> DEFINE p == Min(touched)
<1>1. /\ tt' = tt /\ query' = query /\ rounds' = rounds /\ cur' = cur
      /\ pc = "patterns" /\ pc' = "patterns"
      /\ touched' = touched \ {p} /\ Prev' = Prev
      /\ ~PatternAllowed(tt.patterns[p], query)
  BY DEF SkipPattern, Prev, K
<1>2. RoundsKept'
  BY <1>1, RoundsStay DEF RidesInv
<1> HIDE DEF p
<1>3. PatternKept(tt, query, Prev, cur, p)
  BY <1>1 DEF PatternKept, Rideable
<1> QED BY <1>1, <1>2, <1>3 DEF RidesInv, PatternsKept

LEMMA RidesStartPattern ==
  ASSUME SearchInv, MarksInv, RidesInv, FirstOutFirstIn(tt), StartPattern
  PROVE  RidesInv'
<1> DEFINE p     == Min(touched)
           first == FirstMarked(tt.patterns[p])
           stops == tt.patterns[p].stops
<1>1. /\ tt' = tt /\ query' = query /\ rounds' = rounds /\ cur' = cur
      /\ pc = "patterns" /\ pc' = "scan"
      /\ touched' = touched \ {p} /\ Prev' = Prev
      /\ scan'.pattern = p /\ scan'.pos = first /\ scan'.trip = 0
  BY DEF StartPattern, Prev, K
<1>2. RoundsKept'
  BY <1>1, RoundsStay DEF RidesInv
<1>3. PatternsKept'
  BY <1>1 DEF RidesInv, PatternsKept
<1>4. p \in DOMAIN tt.patterns /\ tt \in Timetables
  BY MinOfNats DEF StartPattern, SearchInv, TypeOK, LoopsInv
<1>5. ASSUME NEW a \in DOMAIN stops, stops[a] \in marked
      PROVE  ~(a < first)
  <2>1. stops \in Seq(Stops)
    BY <1>4, PatternFacts
  <2>2. MarkedPositions(tt.patterns[p], marked) \in SUBSET Nat
    BY <2>1 DEF MarkedPositions
  <2>3. a \in MarkedPositions(tt.patterns[p], marked)
    BY <1>5 DEF MarkedPositions
  <2>4. first \in Nat /\ first <= a /\ a \in Nat
    BY <2>2, <2>3, MinOfNats DEF FirstMarked
  <2> QED BY <2>4
<1>6. ASSUME NEW i \in DOMAIN tt.patterns[p].trips, NEW a \in DOMAIN stops,
             NEW b \in DOMAIN stops, a < b, a < first,
             Rideable(tt, query, Prev, p, i, a)
      PROVE  AsEarly(tt, cur, p, i, b)
  <2>1. AsEarly(tt, Prev, p, i, b)
    BY <1>1, <1>4, <1>5, <1>6, UnmarkedIsKept
  <2>2. \A s \in Stops : /\ cur[s].time \in Nat /\ Prev[s].time \in Nat
                         /\ cur[s].time <= Prev[s].time
    BY RoundTimes
  <2> HIDE DEF p
  <2> QED BY <1>4, <2>1, <2>2, KeptStays
<1> HIDE DEF p, first
<1>7. ScanKept'
  BY <1>1, <1>6 DEF ScanKept
<1> QED BY <1>1, <1>2, <1>3, <1>7 DEF RidesInv

LEMMA RidesRelaxWalks ==
  ASSUME SearchInv, RidesInv, FirstOutFirstIn(tt), RelaxWalks
  PROVE  RidesInv'
<1>1. /\ tt' = tt /\ query' = query /\ rounds' = rounds
      /\ pc = "walks" /\ pc' = "walks" /\ touched' = touched /\ Prev' = Prev
  BY DEF RelaxWalks, Prev, K
<1>2. RoundsKept'
  BY <1>1, RoundsStay DEF RidesInv
<1>3. \A s \in Stops : /\ cur[s].time \in Nat /\ cur'[s].time \in Nat
                       /\ cur'[s].time <= cur[s].time
  BY RoundTimes, RelaxWrites
<1>4. \A p \in DOMAIN tt.patterns \ touched : PatternKept(tt, query, Prev, cur, p)
  BY <1>1 DEF RidesInv, PatternsKept
<1>5. \A p \in DOMAIN tt.patterns \ touched : PatternKept(tt, query, Prev, cur', p)
  BY <1>3, <1>4, KeptStays, RoundTimes
<1> QED BY <1>1, <1>2, <1>5 DEF RidesInv, PatternsKept

LEMMA RidesEndRound ==
  ASSUME SearchInv, RidesInv, FirstOutFirstIn(tt), EndRound
  PROVE  RidesInv'
<1>1. /\ tt' = tt /\ query' = query
      /\ pc = "walks" /\ pc' \in {"collect", "round"} /\ touched = {}
      /\ K \in Nat \ {0} /\ K' = K + 1
      /\ rounds'[K + 1] = cur
      /\ \A k \in 1 .. K : rounds'[k] = rounds[k]
  BY EndRoundMoves
<1>2. ASSUME NEW k \in 1 .. K, NEW p \in DOMAIN tt.patterns
      PROVE  PatternKept(tt, query, rounds'[k], rounds'[k + 1], p)
  <2>1. CASE k = K
    BY <1>1, <2>1 DEF RidesInv, PatternsKept, Prev
  <2>2. CASE k # K
    <3>1. k \in 1 .. (K - 1) /\ k + 1 \in 1 .. K
      BY <1>1, <2>2
    <3> QED BY <1>1, <3>1 DEF RidesInv, RoundsKept
  <2> QED BY <2>1, <2>2
<1>3. RoundsKept'
  <2>1. \A k \in 1 .. (K' - 1) : k \in 1 .. K
    BY <1>1
  <2> QED BY <1>1, <1>2, <2>1 DEF RoundsKept
<1> QED BY <1>1, <1>3 DEF RidesInv, PatternsKept

(* One position further, for a ride that began before it.                  *)
LEMMA ScannedOn ==
  ASSUME SearchInv, RidesInv, FirstOutFirstIn(tt), ScanPosition,
         NEW i \in DOMAIN tt.patterns[scan.pattern].trips,
         NEW a \in DOMAIN tt.patterns[scan.pattern].stops, a < scan.pos,
         Rideable(tt, query, Prev, scan.pattern, i, a)
  PROVE  LET p     == scan.pattern
             trips == tt.patterns[p].trips
             stops == tt.patterns[p].stops
         IN  \/ \A b \in DOMAIN stops : a < b => AsEarly(tt, cur', p, i, b)
             \/ /\ scan.trip # 0
                /\ \A b \in DOMAIN stops : a < b =>
                     IF b <= scan.pos THEN AsEarly(tt, cur', p, i, b)
                     ELSE trips[scan.trip].arrivals[b] <= trips[i].arrivals[b]
<1> DEFINE p     == scan.pattern
           trips == tt.patterns[p].trips
           stops == tt.patterns[p].stops
           stop  == stops[scan.pos]
           arrival == trips[scan.trip].arrivals[scan.pos]
<1>1. /\ p \in DOMAIN tt.patterns /\ tt \in Timetables /\ pc = "scan"
      /\ scan.pos \in DOMAIN stops
  BY Zenon DEF SearchInv, TypeOK, ScanInv, ScanPosition
<1>2. /\ \A s \in Stops : /\ cur[s].time \in Nat /\ cur'[s].time \in Nat
                          /\ cur'[s].time <= cur[s].time
      /\ scan.trip # 0 => arrival \in Nat /\ cur'[stop].time <= arrival
  <2>1. /\ \A s \in Stops : cur'[s].time \in Nat /\ cur'[s].time <= cur[s].time
        /\ scan.trip # 0 => arrival \in Nat /\ cur'[stop].time <= arrival
    BY ScanWrites, Zenon
  <2>2. \A s \in Stops : cur[s].time \in Nat
    BY RoundTimes
  <2> QED BY <2>1, <2>2
<1>3. \A b \in DOMAIN stops : AsEarly(tt, cur, p, i, b) => AsEarly(tt, cur', p, i, b)
  BY <1>1, <1>2, KeptStays
<1>4. ScanKept
  BY <1>1 DEF RidesInv
<1>5. CASE \A b \in DOMAIN stops : a < b => AsEarly(tt, cur, p, i, b)
  BY <1>3, <1>5
<1>6. CASE /\ scan.trip # 0
           /\ \A b \in DOMAIN stops : a < b =>
                IF b < scan.pos THEN AsEarly(tt, cur, p, i, b)
                ELSE trips[scan.trip].arrivals[b] <= trips[i].arrivals[b]
  <2>1. ASSUME a < scan.pos
        PROVE  AsEarly(tt, cur', p, i, scan.pos)
    <3>1. arrival <= trips[i].arrivals[scan.pos]
      <4>1. ~(scan.pos < scan.pos)
        BY <1>1, PatternFacts
      <4> QED BY <1>1, <1>6, <2>1, <4>1
    <3>2. /\ trips[i].arrivals[scan.pos] \in Nat /\ arrival \in Nat
          /\ cur'[stop].time <= arrival /\ cur'[stop].time \in Nat
      <4>1. stop \in Stops
        BY <1>1, PatternFacts
      <4> QED BY <1>1, <1>2, <1>6, <4>1, TripFacts, Zenon
    <3>3. cur'[stop].time <= trips[i].arrivals[scan.pos]
      <4> HIDE DEF stop, arrival, trips
      <4> QED BY <3>1, <3>2
    <3> QED BY <3>3 DEF AsEarly
  <2>2. ASSUME NEW b \in DOMAIN stops, a < b, b <= scan.pos
        PROVE  AsEarly(tt, cur', p, i, b)
    <3>1. b \in Nat /\ scan.pos \in Nat
      BY <1>1, PatternFacts
    <3>2. CASE b = scan.pos
      BY <2>1, <2>2, <3>2
    <3>3. CASE b < scan.pos
      BY <1>3, <1>6, <2>2, <3>3
    <3> QED BY <2>2, <3>1, <3>2, <3>3
  <2>3. ASSUME NEW b \in DOMAIN stops, a < b, ~(b <= scan.pos)
        PROVE  trips[scan.trip].arrivals[b] <= trips[i].arrivals[b]
    <3>1. b \in Nat /\ scan.pos \in Nat
      BY <1>1, PatternFacts
    <3>2. ~(b < scan.pos)
      BY <2>3, <3>1
    <3> QED BY <1>6, <2>3, <3>2
  <2> QED BY <1>6, <2>2, <2>3
<1> QED BY <1>4, <1>5, <1>6 DEF ScanKept

LEMMA RidesScanPosition ==
  ASSUME SearchInv, RidesInv, FirstOutFirstIn(tt), ScanPosition
  PROVE  RidesInv'
<1> DEFINE p     == scan.pattern
           trips == tt.patterns[p].trips
           stops == tt.patterns[p].stops
           last  == scan.pos = Len(stops)
<1>1. /\ tt' = tt /\ query' = query /\ rounds' = rounds /\ Prev' = Prev
      /\ touched' = touched /\ pc = "scan"
      /\ pc' = IF last THEN "patterns" ELSE "scan"
      /\ ~last => scan'.pattern = p /\ scan'.pos = scan.pos + 1
  BY ScanMoves, Zenon
<1>2. /\ p \in DOMAIN tt.patterns /\ tt \in Timetables
      /\ scan.pos \in DOMAIN stops
  BY <1>1, Zenon DEF SearchInv, TypeOK, ScanInv
<1>3. DOMAIN stops = 1 .. Len(stops) /\ Len(stops) \in Nat /\ scan.pos \in Nat
  BY <1>2, PatternFacts
<1>4. \A s \in Stops : /\ cur[s].time \in Nat /\ cur'[s].time \in Nat
                       /\ cur'[s].time <= cur[s].time
  <2>1. \A s \in Stops : cur'[s].time \in Nat /\ cur'[s].time <= cur[s].time
    BY ScanWrites, Zenon
  <2> QED BY <2>1, RoundTimes
<1>5. RoundsKept'
  BY <1>1, RoundsStay DEF RidesInv
<1>6. ASSUME NEW r \in DOMAIN tt.patterns \ touched, r # p
      PROVE  PatternKept(tt, query, Prev, cur', r)
  <2>1. PatternKept(tt, query, Prev, cur, r)
    BY <1>1, <1>6 DEF RidesInv, PatternsKept
  <2> QED BY <1>2, <1>4, <2>1, KeptStays
<1>7. CASE last
  <2>1. ASSUME NEW i \in DOMAIN trips, NEW a \in DOMAIN stops, NEW b \in DOMAIN stops,
               a < b, Rideable(tt, query, Prev, p, i, a)
        PROVE  AsEarly(tt, cur', p, i, b)
    <3>1. a < scan.pos /\ b <= scan.pos
      <4> HIDE DEF stops
      <4> QED BY <1>3, <1>7, <2>1
    <3> HIDE DEF p
    <3> QED BY <2>1, <3>1, ScannedOn DEF p
  <2>2. PatternKept(tt, query, Prev, cur', p)
    BY <2>1 DEF PatternKept
  <2> QED BY <1>1, <1>5, <1>6, <1>7, <2>2 DEF RidesInv, PatternsKept
<1>8. CASE ~last
  <2>1. ASSUME NEW i \in DOMAIN trips, NEW a \in DOMAIN stops,
               a < scan.pos + 1, Rideable(tt, query, Prev, p, i, a)
        PROVE  \/ \A b \in DOMAIN stops : a < b => AsEarly(tt, cur', p, i, b)
               \/ /\ scan'.trip # 0
                  /\ \A b \in DOMAIN stops : a < b =>
                       IF b < scan.pos + 1 THEN AsEarly(tt, cur', p, i, b)
                       ELSE trips[scan'.trip].arrivals[b] <= trips[i].arrivals[b]
    <3>1. \A b \in DOMAIN stops : b < scan.pos + 1 <=> b <= scan.pos
      <4> HIDE DEF stops
      <4> QED BY <1>3
    <3>2. CASE a = scan.pos
      <4>1. /\ scan'.trip # 0
            /\ \A b \in DOMAIN stops : scan.pos < b =>
                 trips[scan'.trip].arrivals[b] <= trips[i].arrivals[b]
        BY <1>8, <2>1, <3>2, BoardsTheBest
      <4>2. \A b \in DOMAIN stops : a < b => ~(b < scan.pos + 1)
        <5> HIDE DEF stops
        <5> QED BY <1>3, <3>2
      <4> QED BY <3>2, <4>1, <4>2
    <3>3. CASE a < scan.pos
      <4>1. CASE \A b \in DOMAIN stops : a < b => AsEarly(tt, cur', p, i, b)
        BY <4>1
      <4>2. CASE /\ scan.trip # 0
                 /\ \A b \in DOMAIN stops : a < b =>
                      IF b <= scan.pos THEN AsEarly(tt, cur', p, i, b)
                      ELSE trips[scan.trip].arrivals[b] <= trips[i].arrivals[b]
        <5>1. /\ scan'.trip # 0
              /\ \A b \in DOMAIN stops : scan.pos < b =>
                   trips[scan'.trip].arrivals[b] <= trips[scan.trip].arrivals[b]
          BY <1>8, <4>2, ChangeForTheBetter
        <5>2. scan.trip \in DOMAIN trips
          BY <1>1, <4>2, Zenon DEF SearchInv, ScanInv, OnBoard
        <5>3. ASSUME NEW b \in DOMAIN stops, a < b, ~(b <= scan.pos)
              PROVE  trips[scan'.trip].arrivals[b] <= trips[i].arrivals[b]
          <6>1. scan.pos < b
            <7> HIDE DEF stops
            <7> QED BY <1>3, <5>3
          <6>2. /\ trips[scan'.trip].arrivals[b] <= trips[scan.trip].arrivals[b]
                /\ trips[scan.trip].arrivals[b] <= trips[i].arrivals[b]
            BY <4>2, <5>1, <5>3, <6>1
          <6>3. scan'.trip \in DOMAIN trips
            <7>1. ScanInv'
              BY NextInv DEF SearchInv, Next
            <7> QED BY <1>1, <1>8, <5>1, <7>1, Zenon DEF ScanInv, OnBoard
          <6>4. /\ trips[scan'.trip].arrivals[b] \in Nat
                /\ trips[scan.trip].arrivals[b] \in Nat
                /\ trips[i].arrivals[b] \in Nat
            BY <1>2, <5>2, <6>3, TripFacts
          <6> HIDE DEF trips
          <6> QED BY <6>2, <6>4
        <5> QED BY <3>1, <4>2, <5>1, <5>3
      <4> QED BY <2>1, <3>3, <4>1, <4>2, ScannedOn
    <3>4. a = scan.pos \/ a < scan.pos
      <4> HIDE DEF stops
      <4> QED BY <1>3, <2>1
    <3> QED BY <3>2, <3>3, <3>4
  <2> HIDE DEF p
  <2>2. /\ scan'.pattern = p /\ scan'.pos = scan.pos + 1
        /\ tt' = tt /\ query' = query /\ Prev' = Prev
    BY <1>1, <1>8
  <2>3. ScanKept'
    BY <2>1, <2>2, SMTT(60) DEF ScanKept
  <2> QED BY <1>1, <1>5, <1>6, <1>8, <2>3 DEF RidesInv, PatternsKept
<1> QED BY <1>7, <1>8

LEMMA RidesStep ==
  ASSUME SearchInv, MarksInv, RidesInv, [Next]_vars
  PROVE  RidesInv'
<1> SUFFICES ASSUME FirstOutFirstIn(tt') PROVE RidesInv'
  BY DEF RidesInv
<1>1. tt' = tt
  BY Zenon DEF Next, vars, StartRound, LastRoundDone, SkipPattern, StartPattern,
         ScanPosition, StartWalks, RelaxWalks, EndRound, SkipRound, StartTrace,
         TraceRide, TraceWalk, EndTrace, Answer
<1>2. FirstOutFirstIn(tt)
  BY <1>1
<1>3. CASE StartRound
  BY <1>2, <1>3, RidesStartRound
<1>4. CASE SkipPattern
  BY <1>2, <1>4, RidesSkipPattern
<1>5. CASE StartPattern
  BY <1>2, <1>5, RidesStartPattern
<1>6. CASE ScanPosition
  BY <1>2, <1>6, RidesScanPosition
<1>7. CASE StartWalks
  <2>1. /\ tt' = tt /\ query' = query /\ rounds' = rounds /\ Prev' = Prev
        /\ cur' = cur /\ touched' = touched /\ pc = "patterns" /\ pc' = "walks"
    BY <1>7 DEF StartWalks, Prev, K
  <2>2. RoundsKept'
    BY <1>2, <2>1, RoundsStay DEF RidesInv
  <2> QED BY <1>2, <2>1, <2>2 DEF RidesInv, PatternsKept
<1>8. CASE RelaxWalks
  BY <1>2, <1>8, RidesRelaxWalks
<1>9. CASE EndRound
  BY <1>2, <1>9, RidesEndRound
<1>10. CASE \/ LastRoundDone \/ SkipRound \/ StartTrace \/ TraceRide \/ TraceWalk
            \/ EndTrace \/ Answer
  <2>1. /\ query' = query /\ rounds' = rounds
        /\ pc' \notin {"patterns", "scan", "walks"}
    BY <1>10 DEF LastRoundDone, SkipRound, StartTrace, TraceRide, TraceWalk,
                 EndTrace, Answer
  <2>2. RoundsKept'
    BY <1>1, <1>2, <2>1, RoundsStay DEF RidesInv
  <2> QED BY <2>1, <2>2 DEF RidesInv, PatternsKept
<1>11. CASE UNCHANGED vars
  BY <1>11 DEF vars, RidesInv, RoundsKept, PatternsKept, ScanKept, Prev, K
<1> QED BY <1>3, <1>4, <1>5, <1>6, <1>7, <1>8, <1>9, <1>10, <1>11 DEF Next

-----------------------------------------------------------------------------
LEMMA KeptInvariance == Spec => []KeptInv
<1>1. Init => KeptInv
  BY InitInv, MarksInit, RidesInit, WalksInit DEF KeptInv
<1>2. KeptInv /\ [Next]_vars => KeptInv'
  BY NextInv, MarksStep, RidesStep, WalksStep DEF KeptInv
<1> QED BY <1>1, <1>2, PTL DEF Spec

(* A label as an arrival may board when the search says it may.            *)
LEMMA ArrivalFacts ==
  ASSUME NEW label, NEW s, NEW n
  PROVE  LET a == AsArrival(label, s, n)
         IN  /\ a.stop = s /\ a.time = label.time
             /\ ReadyAt(a) = BoardingReady(label)
<1> DEFINE a == AsArrival(label, s, n)
<1>1. a.stop = s /\ a.time = label.time
  BY DEF AsArrival, Arrival
<1>2. a.kind = "ride" <=> label.parent.kind = "board"
  <2>1. CASE label.parent.kind = "board"
    BY <2>1 DEF AsArrival, Arrival
  <2>2. CASE label.parent.kind = "transfer"
    BY <2>2 DEF AsArrival, Arrival
  <2>3. CASE label.parent.kind \notin {"board", "transfer"}
    BY <2>3 DEF AsArrival, Arrival
  <2> QED BY <2>1, <2>2, <2>3
<1> HIDE DEF a
<1>3. ReadyAt(a) = BoardingReady(label)
  BY <1>1, <1>2 DEF ReadyAt, BoardingReady
<1> QED BY <1>1, <1>3 DEF a

LEMMA RidesAreKept ==
  ASSUME KeptInv, FirstOutFirstIn(tt), NEW k \in 1 .. (Len(rounds) - 1)
  PROVE  RidesKept(k)
<1> SUFFICES ASSUME NEW a \in ArrivalsOf(rounds[k], k - 1),
                    NEW r \in RidesFrom(tt, query, a)
             PROVE  rounds[k + 1][r.stop].time <= r.time
  BY DEF RidesKept
<1>1. PICK s \in Stops : /\ rounds[k][s].time # Inf
                         /\ a = AsArrival(rounds[k][s], s, k - 1)
  BY DEF ArrivalsOf
<1>2. a.stop = s /\ ReadyAt(a) = BoardingReady(rounds[k][s])
  BY <1>1, ArrivalFacts
<1>3. PICK p \in DOMAIN tt.patterns :
        LET stops == tt.patterns[p].stops
            trips == tt.patterns[p].trips
        IN  /\ PatternAllowed(tt.patterns[p], query)
            /\ \E i \in DOMAIN trips, b, c \in DOMAIN stops :
                 /\ Boardable(trips[i], query)
                 /\ stops[b] = a.stop
                 /\ trips[i].departures[b] >= ReadyAt(a)
                 /\ b < c
                 /\ r.stop = stops[c] /\ r.time = trips[i].arrivals[c]
  BY RideFromFacts
<1>4. PICK i \in DOMAIN tt.patterns[p].trips, b \in DOMAIN tt.patterns[p].stops,
           c \in DOMAIN tt.patterns[p].stops :
        /\ Boardable(tt.patterns[p].trips[i], query)
        /\ tt.patterns[p].stops[b] = a.stop
        /\ tt.patterns[p].trips[i].departures[b] >= ReadyAt(a)
        /\ b < c
        /\ r.stop = tt.patterns[p].stops[c]
        /\ r.time = tt.patterns[p].trips[i].arrivals[c]
  BY <1>3, Zenon
<1>5. Rideable(tt, query, rounds[k], p, i, b)
  BY <1>1, <1>2, <1>3, <1>4 DEF Rideable
<1>6. PatternKept(tt, query, rounds[k], rounds[k + 1], p)
  BY DEF KeptInv, RidesInv, RoundsKept, K
<1>7. AsEarly(tt, rounds[k + 1], p, i, c)
  BY <1>4, <1>5, <1>6 DEF PatternKept
<1> QED BY <1>4, <1>7 DEF AsEarly

LEMMA WalksAreKept ==
  ASSUME KeptInv, NEW k \in DOMAIN rounds
  PROVE  WalksKept(k)
<1> SUFFICES ASSUME NEW s \in Stops, Ridden(rounds[k], s, k - 1),
                    NEW w \in WalksFrom(tt, AsArrival(rounds[k][s], s, k - 1))
             PROVE  rounds[k][w.stop].time <= w.time
  BY DEF WalksKept, Ridden
<1> DEFINE a == AsArrival(rounds[k][s], s, k - 1)
<1>1. a.stop = s /\ a.time = rounds[k][s].time
  BY ArrivalFacts
<1> HIDE DEF a
<1>2. PICK e \in DOMAIN tt.walks :
        e[1] = a.stop /\ w = Arrival(e[2], a.time + tt.walks[e], "walk", a.rides)
  BY DEF WalksFrom, a
<1>3. w.stop = e[2] /\ w.time = a.time + tt.walks[e]
  BY <1>2 DEF Arrival
<1>4. e[2] \in Stops /\ e = <<s, e[2]>>
  <2>1. DOMAIN tt.walks \subseteq Stops \X Stops
    BY TimetablesAssumption DEF KeptInv, SearchInv, TypeOK, WellFormedTimetable,
                                WalksAreTransfers
  <2> QED BY <1>1, <1>2, <2>1
<1>5. WalkedFrom(tt, rounds[k], s)
  BY DEF KeptInv, WalksInv
<1> QED BY <1>1, <1>3, <1>4, <1>5 DEF WalkedFrom

(* Marking loses nothing, in any timetable and for any query: the scan of the
   touched patterns, from their first marked position and with one trip on
   board, arrives wherever any ride does and no later; and every stop that a
   ride of a round reached is walked on from in that round.                 *)
THEOREM MarkingLosesNothing == Spec => []NothingMissed
<1>1. KeptInv => NothingMissed
  <2> SUFFICES ASSUME KeptInv PROVE NothingMissed
    OBVIOUS
  <2>1. FirstOutFirstIn(tt) => \A k \in 1 .. (Len(rounds) - 1) : RidesKept(k)
    BY RidesAreKept
  <2>2. \A k \in DOMAIN rounds : WalksKept(k)
    BY WalksAreKept
  <2> QED BY <2>1, <2>2 DEF NothingMissed
<1> QED BY <1>1, KeptInvariance, PTL

-----------------------------------------------------------------------------
(***************************************************************************)
(* Proof that the forward search answers no journey that another dominates: *)
(* one that is found in a later round arrives earlier and takes more rides. *)
(* For all timetables in which whoever is first out is first in.           *)
(***************************************************************************)

(* The label of round k at s is not the one of the round before.           *)
Fresh(rs, k, s) == k = 1 \/ rs[k][s].time < rs[k - 1][s].time

(* The label at s, in round k, rests on a fresh one: it is a ride from one of
   the round before, or a walk from one of its own round.                   *)
RestsOnFresh(t, rs, k, labels, s) ==
  LET p == labels[s].parent
  IN  \/ /\ p.kind = "board"
         /\ p.round = k - 1
         /\ Fresh(rs, k - 1, t.patterns[p.pattern].stops[p.board])
      \/ /\ p.kind = "transfer"
         /\ labels[p.from].time < rs[k - 1][p.from].time

(* A round writes a label only for the better, and rests it on fresh ones. *)
Written(t, rs, k, labels) ==
  \A s \in Stops :
    \/ labels[s] = rs[k - 1][s]
    \/ /\ labels[s].time < rs[k - 1][s].time
       /\ RestsOnFresh(t, rs, k, labels, s)

FreshInv ==
  /\ rounds[1] = AccessLabels(query)
  /\ pc \in {"patterns", "scan", "walks"} =>
       \A s \in nextMarked : cur[s].time < Prev[s].time
  /\ pc = "walks" => relaxing \subseteq nextMarked
  /\ FirstOutFirstIn(tt) =>
       /\ \A k \in 2 .. K : Written(tt, rounds, k, rounds[k])
       /\ pc \in {"patterns", "scan", "walks"} => Written(tt, rounds, K + 1, cur)

-----------------------------------------------------------------------------
(* Legs and rides.                                                         *)
LEMMA RideCountCons ==
  ASSUME NEW leg \in Legs, NEW legs \in Seq(Legs)
  PROVE  RideCount(<<leg>> \o legs)
           = RideCount(legs) + (IF IsRide(leg) THEN 1 ELSE 0)
<1> DEFINE all     == <<leg>> \o legs
           shifted == {i + 1 : i \in Rides(legs)}
           f       == [i \in Rides(legs) |-> i + 1]
<1>1. /\ IsFiniteSet(Rides(legs)) /\ Rides(legs) \in SUBSET (Nat \ {0})
      /\ RideCount(legs) \in Nat
  BY RidesFinite
<1>2. /\ DOMAIN all = 1 .. (Len(legs) + 1)
      /\ all[1] = leg
      /\ \A i \in 1 .. Len(legs) : all[i + 1] = legs[i]
      /\ Len(legs) \in Nat /\ DOMAIN legs = 1 .. Len(legs)
  OBVIOUS
<1>3. Rides(all) = IF IsRide(leg) THEN shifted \cup {1} ELSE shifted
  <2>1. ASSUME NEW i \in shifted
        PROVE  i \in Rides(all) /\ i # 1
    <3>1. PICK j \in Rides(legs) : i = j + 1
      OBVIOUS
    <3>2. j \in 1 .. Len(legs) /\ IsRide(legs[j])
      BY <1>2 DEF Rides
    <3>3. i \in DOMAIN all /\ all[i] = legs[j] /\ i # 1
      BY <1>2, <3>1, <3>2
    <3> HIDE DEF all
    <3> QED BY <3>2, <3>3 DEF Rides
  <2>2. ASSUME NEW i \in Rides(all), i # 1
        PROVE  i \in shifted
    <3>1. i \in 1 .. (Len(legs) + 1) /\ IsRide(all[i])
      BY <1>2 DEF Rides
    <3>2. i - 1 \in 1 .. Len(legs) /\ (i - 1) + 1 = i
      BY <1>2, <2>2, <3>1
    <3>3. all[i] = legs[i - 1]
      BY <1>2, <3>2
    <3>4. i - 1 \in Rides(legs)
      BY <1>2, <3>1, <3>2, <3>3 DEF Rides
    <3> QED BY <3>2, <3>4
  <2>3. 1 \in Rides(all) <=> IsRide(leg)
    <3>1. 1 \in DOMAIN all
      BY <1>2
    <3> HIDE DEF all
    <3> QED BY <1>2, <3>1 DEF Rides
  <2> HIDE DEF all, shifted
  <2>4. \A i \in Rides(all) : i \in shifted \cup {1}
    BY <2>2
  <2>5. shifted \subseteq Rides(all) /\ 1 \notin shifted
    BY <2>1
  <2>6. CASE IsRide(leg)
    <3>1. 1 \in Rides(all)
      BY <2>3, <2>6
    <3> QED BY <2>4, <2>5, <2>6, <3>1
  <2>7. CASE ~IsRide(leg)
    <3>1. 1 \notin Rides(all)
      BY <2>3, <2>7
    <3>2. \A i : i \in Rides(all) <=> i \in shifted
      BY <2>4, <2>5, <3>1
    <3>3. Rides(all) = shifted
      BY <3>2
    <3> QED BY <2>7, <3>3
  <2> QED BY <2>6, <2>7
<1>4. IsFiniteSet(shifted) /\ Cardinality(shifted) = Cardinality(Rides(legs))
  <2>1. f \in Bijection(Rides(legs), shifted)
    <3>1. f \in [Rides(legs) -> shifted]
      OBVIOUS
    <3>2. \A i, j \in Rides(legs) : f[i] = f[j] => i = j
      BY <1>1
    <3>3. \A t \in shifted : \E i \in Rides(legs) : f[i] = t
      OBVIOUS
    <3> QED BY <3>1, <3>2, <3>3, Fun_IsBij
  <2>2. ExistsBijection(Rides(legs), shifted)
    BY <2>1 DEF ExistsBijection
  <2> QED BY <1>1, <2>2, FS_Bijection
<1>5. 1 \notin shifted
  BY <1>1
<1> HIDE DEF all, shifted
<1>6. Cardinality(shifted \cup {1}) = Cardinality(shifted) + 1
  BY <1>4, <1>5, FS_AddElement
<1>7. RideCount(all) = RideCount(legs) + (IF IsRide(leg) THEN 1 ELSE 0)
  <2>1. CASE IsRide(leg)
    BY <1>3, <1>4, <1>6, <2>1 DEF RideCount
  <2>2. CASE ~IsRide(leg)
    BY <1>1, <1>3, <1>4, <2>2 DEF RideCount
  <2> QED BY <2>1, <2>2
<1> QED BY <1>7 DEF all

LEMMA WalksAreNoRides ==
  ASSUME NEW s \in Stops, NEW d \in Nat
  PROVE  /\ RideCount(WalkIfAny(s, d)) = 0
         /\ \A legs \in Seq(Legs) : RideCount(WalkIfAny(s, d) \o legs) = RideCount(legs)
<1>1. Walk(s, d) \in Legs /\ ~IsRide(Walk(s, d))
  BY DEF Walk, Legs, IsRide
<1>2. RideCount(<<>>) = 0
  BY FS_EmptySet DEF RideCount, Rides
<1>3. \A l \in Seq(Legs) : RideCount(<<Walk(s, d)>> \o l) = RideCount(l)
  BY <1>1, RideCountCons, RidesFinite
<1>4. CASE d > 0
  <2>1. <<Walk(s, d)>> \o <<>> = <<Walk(s, d)>> /\ <<>> \in Seq(Legs)
    BY <1>1
  <2> QED BY <1>2, <1>3, <1>4, <2>1 DEF WalkIfAny
<1>5. CASE ~(d > 0)
  <2>1. \A legs \in Seq(Legs) : <<>> \o legs = legs
    OBVIOUS
  <2> QED BY <1>2, <1>5, <2>1 DEF WalkIfAny
<1> QED BY <1>4, <1>5

-----------------------------------------------------------------------------
(* What is written stays written while labels get earlier.                 *)
LEMMA WrittenStays ==
  ASSUME NEW t, NEW rs, NEW k, Written(t, rs, k, cur),
         cur \in [Stops -> Labels],
         \A s \in Stops : /\ cur[s].time \in Nat /\ cur'[s].time \in Nat
                          /\ rs[k - 1][s].time \in Nat
                          /\ cur'[s].time <= cur[s].time,
         \A s \in Stops : \/ cur'[s] = cur[s]
                          \/ /\ cur'[s].time < rs[k - 1][s].time
                             /\ RestsOnFresh(t, rs, k, cur', s)
  PROVE  Written(t, rs, k, cur')
<1> SUFFICES ASSUME NEW s \in Stops, cur'[s] # rs[k - 1][s], cur'[s] = cur[s]
             PROVE  /\ cur'[s].time < rs[k - 1][s].time
                    /\ RestsOnFresh(t, rs, k, cur', s)
  BY DEF Written
<1> DEFINE p == cur[s].parent
<1>1. cur[s].time < rs[k - 1][s].time /\ RestsOnFresh(t, rs, k, cur, s)
  BY DEF Written
<1>2. CASE p.kind = "board" /\ p.round = k - 1
             /\ Fresh(rs, k - 1, t.patterns[p.pattern].stops[p.board])
  BY <1>1, <1>2, Zenon DEF RestsOnFresh
<1>3. CASE p.kind = "transfer" /\ cur[p.from].time < rs[k - 1][p.from].time
  <2>1. p.from \in Stops
    <3>1. p \in Parents
      BY DEF Labels
    <3> HIDE DEF p
    <3> QED BY <1>3, <3>1 DEF Parents, NoParent, Access, Egress
  <2> HIDE DEF p
  <2>2. cur'[p.from].time < rs[k - 1][p.from].time
    BY <1>3, <2>1
  <2> QED BY <1>1, <1>3, <2>2 DEF RestsOnFresh, p
<1> QED BY <1>1, <1>2, <1>3, Zenon DEF RestsOnFresh

(* A ride that improves a stop was boarded with a fresh label: an older one
   had the same ride a round ago.                                           *)
LEMMA BoardedFresh ==
  ASSUME SearchInv, RidesInv, FreshInv, FirstOutFirstIn(tt),
         pc = "scan", scan.trip # 0,
         LET pattern == tt.patterns[scan.pattern]
         IN  pattern.trips[scan.trip].arrivals[scan.pos]
               < cur[pattern.stops[scan.pos]].time
  PROVE  Fresh(rounds, K, tt.patterns[scan.pattern].stops[scan.from])
<1> DEFINE p       == scan.pattern
           pattern == tt.patterns[p]
           from    == pattern.stops[scan.from]
           stop    == pattern.stops[scan.pos]
           arrival == pattern.trips[scan.trip].arrivals[scan.pos]
<1>1. TypeOK /\ LoopsInv /\ ScanInv
  BY DEF SearchInv
<1>2. /\ p \in DOMAIN tt.patterns /\ scan.pos \in DOMAIN pattern.stops
      /\ stop \in Stops /\ arrival \in Nat
  BY <1>1, ScanFacts
<1>3. OnBoard /\ PatternAllowed(pattern, query)
  BY <1>1 DEF ScanInv
<1>4. /\ scan.trip \in DOMAIN pattern.trips
      /\ scan.from \in DOMAIN pattern.stops /\ scan.from < scan.pos
      /\ Rideable(tt, query, Prev, p, scan.trip, scan.from)
  BY <1>3, Zenon DEF OnBoard, Rideable
<1>5. from \in Stops
  <2>1. pattern.stops \in Seq(Stops)
    BY <1>2, PatternFacts, RoundTimes, Zenon
  <2>2. \A x \in DOMAIN pattern.stops : pattern.stops[x] \in Stops
    <3> HIDE DEF pattern
    <3> QED BY <2>1
  <2> QED BY <1>4, <2>2, Zenon
<1>6. SUFFICES ASSUME ~Fresh(rounds, K, from)
               PROVE  FALSE
  OBVIOUS
<1>7. /\ K # 1 /\ ~(Prev[from].time < rounds[K - 1][from].time)
      /\ K \in 2 .. K /\ K - 1 \in 1 .. K - 1 /\ (K - 1) + 1 = K
  <2>1. K # 1 /\ ~(Prev[from].time < rounds[K - 1][from].time)
    BY <1>6, Zenon DEF Fresh, Prev
  <2>2. K \in Nat \ {0}
    BY RoundTimes
  <2>3. \A k \in Nat \ {0} :
          k # 1 => k \in 2 .. k /\ k - 1 \in 1 .. k - 1 /\ (k - 1) + 1 = k
    OBVIOUS
  <2> QED BY <2>1, <2>2, <2>3, Zenon
<1>8. Prev[from] = rounds[K - 1][from]
  BY <1>5, <1>7, Zenon DEF FreshInv, Written, Prev
<1>9. Rideable(tt, query, rounds[K - 1], p, scan.trip, scan.from)
  BY <1>4, <1>8, Zenon DEF Rideable
<1>10. PatternKept(tt, query, rounds[K - 1], Prev, p)
  BY <1>2, <1>7 DEF RidesInv, RoundsKept, Prev
<1>11. AsEarly(tt, Prev, p, scan.trip, scan.pos)
  BY <1>2, <1>4, <1>9, <1>10, Zenon DEF PatternKept
<1>12. Prev[stop].time <= arrival /\ arrival < cur[stop].time
  BY <1>11, Zenon DEF AsEarly
<1>13. cur[stop].time \in Nat /\ Prev[stop].time \in Nat /\ cur[stop].time <= Prev[stop].time
  BY <1>2, RoundTimes
<1> HIDE DEF stop, arrival
<1> QED BY <1>2, <1>12, <1>13

LEMMA FreshInit == Init => FreshInv
<1> SUFFICES ASSUME Init PROVE FreshInv
  OBVIOUS
<1>1. rounds = <<AccessLabels(query)>> /\ pc = "round"
  BY DEF Init
<1>2. K = 1 /\ rounds[1] = AccessLabels(query)
  BY <1>1 DEF K
<1> QED BY <1>1, <1>2 DEF FreshInv

LEMMA FreshScan ==
  ASSUME SearchInv, RidesInv, FreshInv, ScanPosition
  PROVE  FreshInv'
<1> DEFINE pattern == tt.patterns[scan.pattern]
           stop    == pattern.stops[scan.pos]
           arrival == pattern.trips[scan.trip].arrivals[scan.pos]
           parent  == Board(scan.pattern, scan.trip, scan.from, scan.pos, K)
           label   == Label(arrival, parent)
           improves == /\ scan.trip # 0
                       /\ arrival < best[stop]
                       /\ arrival < cur[stop].time
<1>1. /\ tt' = tt /\ query' = query /\ rounds' = rounds /\ K' = K /\ Prev' = Prev
      /\ pc = "scan" /\ pc' \in {"patterns", "scan"}
  BY ScanMoves, Zenon
<1>2. /\ cur' = IF improves THEN [cur EXCEPT ![stop] = label] ELSE cur
      /\ nextMarked' = IF improves THEN nextMarked \cup {stop} ELSE nextMarked
  BY Zenon DEF ScanPosition
<1>3. stop \in Stops /\ (scan.trip # 0 => arrival \in Nat)
  <2>1. TypeOK /\ LoopsInv /\ ScanInv
    BY DEF SearchInv
  <2> QED BY <1>1, <2>1, ScanFacts
<1>4. /\ \A s \in Stops :
           /\ cur[s].time \in Nat /\ Prev[s].time \in Nat
           /\ cur[s].time <= Prev[s].time
      /\ K \in Nat \ {0} /\ cur \in [Stops -> Labels] /\ nextMarked \subseteq Stops
  BY RoundTimes DEF SearchInv, TypeOK
<1>5. \A s \in Stops : cur'[s].time \in Nat /\ cur'[s].time <= cur[s].time
  BY ScanWrites, Zenon
<1>6. label.time = arrival /\ label.parent = parent
  BY DEF Label
<1>7. /\ parent.kind = "board" /\ parent.round = K
      /\ parent.pattern = scan.pattern /\ parent.board = scan.from
  BY DEF Board
<1> HIDE DEF label, parent, arrival
<1>8. ASSUME NEW s \in Stops
      PROVE  \/ cur'[s] = cur[s]
             \/ /\ s = stop /\ improves /\ cur'[s] = label
                /\ cur'[s].time < Prev[s].time
  <2> HIDE DEF stop
  <2>1. CASE improves /\ s = stop
    <3>1. cur'[s] = label
      BY <1>2, <1>3, <1>4, <2>1
    <3> QED BY <1>3, <1>4, <1>6, <2>1, <3>1
  <2>2. CASE ~(improves /\ s = stop)
    BY <1>2, <1>3, <1>4, <2>2
  <2> QED BY <2>1, <2>2
<1>9. \A s \in nextMarked' : cur'[s].time < Prev'[s].time
  <2>1. \A s \in nextMarked : cur[s].time < Prev[s].time /\ s \in Stops
    BY <1>1, <1>4 DEF FreshInv
  <2>2. \A s \in nextMarked : cur'[s].time < Prev[s].time
    BY <1>4, <1>5, <2>1
  <2>3. improves => cur'[stop].time < Prev[stop].time
    <3>1. improves => cur'[stop] = label
      BY <1>2, <1>3, <1>4
    <3> HIDE DEF stop
    <3> QED BY <1>3, <1>4, <1>6, <3>1
  <2> HIDE DEF stop
  <2> QED BY <1>1, <1>2, <2>2, <2>3
<1>10. ASSUME FirstOutFirstIn(tt)
       PROVE  Written(tt, rounds, K + 1, cur')
  <2>1. (K + 1) - 1 = K
    BY <1>4
  <2>2. improves => Fresh(rounds, K, pattern.stops[scan.from])
    BY <1>1, <1>10, BoardedFresh DEF arrival
  <2>3. ASSUME NEW s \in Stops
        PROVE  \/ cur'[s] = cur[s]
               \/ /\ cur'[s].time < rounds[(K + 1) - 1][s].time
                  /\ RestsOnFresh(tt, rounds, K + 1, cur', s)
    <3>1. SUFFICES ASSUME improves, cur'[s] = label, cur'[s].time < Prev[s].time
                   PROVE  RestsOnFresh(tt, rounds, K + 1, cur', s)
      BY <1>8, <2>1 DEF Prev
    <3>2. cur'[s].parent = parent
      BY <1>6, <3>1
    <3> QED BY <1>7, <2>1, <2>2, <3>1, <3>2 DEF RestsOnFresh
  <2>4. Written(tt, rounds, K + 1, cur)
    BY <1>1, <1>10 DEF FreshInv
  <2>5. \A s \in Stops : rounds[(K + 1) - 1][s].time \in Nat
    BY <1>4, <2>1 DEF Prev
  <2> QED BY <1>4, <1>5, <2>3, <2>4, <2>5, WrittenStays
<1> QED BY <1>1, <1>9, <1>10 DEF FreshInv

LEMMA FreshRelaxWalks ==
  ASSUME SearchInv, FreshInv, RelaxWalks
  PROVE  FreshInv'
<1> DEFINE s      == Min(relaxing)
           w(r)   == tt.walks[<<s, r>>]
           new(r) == Label(cur[s].time + w(r), Transfer(s, w(r)))
<1>1. /\ tt' = tt /\ query' = query /\ rounds' = rounds /\ K' = K /\ Prev' = Prev
      /\ pc = "walks" /\ pc' = "walks" /\ nextMarked' = nextMarked
      /\ relaxing' = relaxing \ {s}
      /\ cur' = [r \in Stops |-> IF r \in WalkImproves(s) THEN new(r) ELSE cur[r]]
  BY DEF RelaxWalks, K, Prev
<1>2. s \in Stops /\ s \in relaxing /\ cur'[s] = cur[s]
  BY RelaxWrites, Zenon
<1>3. \A r \in Stops : cur'[r].time \in Nat /\ cur'[r].time <= cur[r].time
  BY RelaxWrites, Zenon
<1>4. /\ \A r \in Stops :
           /\ cur[r].time \in Nat /\ Prev[r].time \in Nat
           /\ cur[r].time <= Prev[r].time
      /\ K \in Nat \ {0} /\ cur \in [Stops -> Labels] /\ nextMarked \subseteq Stops
  BY RoundTimes DEF SearchInv, TypeOK
<1>5. s \in nextMarked
  BY <1>1, <1>2 DEF FreshInv
<1>6. cur'[s].time < Prev[s].time
  BY <1>1, <1>2, <1>5 DEF FreshInv
<1>7. \A r \in nextMarked : cur'[r].time < Prev[r].time
  <2>1. \A r \in nextMarked : cur[r].time < Prev[r].time /\ r \in Stops
    BY <1>1, <1>4 DEF FreshInv
  <2> QED BY <1>3, <1>4, <2>1
<1>8. ASSUME FirstOutFirstIn(tt)
      PROVE  Written(tt, rounds, K + 1, cur')
  <2>1. (K + 1) - 1 = K
    BY <1>4
  <2>2. ASSUME NEW r \in Stops
        PROVE  \/ cur'[r] = cur[r]
               \/ /\ cur'[r].time < rounds[(K + 1) - 1][r].time
                  /\ RestsOnFresh(tt, rounds, K + 1, cur', r)
    <3>1. CASE r \in WalkImproves(s)
      <4>1. cur'[r] = new(r)
        BY <1>1, <3>1
      <4>2. /\ cur'[r].time = cur[s].time + w(r)
            /\ cur'[r].parent.kind = "transfer" /\ cur'[r].parent.from = s
        BY <4>1 DEF Label, Transfer
      <4>3. cur'[r].time < cur[r].time
        BY <3>1, <4>2, Zenon DEF WalkImproves
      <4>4. cur'[r].time < Prev[r].time
        BY <1>3, <1>4, <4>3
      <4>5. RestsOnFresh(tt, rounds, K + 1, cur', r)
        BY <1>6, <2>1, <4>2 DEF RestsOnFresh, Prev
      <4> QED BY <2>1, <4>4, <4>5 DEF Prev
    <3>2. CASE r \notin WalkImproves(s)
      BY <1>1, <3>2
    <3> QED BY <3>1, <3>2
  <2>3. Written(tt, rounds, K + 1, cur)
    BY <1>1, <1>8 DEF FreshInv
  <2>4. \A r \in Stops : rounds[(K + 1) - 1][r].time \in Nat
    BY <1>4, <2>1 DEF Prev
  <2> QED BY <1>3, <1>4, <2>2, <2>3, <2>4, WrittenStays
<1> QED BY <1>1, <1>7, <1>8 DEF FreshInv

(* A round appended leaves what was written in those before as it was.     *)
LEMMA WrittenOnAppend ==
  ASSUME NEW t, NEW before, NEW after, NEW k \in Nat, k >= 2,
         \A i \in 1 .. (k - 1) : after[i] = before[i],
         NEW labels, Written(t, before, k, labels)
  PROVE  Written(t, after, k, labels)
<1>1. after[k - 1] = before[k - 1]
  OBVIOUS
<1>2. \A s : Fresh(before, k - 1, s) => Fresh(after, k - 1, s)
  <2>1. CASE k - 1 = 1
    BY <2>1 DEF Fresh
  <2>2. CASE k - 1 # 1
    <3>1. after[(k - 1) - 1] = before[(k - 1) - 1]
      BY <2>2
    <3> QED BY <1>1, <3>1 DEF Fresh
  <2> QED BY <2>1, <2>2
<1>3. \A s : RestsOnFresh(t, before, k, labels, s) => RestsOnFresh(t, after, k, labels, s)
  BY <1>1, <1>2 DEF RestsOnFresh
<1> QED BY <1>1, <1>3 DEF Written

LEMMA FreshEndRound ==
  ASSUME SearchInv, FreshInv, EndRound
  PROVE  FreshInv'
<1>1. /\ tt' = tt /\ query' = query /\ cur' = cur
      /\ pc = "walks" /\ pc' \in {"collect", "round"}
      /\ K \in Nat \ {0} /\ K' = K + 1
      /\ rounds'[K + 1] = cur
      /\ \A k \in 1 .. K : rounds'[k] = rounds[k]
  BY EndRoundMoves
<1>2. rounds'[1] = AccessLabels(query')
  BY <1>1 DEF FreshInv
<1>3. ASSUME FirstOutFirstIn(tt), NEW k \in 2 .. (K + 1)
      PROVE  Written(tt, rounds', k, rounds'[k])
  <2>1. k \in Nat /\ k >= 2 /\ \A i \in 1 .. (k - 1) : rounds'[i] = rounds[i]
    BY <1>1
  <2>2. CASE k = K + 1
    <3>1. Written(tt, rounds, k, cur)
      BY <1>1, <1>3, <2>2 DEF FreshInv
    <3> QED BY <1>1, <2>1, <2>2, <3>1, WrittenOnAppend
  <2>3. CASE k # K + 1
    <3>1. k \in 2 .. K /\ rounds'[k] = rounds[k]
      BY <1>1, <2>3
    <3>2. Written(tt, rounds, k, rounds[k])
      BY <1>3, <3>1 DEF FreshInv
    <3> QED BY <2>1, <3>1, <3>2, WrittenOnAppend
  <2> QED BY <2>2, <2>3
<1> QED BY <1>1, <1>2, <1>3 DEF FreshInv

LEMMA FreshStep ==
  ASSUME SearchInv, RidesInv, FreshInv, [Next]_vars
  PROVE  FreshInv'
<1>1. CASE StartRound
  <2>1. /\ tt' = tt /\ query' = query /\ rounds' = rounds /\ K' = K /\ Prev' = Prev
        /\ cur' = Prev /\ nextMarked' = {} /\ pc' = "patterns"
    BY <1>1 DEF StartRound, K, Prev
  <2>2. K \in Nat \ {0} /\ (K + 1) - 1 = K
    BY RoundTimes
  <2>3. Written(tt, rounds, K + 1, Prev)
    BY <2>2 DEF Written, Prev
  <2> QED BY <2>1, <2>3 DEF FreshInv
<1>2. CASE SkipPattern \/ StartPattern \/ StartWalks
  <2>1. /\ tt' = tt /\ query' = query /\ rounds' = rounds /\ K' = K /\ Prev' = Prev
        /\ cur' = cur /\ nextMarked' = nextMarked /\ pc \in {"patterns", "scan", "walks"}
        /\ pc' = "walks" => relaxing' = nextMarked
    BY <1>2 DEF SkipPattern, StartPattern, StartWalks, K, Prev
  <2> QED BY <2>1 DEF FreshInv
<1>3. CASE ScanPosition
  BY <1>3, FreshScan
<1>4. CASE RelaxWalks
  BY <1>4, FreshRelaxWalks
<1>5. CASE EndRound
  BY <1>5, FreshEndRound
<1>6. CASE LastRoundDone \/ SkipRound \/ StartTrace \/ TraceRide \/ TraceWalk
             \/ EndTrace \/ Answer
  <2>1. /\ tt' = tt /\ query' = query /\ rounds' = rounds /\ K' = K
        /\ pc' \notin {"patterns", "scan", "walks"}
    BY <1>6 DEF LastRoundDone, SkipRound, StartTrace, TraceRide, TraceWalk, EndTrace,
                Answer, K
  <2> QED BY <2>1 DEF FreshInv
<1>7. CASE UNCHANGED vars
  BY <1>7 DEF vars, FreshInv, K, Prev
<1> QED BY <1>1, <1>2, <1>3, <1>4, <1>5, <1>6, <1>7 DEF Next

-----------------------------------------------------------------------------
(* How many rounds have been read for journeys, the one traced included.   *)
Collected == IF pc = "trace" THEN collecting ELSE collecting - 1

(* No round read so far is at the destination before bestSoFar.            *)
EndsInv ==
  /\ pc \notin {"collect", "trace", "done"} => collecting = 1 /\ journeys = <<>>
  /\ \A k \in 1 .. Collected : \A i \in UsableEgress(rounds[k]) :
       bestSoFar <= Total(rounds[k], query.egress[i])

(* The journeys so far arrive ever earlier.                                *)
EarlierInv ==
  /\ \A n \in DOMAIN journeys :
       /\ bestSoFar <= journeys[n].arrival
       /\ pc = "trace" => bestSoFar < journeys[n].arrival
  /\ \A i, j \in DOMAIN journeys :
       i < j => journeys[i].arrival > journeys[j].arrival

(* Each takes as many rides as there were rounds before the one it was found
   in, which is what a trace has left to go.                                *)
RidesTaken ==
  /\ \A n \in DOMAIN journeys : RideCount(journeys[n].legs) + 2 <= collecting
  /\ \A i, j \in DOMAIN journeys :
       i < j => RideCount(journeys[i].legs) < RideCount(journeys[j].legs)
  /\ pc = "trace" =>
       /\ Fresh(rounds, trace.round, trace.stop)
       /\ RideCount(trace.legs) + trace.round = collecting

RidesTakenInv == FirstOutFirstIn(tt) => RidesTaken

TradeInv == KeptInv /\ FreshInv /\ EndsInv /\ EarlierInv /\ RidesTakenInv

-----------------------------------------------------------------------------
(* The best egress of the round read next is the least of its totals.      *)
LEMMA BestIsLeast ==
  ASSUME SearchInv, collecting <= Len(rounds)
  PROVE  LET round == rounds[collecting]
             e     == BestEgress(round)
         IN  /\ collecting \in 1 .. K
             /\ \A i \in UsableEgress(round) :
                  /\ i \in DOMAIN query.egress /\ query.egress[i].stop \in Stops
                  /\ Total(round, query.egress[i]) \in Nat
             /\ UsableEgress(round) # {} =>
                  /\ e # 0 /\ e \in UsableEgress(round)
                  /\ \A j \in UsableEgress(round) :
                       Total(round, query.egress[e]) <= Total(round, query.egress[j])
             /\ UsableEgress(round) = {} => e = 0
<1> DEFINE round  == rounds[collecting]
           usable == UsableEgress(round)
           least  == {i \in usable : \A j \in usable :
                        Total(round, query.egress[i]) <= Total(round, query.egress[j])}
           totals == {Total(round, query.egress[i]) : i \in usable}
<1>1. /\ query.egress \in Seq(StreetLink) /\ collecting \in 1 .. K /\ K \in Nat
      /\ DOMAIN rounds = 1 .. K
  BY QueryFacts, RoundFacts DEF SearchInv, TypeOK, LoopsInv, K
<1>2. ASSUME NEW i \in usable
      PROVE  /\ i \in DOMAIN query.egress /\ query.egress[i].stop \in Stops
             /\ Total(round, query.egress[i]) \in Nat /\ i \in Nat \ {0}
  <2>1. i \in DOMAIN query.egress /\ i \in Nat \ {0}
    BY <1>1 DEF UsableEgress
  <2>2. query.egress[i].stop \in Stops /\ query.egress[i].duration \in Nat
    BY <2>1, QueryFacts DEF SearchInv, TypeOK
  <2>3. round[query.egress[i].stop].time \in Nat
    BY <1>1, <2>2, LabelTime DEF SearchInv
  <2> HIDE DEF round
  <2> QED BY <2>1, <2>2, <2>3 DEF Total
<1> HIDE DEF round, usable
<1>3. ASSUME usable # {}
      PROVE  Min(least) \in least
  <2>1. totals \in SUBSET Nat /\ totals # {}
    BY <1>2, <1>3
  <2>2. Min(totals) \in totals /\ \A y \in totals : Min(totals) <= y
    BY <2>1, MinOfNats
  <2>3. PICK i \in usable : Min(totals) = Total(round, query.egress[i])
    BY <2>2
  <2>4. i \in least
    BY <2>2, <2>3
  <2>5. least \in SUBSET Nat
    BY <1>2
  <2> HIDE DEF least
  <2> QED BY <2>4, <2>5, MinOfNats
<1>4. BestEgress(round) = IF usable = {} THEN 0 ELSE Min(least)
  BY DEF BestEgress, usable
<1> HIDE DEF least
<1>5. usable # {} => /\ BestEgress(round) = Min(least)
                     /\ Min(least) \in usable
                     /\ \A j \in usable : Total(round, query.egress[Min(least)])
                                           <= Total(round, query.egress[j])
  BY <1>3, <1>4 DEF least
<1>6. usable # {} => BestEgress(round) # 0
  BY <1>2, <1>5
<1> QED BY <1>1, <1>2, <1>4, <1>5, <1>6 DEF round, usable

LEMMA EndsInit == Init => EndsInv /\ EarlierInv
<1> SUFFICES ASSUME Init PROVE EndsInv /\ EarlierInv
  OBVIOUS
<1>1. collecting = 1 /\ journeys = <<>> /\ pc = "round"
  BY DEF Init
<1> QED BY <1>1 DEF EndsInv, EarlierInv, Collected

LEMMA EndsStep ==
  ASSUME SearchInv, EndsInv, [Next]_vars
  PROVE  EndsInv'
<1>1. CASE StartRound \/ SkipPattern \/ StartPattern \/ ScanPosition \/ StartWalks
             \/ RelaxWalks \/ EndRound \/ LastRoundDone
  <2>1. /\ pc \notin {"collect", "trace", "done"} /\ pc' \notin {"trace", "done"}
        /\ collecting' = collecting /\ journeys' = journeys
    BY <1>1, Zenon DEF StartRound, SkipPattern, StartPattern, ScanPosition, StartWalks,
                RelaxWalks, EndRound, LastRoundDone
  <2>2. collecting = 1 /\ journeys = <<>>
    BY <2>1 DEF EndsInv
  <2> QED BY <2>1, <2>2 DEF EndsInv, Collected
<1>2. CASE SkipRound
  <2> DEFINE round == rounds[collecting]
             e     == BestEgress(round)
  <2>1. /\ tt' = tt /\ query' = query /\ rounds' = rounds /\ bestSoFar' = bestSoFar
        /\ pc = "collect" /\ pc' = "collect" /\ collecting' = collecting + 1
        /\ collecting <= Len(rounds) /\ ~Improvement(round)
    BY <1>2 DEF SkipRound
  <2>2. collecting \in 1 .. K /\ bestSoFar \in Nat /\ K \in Nat
    BY <2>1, BestIsLeast, RoundTimes, Zenon DEF SearchInv, TypeOK
  <2>3. ASSUME NEW i \in UsableEgress(round)
        PROVE  bestSoFar <= Total(round, query.egress[i])
    <3>1. /\ e # 0 /\ e \in UsableEgress(round)
          /\ Total(round, query.egress[e]) <= Total(round, query.egress[i])
          /\ Total(round, query.egress[e]) \in Nat
          /\ Total(round, query.egress[i]) \in Nat
      BY <2>1, BestIsLeast, Zenon
    <3>2. ~(Total(round, query.egress[e]) < bestSoFar)
      BY <2>1, <3>1 DEF Improvement
    <3> QED BY <2>2, <3>1, <3>2
  <2>4. Collected = collecting - 1 /\ Collected' = collecting
    BY <2>1, <2>2 DEF Collected
  <2> QED BY <2>1, <2>2, <2>3, <2>4 DEF EndsInv, UsableEgress, Total
<1>3. CASE StartTrace
  <2> DEFINE round == rounds[collecting]
             e     == BestEgress(round)
  <2>1. /\ tt' = tt /\ query' = query /\ rounds' = rounds
        /\ bestSoFar' = Total(round, query.egress[e])
        /\ pc = "collect" /\ pc' = "trace" /\ collecting' = collecting
        /\ collecting <= Len(rounds) /\ e # 0 /\ bestSoFar' < bestSoFar
    BY <1>3 DEF StartTrace, Improvement
  <2>2. collecting \in 1 .. K /\ bestSoFar \in Nat /\ K \in Nat /\ DOMAIN rounds = 1 .. K
    BY <2>1, BestIsLeast, RoundTimes, Zenon DEF SearchInv, TypeOK
  <2>3. /\ e \in UsableEgress(round) /\ bestSoFar' \in Nat
        /\ \A i \in UsableEgress(round) : bestSoFar' <= Total(round, query.egress[i])
    BY <2>1, BestIsLeast, Zenon
  <2>4. Collected = collecting - 1 /\ Collected' = collecting
    BY <2>1, <2>2 DEF Collected
  <2>5. ASSUME NEW k \in 1 .. (collecting - 1), NEW i \in UsableEgress(rounds[k])
        PROVE  bestSoFar' <= Total(rounds[k], query.egress[i])
    <3>1. bestSoFar <= Total(rounds[k], query.egress[i])
      BY <2>4 DEF EndsInv
    <3>2. Total(rounds[k], query.egress[i]) \in Nat
      <4>1. query.egress[i].stop \in Stops /\ query.egress[i].duration \in Nat
        BY QueryFacts DEF UsableEgress, SearchInv, TypeOK
      <4>2. rounds[k][query.egress[i].stop].time \in Nat
        BY <2>2, <4>1, LabelTime DEF SearchInv
      <4> QED BY <4>1, <4>2 DEF Total
    <3> QED BY <2>1, <2>2, <2>3, <3>1, <3>2
  <2>6. \A k \in 1 .. collecting : \A i \in UsableEgress(rounds[k]) :
          bestSoFar' <= Total(rounds[k], query.egress[i])
    <3>1. \A k \in 1 .. collecting : k = collecting \/ k \in 1 .. (collecting - 1)
      BY <2>2
    <3> QED BY <2>3, <2>5, <3>1
  <2> QED BY <2>1, <2>4, <2>6, Zenon DEF EndsInv, UsableEgress, Total
<1>4. CASE TraceRide \/ TraceWalk \/ EndTrace \/ Answer
  <2>1. /\ query' = query /\ rounds' = rounds /\ bestSoFar' = bestSoFar
        /\ pc \in {"collect", "trace"} /\ pc' \in {"collect", "trace", "done"}
        /\ Collected' = Collected
    BY <1>4 DEF TraceRide, TraceWalk, EndTrace, Answer, Collected, SearchInv, TypeOK
  <2> QED BY <2>1 DEF EndsInv, UsableEgress, Total
<1>5. CASE UNCHANGED vars
  BY <1>5 DEF vars, EndsInv, UsableEgress, Total, Collected
<1> QED BY <1>1, <1>2, <1>3, <1>4, <1>5 DEF Next

(* The journey a trace ends in: the rides traced, after the access walk.   *)
LEMMA JourneyTraced ==
  ASSUME SearchInv, EndTrace
  PROVE  \E journey \in Answers :
           /\ journeys' = Append(journeys, journey)
           /\ journey.arrival = bestSoFar
           /\ RideCount(journey.legs) = RideCount(trace.legs)
           /\ Len(journeys) \in Nat /\ DOMAIN journeys = 1 .. Len(journeys)
           /\ DOMAIN journeys' = 1 .. (Len(journeys) + 1)
           /\ \A n \in 1 .. Len(journeys) : journeys'[n] = journeys[n]
           /\ journeys'[Len(journeys) + 1] = journey
<1> DEFINE links == LinksTo(query.access, trace.stop)
           walk  == IF TracedParent.kind = "access" /\ links # {}
                    THEN WalkIfAny(trace.stop, query.access[Min(links)].duration)
                    ELSE <<>>
           legs  == walk \o trace.legs
           journey == [legs |-> legs, arrival |-> bestSoFar, transfers |-> Transfers(legs)]
<1>1. journeys' = Append(journeys, journey) /\ pc = "trace"
  BY DEF EndTrace
<1>2. /\ trace.legs \in Seq(Legs) /\ trace.stop \in Stops
      /\ journeys \in Seq(Answers) /\ bestSoFar \in Nat
  BY <1>1 DEF SearchInv, TypeOK, TraceInv
<1>3. legs \in Seq(Legs) /\ RideCount(legs) = RideCount(trace.legs)
  <2>1. CASE TracedParent.kind = "access" /\ links # {}
    <3>1. links \in SUBSET Nat
      BY QueryFacts DEF LinksTo, SearchInv, TypeOK
    <3>2. Min(links) \in DOMAIN query.access
      BY <2>1, <3>1, MinOfNats DEF LinksTo
    <3>3. query.access[Min(links)].duration \in Nat
      BY <3>2, QueryFacts DEF SearchInv, TypeOK
    <3> DEFINE d == query.access[Min(links)].duration
    <3>4. legs = WalkIfAny(trace.stop, d) \o trace.legs
      BY <2>1
    <3> HIDE DEF d, legs
    <3>5. WalkIfAny(trace.stop, d) \in Seq(Legs)
      BY <1>2, <3>3, WalkIfAnyType DEF d
    <3>6. legs \in Seq(Legs)
      BY <1>2, <3>4, <3>5
    <3>7. RideCount(legs) = RideCount(trace.legs)
      BY <1>2, <3>3, <3>4, WalksAreNoRides DEF d
    <3> QED BY <3>6, <3>7
  <2>2. CASE ~(TracedParent.kind = "access" /\ links # {})
    <3>1. walk = <<>>
      BY <2>2
    <3> HIDE DEF walk
    <3> QED BY <1>2, <3>1
  <2> QED BY <2>1, <2>2
<1> HIDE DEF legs
<1>4. journey \in Answers
  BY <1>2, <1>3, RideCountType DEF Answers
<1>5. journey.arrival = bestSoFar /\ journey.legs = legs
  OBVIOUS
<1> HIDE DEF journey
<1>6. /\ Len(journeys) \in Nat /\ DOMAIN journeys = 1 .. Len(journeys)
      /\ DOMAIN journeys' = 1 .. (Len(journeys) + 1)
      /\ \A n \in 1 .. Len(journeys) : journeys'[n] = journeys[n]
      /\ journeys'[Len(journeys) + 1] = journey
  BY <1>1, <1>2, <1>4
<1> QED BY <1>1, <1>3, <1>4, <1>5, <1>6

LEMMA EarlierStep ==
  ASSUME SearchInv, EndsInv, EarlierInv, [Next]_vars
  PROVE  EarlierInv'
<1>1. CASE StartRound \/ SkipPattern \/ StartPattern \/ ScanPosition \/ StartWalks
             \/ RelaxWalks \/ EndRound \/ LastRoundDone \/ SkipRound \/ Answer
             \/ TraceRide \/ TraceWalk
  <2>1. /\ journeys' = journeys /\ bestSoFar' = bestSoFar
        /\ pc' = "trace" => pc = "trace"
    BY <1>1, Zenon DEF StartRound, SkipPattern, StartPattern, ScanPosition, StartWalks,
                RelaxWalks, EndRound, LastRoundDone, SkipRound, Answer, TraceRide, TraceWalk
  <2> QED BY <2>1 DEF EarlierInv
<1>2. journeys \in Seq(Answers) /\ bestSoFar \in Nat
      /\ \A n \in DOMAIN journeys : journeys[n].arrival \in Nat
  <2>1. journeys \in Seq(Answers) /\ bestSoFar \in Nat
    BY DEF SearchInv, TypeOK
  <2>2. \A n \in DOMAIN journeys : journeys[n] \in Answers
    BY <2>1
  <2> QED BY <2>1, <2>2 DEF Answers
<1>3. CASE StartTrace
  <2>1. journeys' = journeys /\ bestSoFar' < bestSoFar
    BY <1>3 DEF StartTrace, Improvement
  <2>2. bestSoFar' \in Nat
    BY <1>3, StartTraceStep DEF SearchInv, TypeOK
  <2>3. \A n \in DOMAIN journeys : bestSoFar' <= journeys[n].arrival
                                 /\ bestSoFar' < journeys[n].arrival
    BY <1>2, <2>1, <2>2 DEF EarlierInv
  <2> QED BY <2>1, <2>3 DEF EarlierInv
<1>4. CASE EndTrace
  <2>1. bestSoFar' = bestSoFar /\ pc = "trace" /\ pc' = "collect"
    BY <1>4 DEF EndTrace
  <2>2. PICK journey \in Answers :
          /\ journey.arrival = bestSoFar
          /\ Len(journeys) \in Nat /\ DOMAIN journeys = 1 .. Len(journeys)
          /\ DOMAIN journeys' = 1 .. (Len(journeys) + 1)
          /\ \A n \in 1 .. Len(journeys) : journeys'[n] = journeys[n]
          /\ journeys'[Len(journeys) + 1] = journey
    BY <1>4, JourneyTraced, Zenon
  <2>3. \A n \in 1 .. Len(journeys) : bestSoFar < journeys[n].arrival
    BY <2>1, <2>2 DEF EarlierInv
  <2>4. ASSUME NEW n \in DOMAIN journeys'
        PROVE  bestSoFar <= journeys'[n].arrival
    BY <1>2, <2>2, <2>3
  <2>5. ASSUME NEW i \in DOMAIN journeys', NEW j \in DOMAIN journeys', i < j
        PROVE  journeys'[i].arrival > journeys'[j].arrival
    <3>1. i \in 1 .. Len(journeys) /\ journeys'[i] = journeys[i]
      BY <2>2, <2>5
    <3>2. CASE j = Len(journeys) + 1
      BY <1>2, <2>2, <2>3, <3>1, <3>2
    <3>3. CASE j # Len(journeys) + 1
      BY <2>2, <2>5, <3>1, <3>3 DEF EarlierInv
    <3> QED BY <3>2, <3>3
  <2> QED BY <2>1, <2>4, <2>5 DEF EarlierInv
<1>5. CASE UNCHANGED vars
  BY <1>5 DEF vars, EarlierInv
<1> QED BY <1>1, <1>3, <1>4, <1>5 DEF Next

-----------------------------------------------------------------------------
(* A label traced is one of the first round, or rests on a fresh one.      *)
LEMMA TracedIsFresh ==
  ASSUME SearchInv, FreshInv, FirstOutFirstIn(tt), pc = "trace",
         Fresh(rounds, trace.round, trace.stop)
  PROVE  \/ trace.round = 1 /\ TracedParent.kind \notin {"board", "transfer"}
         \/ /\ trace.round >= 2 /\ trace.round \in 2 .. K
            /\ RestsOnFresh(tt, rounds, trace.round, rounds[trace.round], trace.stop)
<1>1. trace.round \in 1 .. K /\ trace.stop \in Stops /\ K \in Nat
  BY RoundTimes DEF SearchInv, TraceInv
<1>2. CASE trace.round = 1
  <2>1. TracedParent = AccessLabels(query)[trace.stop].parent
    BY <1>2 DEF FreshInv, TracedParent
  <2>2. TracedParent.kind \notin {"board", "transfer"}
    BY <1>1, <2>1 DEF AccessLabels, Unreached, Label, NoParent, Access
  <2> QED BY <1>2, <2>2
<1>3. CASE trace.round # 1
  <2>1. trace.round \in 2 .. K /\ trace.round >= 2
    BY <1>1, <1>3
  <2>2. rounds[trace.round][trace.stop].time < rounds[trace.round - 1][trace.stop].time
    BY <1>3 DEF Fresh
  <2>3. Written(tt, rounds, trace.round, rounds[trace.round])
    BY <2>1 DEF FreshInv
  <2>4. \A x \in Nat : ~(x < x)
    OBVIOUS
  <2>5. rounds[trace.round][trace.stop].time \in Nat
    BY <1>1, RoundTimes, LabelTime DEF SearchInv
  <2>6. rounds[trace.round][trace.stop] # rounds[trace.round - 1][trace.stop]
    BY <2>2, <2>4, <2>5
  <2> QED BY <1>1, <2>1, <2>3, <2>6 DEF Written
<1> QED BY <1>2, <1>3

LEMMA RidesTakenInit == Init => RidesTakenInv
<1> SUFFICES ASSUME Init PROVE RidesTakenInv
  OBVIOUS
<1>1. journeys = <<>> /\ pc = "round"
  BY DEF Init
<1> QED BY <1>1 DEF RidesTakenInv, RidesTaken

LEMMA RideCounts ==
  ASSUME SearchInv
  PROVE  /\ collecting \in Nat
         /\ journeys \in Seq(Answers)
         /\ \A n \in DOMAIN journeys : RideCount(journeys[n].legs) \in Nat
         /\ trace.legs \in Seq(Legs) /\ trace.round \in Nat
         /\ RideCount(trace.legs) \in Nat
<1>1. /\ journeys \in Seq(Answers) /\ collecting \in Nat
      /\ trace \in [stop : Nat, round : Nat, legs : Seq(Legs)]
  BY DEF SearchInv, TypeOK
<1>2. \A n \in DOMAIN journeys : journeys[n].legs \in Seq(Legs)
  <2>1. \A n \in DOMAIN journeys : journeys[n] \in Answers
    BY <1>1
  <2> QED BY <2>1 DEF Answers
<1> QED BY <1>1, <1>2, RidesFinite

LEMMA RidesStartTrace ==
  ASSUME SearchInv, EndsInv, RidesTaken, StartTrace
  PROVE  RidesTaken'
<1> DEFINE round == rounds[collecting]
           e     == BestEgress(round)
           link  == query.egress[e]
<1>1. /\ journeys' = journeys /\ collecting' = collecting /\ rounds' = rounds
      /\ trace' = [stop |-> link.stop, round |-> collecting,
                   legs |-> WalkIfAny(link.stop, link.duration)]
      /\ pc = "collect" /\ collecting <= Len(rounds)
      /\ e # 0 /\ Total(round, link) < bestSoFar
  BY DEF StartTrace, Improvement
<1>2. /\ collecting \in 1 .. K /\ e \in UsableEgress(round)
      /\ link.stop \in Stops /\ e \in DOMAIN query.egress
  BY <1>1, BestIsLeast, Zenon
<1>3. link.duration \in Nat
  BY <1>2, QueryFacts DEF SearchInv, TypeOK
<1>4. RideCount(trace'.legs) = 0
  BY <1>1, <1>2, <1>3, WalksAreNoRides
<1>5. Fresh(rounds, collecting, link.stop)
  <2> SUFFICES ASSUME collecting # 1,
                      ~(round[link.stop].time < rounds[collecting - 1][link.stop].time)
               PROVE  FALSE
    BY Zenon DEF Fresh
  <2> DEFINE before == rounds[collecting - 1]
  <2>1. K \in Nat /\ DOMAIN rounds = 1 .. K
    BY RoundTimes
  <2>2. collecting - 1 \in 1 .. K
    BY <1>2, <2>1
  <2>3. /\ round[link.stop].time \in 0 .. Inf /\ before[link.stop].time \in 0 .. Inf
    BY <1>2, <2>1, <2>2, RoundFacts DEF SearchInv
  <2>4. round[link.stop].time # Inf
    BY <1>2 DEF UsableEgress
  <2> HIDE DEF before, round, link
  <2>5. before[link.stop].time # Inf /\ before[link.stop].time <= round[link.stop].time
    BY <2>3, <2>4, InfAssumption DEF before
  <2>6. e \in UsableEgress(before)
    BY <1>2, <2>5 DEF UsableEgress, link
  <2>7. collecting - 1 \in 1 .. Collected
    BY <1>1, <1>2, <2>1, <2>2 DEF Collected
  <2>8. bestSoFar <= Total(before, link)
    BY <2>6, <2>7 DEF EndsInv, before, link
  <2>9. Total(before, link) <= Total(round, link)
        /\ Total(before, link) \in Nat /\ Total(round, link) \in Nat
    BY <1>3, <2>3, <2>5, InfAssumption DEF Total
  <2>10. bestSoFar \in Nat
    BY DEF SearchInv, TypeOK
  <2> QED BY <1>1, <2>8, <2>9, <2>10 DEF round, link
<1>6. trace'.round = collecting /\ trace'.stop = link.stop
  BY <1>1
<1>7. collecting \in Nat
  BY RideCounts
<1> HIDE DEF link
<1> QED BY <1>1, <1>4, <1>5, <1>6, <1>7 DEF RidesTaken

LEMMA RidesTraceRide ==
  ASSUME SearchInv, FreshInv, FirstOutFirstIn(tt), RidesTaken, TraceRide
  PROVE  RidesTaken'
<1> DEFINE p    == TracedParent
           from == tt.patterns[p.pattern].stops[p.board]
           leg  == Ride(p.pattern, p.trip, p.board, p.alight)
<1>1. /\ journeys' = journeys /\ collecting' = collecting /\ rounds' = rounds
      /\ pc = "trace" /\ p.kind = "board"
      /\ trace' = [trace EXCEPT !.stop = from, !.round = p.round, !.legs = <<leg>> \o @]
  BY DEF TraceRide
<1>2. Fresh(rounds, trace.round, trace.stop)
      /\ RideCount(trace.legs) + trace.round = collecting
  BY <1>1 DEF RidesTaken
<1>3. /\ p.round = trace.round - 1
      /\ Fresh(rounds, trace.round - 1, from)
  <2>1. RestsOnFresh(tt, rounds, trace.round, rounds[trace.round], trace.stop)
    BY <1>1, <1>2, TracedIsFresh
  <2> QED BY <1>1, <2>1, Zenon DEF RestsOnFresh, TracedParent
<1>4. leg \in Legs /\ IsRide(leg)
  <2>1. /\ p.pattern \in Nat /\ p.trip \in Nat /\ p.board \in Nat /\ p.alight \in Nat
    BY <1>1, TracedRide, Zenon
  <2> QED BY <2>1 DEF Ride, Legs, IsRide
<1> HIDE DEF p, leg, from
<1>5. trace \in [stop : Nat, round : Nat, legs : Seq(Legs)]
  BY DEF SearchInv, TypeOK
<1>6. /\ trace'.stop = from /\ trace'.round = p.round
      /\ trace'.legs = <<leg>> \o trace.legs
  BY <1>1, <1>5
<1>7. RideCount(trace'.legs) = RideCount(trace.legs) + 1
  BY <1>4, <1>5, <1>6, RideCountCons
<1>8. /\ collecting \in Nat /\ RideCount(trace.legs) \in Nat /\ trace.round \in Nat
  BY RideCounts
<1>9. RideCount(trace'.legs) + trace'.round = collecting
  BY <1>2, <1>3, <1>6, <1>7, <1>8
<1>10. Fresh(rounds, trace'.round, trace'.stop)
  BY <1>3, <1>6
<1> QED BY <1>1, <1>9, <1>10 DEF RidesTaken

LEMMA RidesTraceWalk ==
  ASSUME SearchInv, FreshInv, FirstOutFirstIn(tt), RidesTaken, TraceWalk
  PROVE  RidesTaken'
<1> DEFINE p == TracedParent
<1>1. /\ journeys' = journeys /\ collecting' = collecting /\ rounds' = rounds
      /\ pc = "trace" /\ p.kind = "transfer"
      /\ trace' = [trace EXCEPT !.stop = p.from,
                                !.legs = WalkIfAny(trace.stop, p.duration) \o @]
  BY DEF TraceWalk
<1>2. Fresh(rounds, trace.round, trace.stop)
      /\ RideCount(trace.legs) + trace.round = collecting
  BY <1>1 DEF RidesTaken
<1>3. Fresh(rounds, trace.round, p.from)
  <2>1. RestsOnFresh(tt, rounds, trace.round, rounds[trace.round], trace.stop)
    BY <1>1, <1>2, TracedIsFresh
  <2> QED BY <1>1, <2>1, Zenon DEF RestsOnFresh, TracedParent, Fresh
<1>4. p.from \in Stops /\ p.duration \in Nat /\ trace.stop \in Stops
  <2>1. p.from \in Stops /\ p.duration \in Nat
    BY <1>1, TracedWalk, Zenon
  <2> QED BY <1>1, <2>1 DEF SearchInv, TraceInv
<1> HIDE DEF p
<1>5. trace \in [stop : Nat, round : Nat, legs : Seq(Legs)]
  BY DEF SearchInv, TypeOK
<1>6. /\ trace'.stop = p.from /\ trace'.round = trace.round
      /\ trace'.legs = WalkIfAny(trace.stop, p.duration) \o trace.legs
  BY <1>1, <1>5
<1>7. RideCount(trace'.legs) = RideCount(trace.legs)
  BY <1>4, <1>5, <1>6, WalksAreNoRides
<1> QED BY <1>1, <1>2, <1>3, <1>6, <1>7 DEF RidesTaken

LEMMA RidesEndTrace ==
  ASSUME SearchInv, FreshInv, FirstOutFirstIn(tt), RidesTaken, EndTrace
  PROVE  RidesTaken'
<1>1. /\ pc = "trace" /\ pc' = "collect" /\ collecting' = collecting + 1
      /\ TracedParent.kind \notin {"board", "transfer"}
  BY DEF EndTrace
<1>2. Fresh(rounds, trace.round, trace.stop)
      /\ RideCount(trace.legs) + trace.round = collecting
  BY <1>1 DEF RidesTaken
<1>3. trace.round = 1
  <2>1. ~RestsOnFresh(tt, rounds, trace.round, rounds[trace.round], trace.stop)
    BY <1>1, Zenon DEF RestsOnFresh, TracedParent
  <2> QED BY <1>1, <1>2, <2>1, TracedIsFresh
<1>4. PICK journey \in Answers :
        /\ RideCount(journey.legs) = RideCount(trace.legs)
        /\ Len(journeys) \in Nat /\ DOMAIN journeys = 1 .. Len(journeys)
        /\ DOMAIN journeys' = 1 .. (Len(journeys) + 1)
        /\ \A n \in 1 .. Len(journeys) : journeys'[n] = journeys[n]
        /\ journeys'[Len(journeys) + 1] = journey
  BY JourneyTraced, Zenon
<1>5. /\ collecting \in Nat /\ RideCount(trace.legs) \in Nat
      /\ \A n \in DOMAIN journeys : RideCount(journeys[n].legs) \in Nat
  BY RideCounts
<1>6. RideCount(journey.legs) + 1 = collecting /\ RideCount(journey.legs) \in Nat
  BY <1>2, <1>3, <1>4, <1>5
<1>7. \A n \in 1 .. Len(journeys) :
        /\ RideCount(journeys'[n].legs) \in Nat
        /\ RideCount(journeys'[n].legs) + 2 <= collecting
  BY <1>4, <1>5 DEF RidesTaken
<1>8. ASSUME NEW n \in DOMAIN journeys'
      PROVE  RideCount(journeys'[n].legs) + 2 <= collecting'
  <2>1. CASE n = Len(journeys) + 1
    <3>1. journeys'[n] = journey
      BY <1>4, <2>1
    <3> QED BY <1>1, <1>5, <1>6, <3>1
  <2>2. CASE n # Len(journeys) + 1
    <3>1. n \in 1 .. Len(journeys)
      BY <1>4, <2>2
    <3> QED BY <1>1, <1>5, <1>7, <3>1
  <2> QED BY <2>1, <2>2
<1>9. ASSUME NEW i \in DOMAIN journeys', NEW j \in DOMAIN journeys', i < j
      PROVE  RideCount(journeys'[i].legs) < RideCount(journeys'[j].legs)
  <2>1. i \in 1 .. Len(journeys) /\ journeys'[i] = journeys[i]
    BY <1>4, <1>9
  <2>2. CASE j = Len(journeys) + 1
    <3>1. journeys'[j] = journey
      BY <1>4, <2>2
    <3> QED BY <1>5, <1>6, <1>7, <2>1, <3>1
  <2>3. CASE j # Len(journeys) + 1
    BY <1>4, <1>9, <2>1, <2>3 DEF RidesTaken
  <2> QED BY <2>2, <2>3
<1> QED BY <1>1, <1>8, <1>9 DEF RidesTaken

LEMMA RidesTakenStep ==
  ASSUME SearchInv, FreshInv, EndsInv, RidesTakenInv, [Next]_vars
  PROVE  RidesTakenInv'
<1> SUFFICES ASSUME FirstOutFirstIn(tt') PROVE RidesTaken'
  BY DEF RidesTakenInv
<1>1. tt' = tt
  <2>1. CASE StartRound \/ LastRoundDone \/ SkipPattern \/ StartPattern \/ StartWalks
               \/ RelaxWalks \/ EndRound
    BY <2>1 DEF StartRound, LastRoundDone, SkipPattern, StartPattern, StartWalks,
                RelaxWalks, EndRound
  <2>2. CASE ScanPosition
    BY <2>2, ScanMoves, Zenon
  <2>3. CASE SkipRound \/ StartTrace \/ TraceRide \/ TraceWalk \/ EndTrace \/ Answer
    BY <2>3 DEF SkipRound, StartTrace, TraceRide, TraceWalk, EndTrace, Answer
  <2>4. CASE UNCHANGED vars
    BY <2>4 DEF vars
  <2> QED BY <2>1, <2>2, <2>3, <2>4 DEF Next
<1>2. FirstOutFirstIn(tt) /\ RidesTaken
  BY <1>1 DEF RidesTakenInv
<1>3. CASE StartRound \/ SkipPattern \/ StartPattern \/ ScanPosition \/ StartWalks
             \/ RelaxWalks \/ EndRound \/ LastRoundDone \/ Answer
  <2>1. journeys' = journeys /\ collecting' = collecting /\ pc' # "trace"
    BY <1>3, Zenon DEF StartRound, SkipPattern, StartPattern, ScanPosition, StartWalks,
                RelaxWalks, EndRound, LastRoundDone, Answer
  <2> QED BY <1>2, <2>1 DEF RidesTaken
<1>4. CASE SkipRound
  <2>1. journeys' = journeys /\ collecting' = collecting + 1 /\ pc' = "collect"
    BY <1>4 DEF SkipRound
  <2>2. \A n \in DOMAIN journeys : RideCount(journeys[n].legs) + 2 <= collecting + 1
    BY <1>2, RideCounts DEF RidesTaken
  <2> QED BY <1>2, <2>1, <2>2 DEF RidesTaken
<1>5. CASE StartTrace
  BY <1>2, <1>5, RidesStartTrace
<1>6. CASE TraceRide
  BY <1>2, <1>6, RidesTraceRide
<1>7. CASE TraceWalk
  BY <1>2, <1>7, RidesTraceWalk
<1>8. CASE EndTrace
  BY <1>2, <1>8, RidesEndTrace
<1>9. CASE UNCHANGED vars
  BY <1>2, <1>9 DEF vars, RidesTaken
<1> QED BY <1>3, <1>4, <1>5, <1>6, <1>7, <1>8, <1>9 DEF Next

-----------------------------------------------------------------------------
LEMMA TradeInvariance == Spec => []TradeInv
<1>1. Init => TradeInv
  BY InitInv, MarksInit, RidesInit, WalksInit, FreshInit, EndsInit, RidesTakenInit
     DEF TradeInv, KeptInv
<1>2. TradeInv /\ [Next]_vars => TradeInv'
  BY NextInv, MarksStep, RidesStep, WalksStep, FreshStep, EndsStep, EarlierStep,
     RidesTakenStep DEF TradeInv, KeptInv
<1> QED BY <1>1, <1>2, PTL DEF Spec

(* Where whoever is first out is first in, no journey of the answer dominates
   another: one found in a later round arrives earlier and takes more rides,
   for Timetable::search never finds in a round what needs fewer rides.    *)
THEOREM LaterRoundsRideMore == Spec => []RidesBuyTime
<1>1. TradeInv => RidesBuyTime
  BY DEF TradeInv, EarlierInv, RidesTakenInv, RidesTaken, RidesBuyTime, JourneysTradeOff
<1> QED BY <1>1, TradeInvariance, PTL

-----------------------------------------------------------------------------
(***************************************************************************)
(* Proof that the answer is as early as any for every number of rides, in  *)
(* all timetables without walks between stops in which whoever is first    *)
(* out is first in.                                                        *)
(***************************************************************************)

-----------------------------------------------------------------------------
(* Once the rounds are over, the last one is as far as the query goes or has
   whatever can be ridden from it.                                          *)
ClosedInv ==
  FirstOutFirstIn(tt) /\ pc \in {"collect", "trace", "done"} =>
    \/ K > query.maxRounds
    \/ \A p \in DOMAIN tt.patterns :
         PatternKept(tt, query, rounds[K], rounds[K], p)

LEMMA ClosedInit == Init => ClosedInv
BY DEF Init, ClosedInv

LEMMA ClosedStep ==
  ASSUME KeptInv, ClosedInv, [Next]_vars
  PROVE  ClosedInv'
<1>1. CASE StartRound \/ SkipPattern \/ StartPattern \/ ScanPosition \/ StartWalks
             \/ RelaxWalks
  <2>1. pc' \notin {"collect", "trace", "done"}
    BY <1>1, Zenon DEF StartRound, SkipPattern, StartPattern, ScanPosition, StartWalks,
                RelaxWalks
  <2> QED BY <2>1 DEF ClosedInv
<1>2. CASE LastRoundDone
  <2>1. K' > query'.maxRounds
    BY <1>2 DEF LastRoundDone, K
  <2> QED BY <2>1 DEF ClosedInv
<1>3. CASE EndRound
  <2> SUFFICES ASSUME FirstOutFirstIn(tt'), pc' = "collect"
               PROVE  \A p \in DOMAIN tt'.patterns :
                        PatternKept(tt', query', rounds'[K'], rounds'[K'], p)
    <3>1. pc' \in {"collect", "round"}
      BY <1>3, EndRoundMoves DEF KeptInv
    <3> QED BY <3>1 DEF ClosedInv
  <2>1. /\ tt' = tt /\ query' = query /\ pc = "walks" /\ touched = {}
        /\ K' = K + 1 /\ rounds'[K + 1] = cur
    BY <1>3, EndRoundMoves DEF KeptInv
  <2>2. nextMarked \cup walked = {}
    <3> DEFINE improved == nextMarked \cup walked
    <3>1. pc' = IF improved = {} THEN "collect" ELSE "round"
      BY <1>3 DEF EndRound
    <3> HIDE DEF improved
    <3>2. improved = {}
      BY <3>1
    <3> QED BY <3>2 DEF improved
  <2>3. cur = Prev
    <3>1. \A s \in Stops : cur[s] = Prev[s]
      BY <2>1, <2>2 DEF KeptInv, MarksInv
    <3>2. cur \in [Stops -> Labels] /\ Prev \in [Stops -> Labels]
      BY RoundFacts DEF KeptInv, SearchInv, TypeOK
    <3> HIDE DEF Prev
    <3> QED BY <3>1, <3>2
  <2>4. \A p \in DOMAIN tt.patterns : PatternKept(tt, query, Prev, cur, p)
    BY <2>1 DEF KeptInv, RidesInv, PatternsKept
  <2> QED BY <2>1, <2>3, <2>4
<1>4. CASE SkipRound \/ StartTrace \/ TraceRide \/ TraceWalk \/ EndTrace \/ Answer
  <2>1. /\ tt' = tt /\ query' = query /\ rounds' = rounds /\ K' = K
        /\ pc \in {"collect", "trace", "done"}
    BY <1>4 DEF SkipRound, StartTrace, TraceRide, TraceWalk, EndTrace, Answer, K
  <2> QED BY <2>1 DEF ClosedInv
<1>5. CASE UNCHANGED vars
  BY <1>5 DEF vars, ClosedInv, K
<1> QED BY <1>1, <1>2, <1>3, <1>4, <1>5 DEF Next

(* Whatever the rounds read so far have at the destination, a journey of no
   more rides has as early, if it is before Inf.                            *)
OfferInv ==
  /\ bestSoFar <= Inf /\ \A n \in DOMAIN journeys : journeys[n].arrival <= Inf
  /\ \/ bestSoFar = Inf
     \/ pc = "trace"
     \/ \E n \in DOMAIN journeys : journeys[n].arrival = bestSoFar
  /\ pc = "done" => collecting > K
  /\ FirstOutFirstIn(tt) =>
       \A k \in 1 .. (collecting - 1) : \A i \in UsableEgress(rounds[k]) :
         \/ Inf <= Total(rounds[k], query.egress[i])
         \/ \E n \in DOMAIN journeys :
              /\ RideCount(journeys[n].legs) < k
              /\ journeys[n].arrival <= Total(rounds[k], query.egress[i])

LEMMA OfferInit == Init => OfferInv
BY InfAssumption DEF Init, OfferInv

LEMMA OfferStep ==
  ASSUME TradeInv, OfferInv, [Next]_vars
  PROVE  OfferInv'
<1>0. SearchInv /\ EndsInv /\ RidesTakenInv
  BY DEF TradeInv, KeptInv
<1>1. CASE StartRound \/ SkipPattern \/ StartPattern \/ ScanPosition \/ StartWalks
             \/ RelaxWalks \/ EndRound \/ LastRoundDone
  <2>1. /\ pc \notin {"collect", "trace", "done"} /\ pc' \notin {"trace", "done"}
        /\ collecting' = collecting /\ journeys' = journeys /\ bestSoFar' = bestSoFar
    BY <1>1, Zenon DEF StartRound, SkipPattern, StartPattern, ScanPosition, StartWalks,
                RelaxWalks, EndRound, LastRoundDone
  <2>2. collecting' = 1
    BY <1>0, <2>1 DEF EndsInv
  <2> QED BY <2>1, <2>2 DEF OfferInv
<1>2. CASE SkipRound
  <2> DEFINE round == rounds[collecting]
  <2>1. /\ tt' = tt /\ query' = query /\ rounds' = rounds /\ bestSoFar' = bestSoFar
        /\ pc = "collect" /\ pc' = "collect" /\ collecting' = collecting + 1
        /\ journeys' = journeys /\ collecting <= Len(rounds)
    BY <1>2 DEF SkipRound
  <2>2. collecting \in Nat \ {0}
    BY <1>0 DEF SearchInv, TypeOK, LoopsInv
  <2>3. EndsInv'
    BY <1>0, <1>2, EndsStep DEF Next
  <2>4. \A i \in UsableEgress(round) : bestSoFar <= Total(round, query.egress[i])
    <3>1. collecting \in 1 .. Collected'
      BY <2>1, <2>2 DEF Collected
    <3> QED BY <2>1, <2>3, <3>1 DEF EndsInv, Total, UsableEgress
  <2>5. \/ bestSoFar = Inf
        \/ \E n \in DOMAIN journeys : journeys[n].arrival = bestSoFar
    BY <2>1 DEF OfferInv
  <2>6. FirstOutFirstIn(tt) =>
          \A n \in DOMAIN journeys : RideCount(journeys[n].legs) < collecting
    <3>1. \A n \in DOMAIN journeys : RideCount(journeys[n].legs) \in Nat
      BY <1>0, RideCounts
    <3> QED BY <1>0, <2>2, <3>1 DEF RidesTakenInv, RidesTaken
  <2>7. ASSUME FirstOutFirstIn(tt), NEW k \in 1 .. collecting,
               NEW i \in UsableEgress(rounds[k])
        PROVE  \/ Inf <= Total(rounds[k], query.egress[i])
               \/ \E n \in DOMAIN journeys :
                    /\ RideCount(journeys[n].legs) < k
                    /\ journeys[n].arrival <= Total(rounds[k], query.egress[i])
    <3>1. CASE k = collecting
      BY <2>4, <2>5, <2>6, <2>7, <3>1
    <3>2. CASE k # collecting
      <4>1. k \in 1 .. (collecting - 1)
        BY <2>2, <3>2
      <4> QED BY <2>7, <4>1 DEF OfferInv
    <3> QED BY <3>1, <3>2
  <2>8. collecting' - 1 = collecting
    BY <2>1, <2>2
  <2> QED BY <2>1, <2>5, <2>7, <2>8 DEF OfferInv, UsableEgress, Total
<1>3. CASE StartTrace \/ TraceRide \/ TraceWalk
  <2>1. /\ tt' = tt /\ query' = query /\ rounds' = rounds /\ pc' = "trace"
        /\ collecting' = collecting /\ journeys' = journeys
        /\ bestSoFar' = bestSoFar \/ bestSoFar' < bestSoFar
    BY <1>3 DEF StartTrace, TraceRide, TraceWalk, Improvement
  <2>2. bestSoFar' \in Nat /\ bestSoFar \in Nat
    BY <1>0, <1>3, StartTraceStep, TraceRideStep, TraceWalkStep DEF SearchInv, TypeOK
  <2>3. bestSoFar' <= Inf
    BY <2>1, <2>2, InfAssumption DEF OfferInv
  <2> QED BY <2>1, <2>3 DEF OfferInv, UsableEgress, Total
<1>4. CASE EndTrace
  <2> DEFINE round == rounds[collecting]
  <2>1. /\ tt' = tt /\ query' = query /\ rounds' = rounds /\ bestSoFar' = bestSoFar
        /\ pc = "trace" /\ pc' = "collect" /\ collecting' = collecting + 1
        /\ TracedParent.kind \notin {"board", "transfer"}
    BY <1>4 DEF EndTrace
  <2>2. collecting \in Nat \ {0}
    BY <1>0 DEF SearchInv, TypeOK, LoopsInv
  <2>3. PICK journey \in Answers :
          /\ journey.arrival = bestSoFar
          /\ RideCount(journey.legs) = RideCount(trace.legs)
          /\ Len(journeys) \in Nat /\ DOMAIN journeys = 1 .. Len(journeys)
          /\ DOMAIN journeys' = 1 .. (Len(journeys) + 1)
          /\ \A n \in 1 .. Len(journeys) : journeys'[n] = journeys[n]
          /\ journeys'[Len(journeys) + 1] = journey
    BY <1>0, <1>4, JourneyTraced, Zenon
  <2>4. \A i \in UsableEgress(round) : bestSoFar <= Total(round, query.egress[i])
    <3>1. collecting \in 1 .. Collected
      BY <2>1, <2>2 DEF Collected
    <3> QED BY <1>0, <3>1 DEF EndsInv
  <2>5. FirstOutFirstIn(tt) => RideCount(journey.legs) < collecting
    <3> SUFFICES ASSUME FirstOutFirstIn(tt)
                 PROVE  RideCount(journey.legs) < collecting
      OBVIOUS
    <3>1. RideCount(trace.legs) + trace.round = collecting
      BY <1>0, <2>1 DEF RidesTakenInv, RidesTaken
    <3>2. trace.round \in Nat \ {0} /\ RideCount(trace.legs) \in Nat
      BY <1>0, <2>1, RideCounts, RoundFacts DEF SearchInv, TraceInv
    <3> QED BY <2>2, <2>3, <3>1, <3>2
  <2>6. Len(journeys) + 1 \in DOMAIN journeys'
        /\ \A n \in DOMAIN journeys : n \in DOMAIN journeys' /\ journeys'[n] = journeys[n]
    BY <2>3
  <2>7. ASSUME FirstOutFirstIn(tt), NEW k \in 1 .. collecting,
               NEW i \in UsableEgress(rounds[k])
        PROVE  \/ Inf <= Total(rounds[k], query.egress[i])
               \/ \E n \in DOMAIN journeys' :
                    /\ RideCount(journeys'[n].legs) < k
                    /\ journeys'[n].arrival <= Total(rounds[k], query.egress[i])
    <3>1. CASE k = collecting
      BY <2>3, <2>4, <2>5, <2>6, <2>7, <3>1
    <3>2. CASE k # collecting
      <4>1. k \in 1 .. (collecting - 1)
        BY <2>2, <3>2
      <4>2. \/ Inf <= Total(rounds[k], query.egress[i])
            \/ \E n \in DOMAIN journeys :
                 /\ RideCount(journeys[n].legs) < k
                 /\ journeys[n].arrival <= Total(rounds[k], query.egress[i])
        BY <2>7, <4>1 DEF OfferInv
      <4> QED BY <2>6, <4>2
    <3> QED BY <3>1, <3>2
  <2>8. collecting' - 1 = collecting
    BY <2>1, <2>2
  <2>9. \E n \in DOMAIN journeys' : journeys'[n].arrival = bestSoFar'
    BY <2>1, <2>3, <2>6
  <2>10. \A n \in DOMAIN journeys' : journeys'[n].arrival <= Inf
    <3>1. \A n \in DOMAIN journeys' : n \in DOMAIN journeys \/ n = Len(journeys) + 1
      BY <2>3
    <3> QED BY <2>3, <2>6, <3>1 DEF OfferInv
  <2> QED BY <2>1, <2>7, <2>8, <2>9, <2>10 DEF OfferInv, UsableEgress, Total
<1>5. CASE Answer
  <2>1. /\ tt' = tt /\ query' = query /\ rounds' = rounds /\ bestSoFar' = bestSoFar
        /\ pc = "collect" /\ collecting' = collecting /\ journeys' = journeys
        /\ K' = K /\ collecting > K
    BY <1>5 DEF Answer, K
  <2> QED BY <2>1 DEF OfferInv, UsableEgress, Total
<1>6. CASE UNCHANGED vars
  BY <1>6 DEF vars, OfferInv, UsableEgress, Total, K
<1> QED BY <1>1, <1>2, <1>3, <1>4, <1>5, <1>6 DEF Next

-----------------------------------------------------------------------------
(* No label gets later from one round to the next.                         *)
LEMMA RoundsFall ==
  ASSUME TradeInv, FirstOutFirstIn(tt), NEW j \in 1 .. K, NEW k \in 1 .. K, j <= k,
         NEW s \in Stops
  PROVE  rounds[k][s].time <= rounds[j][s].time
<1> DEFINE later == {m \in j .. k : ~(rounds[m][s].time <= rounds[j][s].time)}
<1>1. K \in Nat /\ \A m \in 1 .. K : rounds[m][s].time \in Nat
  BY RoundFacts, LabelTime DEF TradeInv, KeptInv, SearchInv
<1> SUFFICES ASSUME later # {} PROVE FALSE
  BY <1>1
<1>2. later \in SUBSET Nat
  BY <1>1
<1> DEFINE m == Min(later)
<1>3. m \in later /\ \A y \in later : m <= y
  <2> HIDE DEF later
  <2> QED BY <1>2, MinOfNats
<1>4. m \in j .. k /\ ~(rounds[m][s].time <= rounds[j][s].time)
  BY <1>3
<1> HIDE DEF m
<1>5. m # j /\ m \in 2 .. K /\ m - 1 \in j .. k /\ m - 1 \in 1 .. K
  BY <1>1, <1>4
<1>6. rounds[m - 1][s].time <= rounds[j][s].time
  <2>1. m - 1 \notin later
    <3> HIDE DEF later
    <3> QED BY <1>1, <1>3, <1>5
  <2> QED BY <1>5, <2>1
<1>7. rounds[m][s].time <= rounds[m - 1][s].time
  <2>1. Written(tt, rounds, m, rounds[m])
    BY <1>5 DEF TradeInv, FreshInv
  <2>2. rounds[m][s].time \in Nat /\ rounds[m - 1][s].time \in Nat /\ m \in 1 .. K
    BY <1>1, <1>5
  <2> QED BY <2>1, <2>2 DEF Written
<1> QED BY <1>1, <1>4, <1>5, <1>6, <1>7

(* The rides of an arrival that labels are no later than, and ready as soon
   as, are kept where all the rides of the labels are.                      *)
LEMMA RideOnTime ==
  ASSUME TradeInv, NEW k \in 1 .. K, NEW m \in 1 .. K,
         \A p \in DOMAIN tt.patterns : PatternKept(tt, query, rounds[k], rounds[m], p),
         NEW a, a.stop \in Stops, a.time \in Nat, ReadyAt(a) \in Nat,
         rounds[k][a.stop].time <= a.time, a.time <= ReadyAt(a),
         BoardingReady(rounds[k][a.stop]) <= ReadyAt(a),
         NEW r \in RidesFrom(tt, query, a)
  PROVE  /\ r.stop \in Stops /\ r.time \in Nat /\ r.kind = "ride"
         /\ rounds[m][r.stop].time <= r.time
<1> DEFINE label == rounds[k][a.stop]
<1>1. PICK p \in DOMAIN tt.patterns :
        LET stops == tt.patterns[p].stops
            trips == tt.patterns[p].trips
        IN  /\ PatternAllowed(tt.patterns[p], query)
            /\ \E i \in DOMAIN trips, b, c \in DOMAIN stops :
                 /\ Boardable(trips[i], query)
                 /\ stops[b] = a.stop
                 /\ trips[i].departures[b] >= ReadyAt(a)
                 /\ b < c
                 /\ r.stop = stops[c] /\ r.time = trips[i].arrivals[c]
  BY RideFromFacts
<1>2. PICK i \in DOMAIN tt.patterns[p].trips, b \in DOMAIN tt.patterns[p].stops,
           c \in DOMAIN tt.patterns[p].stops :
        /\ Boardable(tt.patterns[p].trips[i], query)
        /\ tt.patterns[p].stops[b] = a.stop
        /\ tt.patterns[p].trips[i].departures[b] >= ReadyAt(a)
        /\ b < c
        /\ r.stop = tt.patterns[p].stops[c]
        /\ r.time = tt.patterns[p].trips[i].arrivals[c]
  BY <1>1, Zenon
<1>3. tt \in Timetables /\ DOMAIN rounds = 1 .. K /\ K \in Nat
  BY RoundTimes DEF TradeInv, KeptInv
<1>4. /\ tt.patterns[p].trips[i].departures[b] \in Nat /\ r.time \in Nat
      /\ tt.patterns[p].trips[i].departures[b] <= r.time
  BY <1>2, <1>3, TripFacts, Zenon
<1>5. r.stop \in Stops
  BY <1>2, <1>3, PatternFacts
<1>6. /\ label.time \in 0 .. Inf /\ rounds[m][r.stop].time \in 0 .. Inf
      /\ Inf \in Nat
  BY <1>3, <1>5, RoundFacts, InfAssumption DEF TradeInv, KeptInv, SearchInv
<1>7. CASE label.time = Inf
  <2>1. Inf <= r.time
    BY <1>2, <1>4, <1>7, InfAssumption
  <2> QED BY <1>4, <1>5, <1>6, <2>1, RideKind
<1>8. CASE label.time # Inf
  <2>1. BoardingReady(label) \in Nat
    BY <1>6, BufferAssumption DEF BoardingReady
  <2>2. tt.patterns[p].trips[i].departures[b] >= BoardingReady(label)
    BY <1>2, <1>4, <2>1
  <2>3. Rideable(tt, query, rounds[k], p, i, b)
    BY <1>1, <1>2, <1>8, <2>2 DEF Rideable
  <2>4. AsEarly(tt, rounds[m], p, i, c)
    BY <1>2, <2>3 DEF PatternKept
  <2> QED BY <1>2, <1>4, <1>5, <2>4, RideKind DEF AsEarly
<1> QED BY <1>7, <1>8

(* The round that holds the arrivals of up to n rides.                     *)
Level(n) == IF n + 1 <= K THEN n + 1 ELSE K

LEMMA LevelKept ==
  ASSUME TradeInv, ClosedInv, FirstOutFirstIn(tt), pc = "done",
         NEW n \in 1 .. query.maxRounds
  PROVE  /\ Level(n - 1) \in 1 .. K /\ Level(n) \in 1 .. K /\ Level(n - 1) <= Level(n)
         /\ \A p \in DOMAIN tt.patterns :
              PatternKept(tt, query, rounds[Level(n - 1)], rounds[Level(n)], p)
<1>1. K \in Nat \ {0} /\ query.maxRounds \in Nat
  BY RoundTimes, QueriesAssumption
     DEF TradeInv, KeptInv, SearchInv, TypeOK, WellFormedQuery, RaptorQuery
<1>2. CASE n + 1 <= K
  <2>1. Level(n - 1) = n /\ Level(n) = n + 1 /\ n \in 1 .. K - 1
    BY <1>1, <1>2 DEF Level
  <2> QED BY <1>1, <2>1 DEF TradeInv, KeptInv, RidesInv, RoundsKept
<1>3. CASE ~(n + 1 <= K)
  <2>1. Level(n - 1) = K /\ Level(n) = K /\ ~(K > query.maxRounds)
    BY <1>1, <1>3 DEF Level
  <2> QED BY <1>1, <2>1 DEF ClosedInv
<1> QED BY <1>2, <1>3

(* An arrival of the reference that a round holds.                         *)
Held(a, k) ==
  /\ a.stop \in Stops /\ a.time \in Nat
  /\ a.kind = "ride" \/ (a.kind = "access" /\ a \in AccessArrivals(query))
  /\ rounds[k][a.stop].time <= a.time

LEMMA AccessHeld ==
  ASSUME TradeInv, NEW a \in AccessArrivals(query)
  PROVE  /\ Held(a, 1) /\ a.kind = "access" /\ ReadyAt(a) = a.time
         /\ BoardingReady(rounds[1][a.stop]) <= a.time
<1>1. query \in Queries /\ rounds[1] = AccessLabels(query)
  BY DEF TradeInv, KeptInv, FreshInv, SearchInv, TypeOK
<1>2. PICK i \in DOMAIN query.access :
        a = Arrival(query.access[i].stop, query.time + query.access[i].duration,
                    "access", 0)
  BY DEF AccessArrivals
<1> DEFINE s == query.access[i].stop
           links == LinksTo(query.access, s)
           D == {query.access[x].duration : x \in links}
<1>3. /\ a.stop = s /\ a.time = query.time + query.access[i].duration
      /\ a.kind = "access"
  BY <1>2 DEF Arrival
<1>4. /\ s \in Stops /\ query.access[i].duration \in Nat /\ query.time \in Nat
      /\ \A x \in DOMAIN query.access : query.access[x].duration \in Nat
  BY <1>1, QueryFacts
<1>5. i \in links /\ links \subseteq DOMAIN query.access
  BY DEF LinksTo
<1>6. D \in SUBSET Nat /\ query.access[i].duration \in D
  BY <1>4, <1>5
<1>7. Min(D) \in Nat /\ Min(D) <= query.access[i].duration
  <2> HIDE DEF D
  <2> QED BY <1>6, MinOfNats
<1>8. rounds[1][s] = Label(query.time + Min(D), Access)
  BY <1>1, <1>4, <1>5 DEF AccessLabels
<1> HIDE DEF D, s, links
<1>9. /\ rounds[1][s].time = query.time + Min(D)
      /\ BoardingReady(rounds[1][s]) = query.time + Min(D) + 0
  BY <1>8 DEF Label, Access, BoardingReady
<1>10. ReadyAt(a) = a.time + 0 /\ a.time \in Nat
  BY <1>3, <1>4 DEF ReadyAt
<1> QED BY <1>3, <1>4, <1>7, <1>9, <1>10 DEF Held

LEMMA ReachHeld ==
  ASSUME TradeInv, ClosedInv, FirstOutFirstIn(tt), DOMAIN tt.walks = {}, pc = "done",
         NEW n \in 0 .. query.maxRounds
  PROVE  Level(n) \in 1 .. K /\ \A a \in Reach(tt, query)[n] : Held(a, Level(n))
<1> DEFINE N == query.maxRounds
           reach == Reach(tt, query)
           lost == {m \in 0 .. N : ~ \A a \in reach[m] : Held(a, Level(m))}
<1>1. K \in Nat \ {0} /\ N \in Nat
  BY RoundTimes, QueriesAssumption
     DEF TradeInv, KeptInv, SearchInv, TypeOK, WellFormedQuery, RaptorQuery
<1>2. /\ reach[0] = AccessArrivals(query)
      /\ \A m \in 1 .. N : reach[m] = RideFurther(tt, query, reach[m - 1])
  BY <1>1, ReachFacts
<1> HIDE DEF reach
<1>3. \A a : WalksFrom(tt, a) = {}
  BY DEF WalksFrom
<1>4. \A m \in 1 .. N : \A r \in reach[m] :
        \/ r \in reach[m - 1]
        \/ \E a \in reach[m - 1] : r \in RidesFrom(tt, query, a)
  <2> SUFFICES ASSUME NEW m \in 1 .. N, NEW r \in reach[m], r \notin reach[m - 1]
               PROVE  \E a \in reach[m - 1] : r \in RidesFrom(tt, query, a)
    OBVIOUS
  <2> DEFINE rides == UNION {RidesFrom(tt, query, a) : a \in reach[m - 1]}
  <2>1. r \in reach[m - 1] \cup rides \cup UNION {WalksFrom(tt, a) : a \in rides}
    BY <1>2 DEF RideFurther
  <2>2. r \in rides
    <3> HIDE DEF rides
    <3> QED BY <1>3, <2>1
  <2> QED BY <2>2
<1>5. \A m \in 0 .. N : Level(m) \in 1 .. K
  BY <1>1 DEF Level
<1>6. lost = {}
  <2> SUFFICES ASSUME lost # {} PROVE FALSE
    OBVIOUS
  <2>1. lost \in SUBSET Nat
    OBVIOUS
  <2> DEFINE m == Min(lost)
  <2>2. m \in lost /\ \A y \in lost : m <= y
    <3> HIDE DEF lost
    <3> QED BY <2>1, MinOfNats
  <2>3. m \in 0 .. N /\ ~ \A a \in reach[m] : Held(a, Level(m))
    <3> HIDE DEF m
    <3> QED BY <2>2
  <2> HIDE DEF m
  <2>4. m # 0
    <3>1. Level(0) = 1
      BY <1>1 DEF Level
    <3> QED BY <1>2, <2>3, <3>1, AccessHeld
  <2>5. m - 1 \in 0 .. N /\ m - 1 \notin lost /\ m \in 1 .. N
    <3> HIDE DEF lost
    <3> QED BY <1>1, <2>1, <2>2, <2>3, <2>4
  <2>6. \A a \in reach[m - 1] : Held(a, Level(m - 1))
    BY <2>5
  <2>7. /\ Level(m - 1) \in 1 .. K /\ Level(m) \in 1 .. K /\ Level(m - 1) <= Level(m)
        /\ \A p \in DOMAIN tt.patterns :
             PatternKept(tt, query, rounds[Level(m - 1)], rounds[Level(m)], p)
    BY <2>5, LevelKept
  <2>8. ASSUME NEW a \in reach[m - 1]
        PROVE  Held(a, Level(m))
    <3>1. Held(a, Level(m - 1))
      BY <2>6
    <3>2. rounds[Level(m)][a.stop].time <= rounds[Level(m - 1)][a.stop].time
      BY <2>7, <3>1, RoundsFall DEF Held
    <3>3. /\ rounds[Level(m)][a.stop].time \in Nat
          /\ rounds[Level(m - 1)][a.stop].time \in Nat
      BY <2>7, <3>1, RoundFacts, LabelTime DEF Held, TradeInv, KeptInv, SearchInv
    <3> QED BY <3>1, <3>2, <3>3 DEF Held
  <2>9. ASSUME NEW a \in reach[m - 1], NEW r \in RidesFrom(tt, query, a)
        PROVE  Held(r, Level(m))
    <3>1. Held(a, Level(m - 1))
      BY <2>6
    <3>2. CASE a.kind = "ride"
      <4> DEFINE label == rounds[Level(m - 1)][a.stop]
      <4>1. ReadyAt(a) = a.time + Buffer /\ a.time \in Nat
        BY <3>1, <3>2 DEF ReadyAt, Held
      <4>2. label.time \in Nat /\ label.time <= a.time
        BY <2>7, <3>1, RoundFacts, LabelTime DEF Held, TradeInv, KeptInv, SearchInv
      <4>3. BoardingReady(label) <= label.time + Buffer /\ BoardingReady(label) \in Nat
        BY <4>2, BufferAssumption DEF BoardingReady
      <4>4. BoardingReady(label) <= ReadyAt(a) /\ ReadyAt(a) \in Nat /\ a.time <= ReadyAt(a)
        BY <4>1, <4>2, <4>3, BufferAssumption
      <4> HIDE DEF label
      <4>5. a.stop \in Stops
        BY <3>1 DEF Held
      <4>6. /\ r.stop \in Stops /\ r.time \in Nat /\ r.kind = "ride"
            /\ rounds[Level(m)][r.stop].time <= r.time
        BY <2>7, <4>1, <4>2, <4>4, <4>5, RideOnTime DEF label
      <4> QED BY <4>6 DEF Held
    <3>3. CASE a.kind # "ride"
      <4>1. a \in AccessArrivals(query)
        BY <3>1, <3>3 DEF Held
      <4>2. /\ Held(a, 1) /\ ReadyAt(a) = a.time
            /\ BoardingReady(rounds[1][a.stop]) <= a.time
        BY <4>1, AccessHeld
      <4>3. /\ Level(1 - 1) = 1 /\ Level(1) \in 1 .. K
            /\ \A p \in DOMAIN tt.patterns :
                 PatternKept(tt, query, rounds[Level(1 - 1)], rounds[Level(1)], p)
        <5>1. 1 \in 1 .. N /\ 1 - 1 = 0 /\ Level(0) = 1
          BY <1>1, <2>5 DEF Level
        <5> QED BY <5>1, LevelKept
      <4>4. /\ a.stop \in Stops /\ a.time \in Nat /\ rounds[1][a.stop].time <= a.time
            /\ a.time <= a.time /\ 1 \in 1 .. K
        BY <1>1, <4>2 DEF Held
      <4>5. /\ r.stop \in Stops /\ r.time \in Nat /\ r.kind = "ride"
            /\ rounds[Level(1)][r.stop].time <= r.time
        BY <4>2, <4>3, <4>4, RideOnTime
      <4>6. Level(1) <= Level(m) /\ Level(m) \in 1 .. K
        BY <1>1, <2>5 DEF Level
      <4>7. rounds[Level(m)][r.stop].time <= rounds[Level(1)][r.stop].time
        BY <4>3, <4>5, <4>6, RoundsFall
      <4>8. rounds[Level(m)][r.stop].time \in Nat /\ rounds[Level(1)][r.stop].time \in Nat
        BY <4>3, <4>5, <4>6, RoundFacts, LabelTime DEF TradeInv, KeptInv, SearchInv
      <4> QED BY <4>5, <4>7, <4>8 DEF Held
    <3> QED BY <3>2, <3>3
  <2> QED BY <1>4, <2>3, <2>5, <2>8, <2>9
<1> QED BY <1>5, <1>6 DEF reach

(* The earliest arrival at the destination is one of the arrivals'.        *)
LEMMA EarliestFacts ==
  ASSUME NEW qu \in Queries, NEW arrivals, NEW none,
         \A a \in arrivals : a.time \in Nat
  PROVE  \/ Earliest(qu, arrivals, none) = none
         \/ \E a \in arrivals, i \in DOMAIN qu.egress :
              /\ a.stop = qu.egress[i].stop
              /\ Earliest(qu, arrivals, none) = a.time + qu.egress[i].duration
<1> DEFINE ends == {y[1].time + qu.egress[y[2]].duration :
                     y \in {x \in arrivals \X DOMAIN qu.egress :
                              x[1].stop = qu.egress[x[2]].stop}}
<1>1. Earliest(qu, arrivals, none) = IF ends = {} THEN none ELSE Min(ends)
  BY DEF Earliest
<1>2. \A x \in ends : \E a \in arrivals, i \in DOMAIN qu.egress :
        a.stop = qu.egress[i].stop /\ x = a.time + qu.egress[i].duration
  OBVIOUS
<1>3. ends \in SUBSET Nat
  BY QueryFacts
<1> HIDE DEF ends
<1>4. ends # {} => Min(ends) \in ends
  BY <1>3, MinOfNats
<1> QED BY <1>1, <1>2, <1>4

ParetoInv == TradeInv /\ ClosedInv /\ OfferInv

LEMMA ParetoFromInv == ParetoInv => ParetoWithoutWalks
<1> SUFFICES ASSUME ParetoInv, DOMAIN tt.walks = {}, FirstOutFirstIn(tt), pc = "done",
                    NEW n \in 0 .. query.maxRounds
             PROVE  LET offered == {journeys[i].arrival : i \in
                          {j \in DOMAIN journeys : RideCount(journeys[j].legs) <= n}}
                    IN  (IF offered = {} THEN Inf ELSE Min(offered))
                          <= Earliest(query, Reach(tt, query)[n], Inf)
  BY DEF ParetoWithoutWalks, ParetoOptimal
<1> DEFINE offered == {journeys[i].arrival : i \in
                         {j \in DOMAIN journeys : RideCount(journeys[j].legs) <= n}}
           offer == IF offered = {} THEN Inf ELSE Min(offered)
           reach == Reach(tt, query)[n]
           least == Earliest(query, reach, Inf)
           k     == Level(n)
<1>1. /\ TradeInv /\ ClosedInv /\ OfferInv /\ SearchInv
      /\ query \in Queries /\ journeys \in Seq(Answers)
      /\ K \in Nat \ {0} /\ collecting \in Nat /\ collecting > K
  BY RoundTimes DEF ParetoInv, TradeInv, KeptInv, SearchInv, TypeOK, OfferInv
<1>2. k \in 1 .. K /\ \A a \in reach : Held(a, k)
  BY <1>1, ReachHeld
<1>3. /\ \A i \in DOMAIN journeys : journeys[i].arrival \in Nat
      /\ \A i \in DOMAIN journeys : RideCount(journeys[i].legs) \in Nat
  <2>1. \A i \in DOMAIN journeys : journeys[i] \in Answers
    BY <1>1
  <2> QED BY <1>1, <2>1, RideCounts DEF Answers
<1>4. offered \in SUBSET Nat /\ \A x \in offered : x <= Inf
  BY <1>1, <1>3 DEF OfferInv
<1>5. /\ offer \in Nat /\ offer <= Inf
      /\ \A x \in offered : offer <= x
  <2> HIDE DEF offered
  <2>1. offered # {} => Min(offered) \in offered /\ \A x \in offered : Min(offered) <= x
    BY <1>4, MinOfNats
  <2> QED BY <1>4, <2>1, InfAssumption
<1>6. k <= n + 1
  <2>1. n \in Nat
    BY QueriesAssumption, <1>1 DEF WellFormedQuery, RaptorQuery
  <2> QED BY <1>1, <2>1 DEF Level
<1> HIDE DEF k, reach
<1>7. ASSUME NEW a \in reach, NEW i \in DOMAIN query.egress,
             a.stop = query.egress[i].stop
      PROVE  offer <= a.time + query.egress[i].duration
  <2> DEFINE d     == query.egress[i].duration
             label == rounds[k][a.stop]
  <2>1. d \in Nat /\ a.time \in Nat /\ a.stop \in Stops /\ label.time <= a.time
    BY <1>1, <1>2, QueryFacts DEF Held
  <2>2. label.time \in Nat
    BY <1>1, <1>2, <2>1, RoundFacts, LabelTime DEF SearchInv
  <2>3. CASE label.time = Inf
    <3> HIDE DEF offer, d, label
    <3>1. offer <= a.time + d
      BY <1>5, <2>1, <2>2, <2>3
    <3> QED BY <3>1 DEF d
  <2>4. CASE label.time # Inf
    <3>1. i \in UsableEgress(rounds[k])
      BY <1>7, <2>4 DEF UsableEgress
    <3>2. Total(rounds[k], query.egress[i]) = label.time + d
      BY <1>7 DEF Total
    <3>3. k \in 1 .. (collecting - 1)
      BY <1>1, <1>2
    <3> HIDE DEF offer, d, label
    <3>4. label.time + d <= a.time + d /\ label.time + d \in Nat /\ a.time + d \in Nat
      BY <2>1, <2>2
    <3>5. \/ Inf <= label.time + d
          \/ \E j \in DOMAIN journeys : /\ RideCount(journeys[j].legs) < k
                                        /\ journeys[j].arrival <= label.time + d
      BY <1>1, <3>1, <3>2, <3>3 DEF OfferInv
    <3>6. CASE Inf <= label.time + d
      BY <1>5, <3>4, <3>6, InfAssumption DEF d
    <3>7. CASE \E j \in DOMAIN journeys : /\ RideCount(journeys[j].legs) < k
                                          /\ journeys[j].arrival <= label.time + d
      <4>1. PICK j \in DOMAIN journeys : /\ RideCount(journeys[j].legs) < k
                                         /\ journeys[j].arrival <= label.time + d
        BY <3>7
      <4>2. RideCount(journeys[j].legs) <= n
        BY <1>1, <1>2, <1>3, <1>6, <4>1
      <4>3. journeys[j].arrival \in offered /\ journeys[j].arrival \in Nat
        BY <1>3, <4>2
      <4> HIDE DEF offered
      <4>4. offer <= journeys[j].arrival
        BY <1>5, <4>3
      <4> QED BY <1>5, <3>4, <4>1, <4>3, <4>4 DEF d
    <3> QED BY <3>5, <3>6, <3>7
  <2> QED BY <2>3, <2>4
<1>8. \/ least = Inf
      \/ \E a \in reach, i \in DOMAIN query.egress :
           /\ a.stop = query.egress[i].stop
           /\ least = a.time + query.egress[i].duration
  BY <1>1, <1>2, EarliestFacts DEF Held
<1> HIDE DEF offer, least
<1>9. offer <= least
  BY <1>5, <1>7, <1>8
<1> QED BY <1>9 DEF offer, least, reach

LEMMA ParetoInvariance == Spec => []ParetoInv
<1>1. Init => ClosedInv /\ OfferInv
  BY ClosedInit, OfferInit
<1>2. TradeInv /\ ClosedInv /\ OfferInv /\ [Next]_vars => ClosedInv' /\ OfferInv'
  BY ClosedStep, OfferStep DEF TradeInv
<1> QED BY <1>1, <1>2, TradeInvariance, PTL DEF Spec, ParetoInv

(* In a timetable without walks between stops, where whoever is first out is
   first in, Timetable::search answers with a journey as early as the earliest
   one for every number of rides within its rounds.                         *)
THEOREM ParetoOptimalWithoutWalks == Spec => []ParetoWithoutWalks
BY ParetoFromInv, ParetoInvariance, PTL
=============================================================================
