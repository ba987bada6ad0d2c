---------------------------- MODULE ArriveByProofs ----------------------------
(***************************************************************************)
(* Proofs about the arrive-by search, for all timetables and queries that  *)
(* are well formed, any buffer and any number of rounds: the mirror image  *)
(* of what RaptorProofs shows of the forward search, proved of the code    *)
(* that runs back in time.                                                 *)
(***************************************************************************)
EXTENDS ArriveByProperties, JourneyFacts

(* The times a label may have.                                             *)
Moments == {t \in Int : t >= Neg}

Labels == [time : Moments, parent : Parents]

(* The types of the search's variables, but for the answer, which it only
   appends to.                                                             *)
TypeOK ==
  /\ tt \in Timetables
  /\ query \in Queries
  /\ pc \in {"round", "patterns", "scan", "walks", "collect", "trace", "done"}
  /\ rounds \in Seq([Stops -> Labels])
  /\ cur \in [Stops -> Labels]
  /\ best \in [Stops -> Moments]
  /\ marked \in SUBSET Stops
  /\ touched \in SUBSET Nat
  /\ scan \in [pattern : Nat, pos : Nat, trip : Nat, from : Nat]
  /\ nextMarked \in SUBSET Stops
  /\ relaxing \in SUBSET Stops
  /\ walked \in SUBSET Stops
  /\ collecting \in Nat
  /\ trace \in [stop : Nat, round : Nat, legs : Seq(Legs)]
  /\ departure \in Int

(* What a label may rest on: from is the label a ride is left with, of an
   earlier round; a walk leads to a label of its own round.                *)
RideSupports(t, qu, p, s, time, from) ==
  LET pattern == t.patterns[p.pattern]
      trip    == pattern.trips[p.trip]
  IN  /\ p.pattern \in DOMAIN t.patterns
      /\ PatternAllowed(pattern, qu)
      /\ p.trip \in DOMAIN pattern.trips
      /\ Boardable(trip, qu)
      /\ p.board \in DOMAIN pattern.stops
      /\ p.alight \in DOMAIN pattern.stops
      /\ p.board < p.alight
      /\ pattern.stops[p.board] = s
      /\ trip.departures[p.board] = time
      /\ from.time # Neg
      /\ trip.arrivals[p.alight] <= AlightReady(from)

Supported(t, qu, before, k, labels, s) ==
  LET label == labels[s]
      p     == label.parent
  IN  \/ label = Unreached
      \/ label = EgressLabels(qu)[s]
      \/ /\ p.kind = "board"
         /\ p.round \in 1 .. (k - 1)
         /\ RideSupports(t, qu, p, s, label.time,
              before[p.round][t.patterns[p.pattern].stops[p.alight]])
      \/ /\ p.kind = "transfer"
         /\ <<p.from, s>> \in DOMAIN t.walks
         /\ p.duration = t.walks[<<p.from, s>>]
         /\ labels[p.from].time # Neg
         /\ labels[p.from].time - p.duration >= label.time

(* Every label can be explained by a label that it was made from, or by one
   at the same stop that is later.                                         *)
LabelsSupported ==
  /\ \A k \in DOMAIN rounds, s \in Stops :
       Supported(tt, query, rounds, k, rounds[k], s)
  /\ \A s \in Stops : Supported(tt, query, rounds, K + 1, cur, s)

(* best is never later than a label that is not committed yet, and never
   earlier than one that is; between rounds it is the last round's labels.  *)
BestIsLatest ==
  /\ \A k \in DOMAIN rounds, s \in Stops : best[s] >= rounds[k][s].time
  /\ \A s \in Stops : cur[s].time >= best[s]
  /\ pc \notin {"patterns", "scan", "walks"} =>
       best = Times(rounds[Len(rounds)])

-----------------------------------------------------------------------------
(* The labels a search starts from.                                        *)
LEMMA EgressLabelsType ==
  ASSUME NEW qu \in Queries
  PROVE  /\ EgressLabels(qu) \in [Stops -> Labels]
         /\ Times(EgressLabels(qu)) \in [Stops -> Moments]
<1>1. \A s \in Stops : EgressLabels(qu)[s] \in Labels
  <2> SUFFICES ASSUME NEW s \in Stops
               PROVE  EgressLabels(qu)[s] \in Labels
    OBVIOUS
  <2>1. CASE LinksTo(qu.egress, s) = {}
    BY <2>1, NegAssumption DEF EgressLabels, Unreached, Label, Labels, Parents, Moments
  <2>2. CASE LinksTo(qu.egress, s) # {}
    <3> DEFINE D == {qu.egress[i].duration : i \in LinksTo(qu.egress, s)}
    <3>1. D \in SUBSET Nat /\ D # {}
      BY <2>2, QueryFacts DEF LinksTo
    <3>2. Min(D) \in D
      BY <3>1, MinOfNats
    <3>3. PICK i \in DOMAIN qu.egress : Min(D) = qu.egress[i].duration
      BY <3>2 DEF LinksTo
    <3>4. qu.time - Min(D) \in Moments
      BY <3>3, QueryFacts, NegAssumption DEF Moments
    <3>5. EgressLabels(qu)[s] = Label(qu.time - Min(D), Egress)
      BY <2>2 DEF EgressLabels
    <3> QED BY <3>4, <3>5 DEF Label, Labels, Parents
  <2> QED BY <2>1, <2>2
<1>2. EgressLabels(qu) \in [Stops -> Labels]
  BY <1>1 DEF EgressLabels
<1> QED BY <1>2 DEF Times, Labels

(* The trip to leave can be left in time.                                  *)
LEMMA AlightableTrip ==
  ASSUME NEW t \in Timetables, NEW p \in DOMAIN t.patterns, NEW qu,
         NEW pos, NEW ready,
         LatestAlightable(t.patterns[p], pos, ready, qu) # 0
  PROVE  LET i == LatestAlightable(t.patterns[p], pos, ready, qu)
         IN  /\ i \in DOMAIN t.patterns[p].trips
             /\ t.patterns[p].trips[i].arrivals[pos] <= ready
             /\ Boardable(t.patterns[p].trips[i], qu)
<1> DEFINE trips == t.patterns[p].trips
           ok == {i \in DOMAIN trips : /\ trips[i].arrivals[pos] <= ready
                                       /\ Boardable(trips[i], qu)}
<1>1. trips \in Seq(PatternTrip)
  BY PatternFacts
<1>2. ok \in SUBSET (1 .. Len(trips)) /\ Len(trips) \in Nat
  BY <1>1
<1>3. ok # {} /\ LatestAlightable(t.patterns[p], pos, ready, qu) = Max(ok)
  BY Zenon DEF LatestAlightable
<1>4. Max(ok) \in ok
  BY <1>2, <1>3, MaxOfBounded, Zenon
<1> QED BY <1>3, <1>4, Zenon

-----------------------------------------------------------------------------
(* The inductive invariant: the types, where the loops are, what the trip on
   board is left with, and that labels are supported and pruned.           *)
LoopsInv ==
  /\ K >= 1
  /\ collecting >= 1
  /\ touched \subseteq DOMAIN tt.patterns
  /\ \A p \in touched : MarkedPositions(tt.patterns[p], marked) # {}
  /\ pc \notin {"patterns", "scan"} => touched = {}

OnBoard ==
  LET pattern == tt.patterns[scan.pattern]
      trip    == pattern.trips[scan.trip]
      label   == Prev[pattern.stops[scan.from]]
  IN  /\ scan.trip \in DOMAIN pattern.trips
      /\ Boardable(trip, query)
      /\ scan.from \in DOMAIN pattern.stops
      /\ scan.from > scan.pos
      /\ label.time # Neg
      /\ trip.arrivals[scan.from] <= AlightReady(label)

ScanInv ==
  pc = "scan" =>
    /\ scan.pattern \in DOMAIN tt.patterns
    /\ PatternAllowed(tt.patterns[scan.pattern], query)
    /\ scan.pos \in DOMAIN tt.patterns[scan.pattern].stops
    /\ scan.trip # 0 => OnBoard

BestInv ==
  /\ BestIsLatest
  /\ pc \in {"patterns", "scan"} =>
       \A s \in Stops \ nextMarked : cur[s].time = best[s]
  /\ pc = "walks" =>
       \A s \in Stops \ (nextMarked \cup walked) : cur[s].time = best[s]

TraceInv ==
  pc = "trace" =>
    /\ trace.stop \in Stops
    /\ trace.round \in DOMAIN rounds
    /\ rounds[trace.round][trace.stop].time # Neg

SearchInv ==
  TypeOK /\ LoopsInv /\ ScanInv /\ LabelsSupported /\ BestInv /\ TraceInv

-----------------------------------------------------------------------------
LEMMA InitInv == Init => SearchInv
<1> SUFFICES ASSUME Init PROVE SearchInv
  OBVIOUS
<1> USE DEF Init
<1> DEFINE first == EgressLabels(query)
<1>1. /\ first \in [Stops -> Labels]
      /\ Times(first) \in [Stops -> Moments]
  BY EgressLabelsType
<1>2. rounds \in Seq([Stops -> Labels]) /\ Len(rounds) = 1 /\ rounds[1] = first
  BY <1>1
<1>3. marked \subseteq Stops
  BY QueryFacts DEF LinkStops
<1>4. TypeOK
  BY <1>1, <1>2, <1>3, NegAssumption
     DEF TypeOK, NotScanning, NotTracing, Legs
<1>5. LoopsInv
  BY <1>2 DEF LoopsInv, K
<1>6. LabelsSupported
  <2>1. \A k, s : Supported(tt, query, rounds, k, first, s)
    BY DEF Supported
  <2> QED BY <1>2, <2>1 DEF LabelsSupported
<1>7. BestInv
  <2>1. \A s \in Stops : first[s].time \in Int /\ best[s] = first[s].time
    BY <1>1 DEF Times, Labels, Moments
  <2>2. \A s \in Stops : best[s] >= first[s].time /\ first[s].time >= best[s]
    BY <2>1
  <2> QED BY <1>2, <2>1, <2>2 DEF BestInv, BestIsLatest
<1> QED BY <1>4, <1>5, <1>6, <1>7 DEF SearchInv, ScanInv, TraceInv

-----------------------------------------------------------------------------
(* A step that leaves rounds and cur alone leaves their support alone.     *)
LEMMA SupportUnchanged ==
  ASSUME LabelsSupported,
         tt' = tt, query' = query, rounds' = rounds, cur' = cur
  PROVE  LabelsSupported'
BY DEF LabelsSupported, K

(* A label that a round supports is supported in every later round, whatever
   is appended to the rounds.                                              *)
LEMMA SupportGrows ==
  ASSUME NEW t, NEW qu, NEW before, NEW after, NEW labels,
         NEW k \in Nat, NEW m \in Nat, k <= m, NEW s,
         \A i \in 1 .. (k - 1) : after[i] = before[i],
         Supported(t, qu, before, k, labels, s)
  PROVE  Supported(t, qu, after, m, labels, s)
<1> DEFINE p == labels[s].parent
<1>1. p.round \in 1 .. (k - 1) =>
        p.round \in 1 .. (m - 1) /\ after[p.round] = before[p.round]
  OBVIOUS
<1> QED BY <1>1, Zenon DEF Supported, RideSupports

(* Raising other labels of the round keeps a label supported.             *)
LEMMA SupportSurvives ==
  ASSUME NEW t \in Timetables, NEW qu, NEW before,
         NEW old \in [Stops -> Labels], NEW new \in [Stops -> Labels],
         NEW k \in Nat, NEW s \in Stops,
         \A r \in Stops : new[r].time >= old[r].time,
         new[s] = old[s], Supported(t, qu, before, k, old, s)
  PROVE  Supported(t, qu, before, k, new, s)
<1> DEFINE p == old[s].parent
<1>1. CASE /\ p.kind = "transfer"
           /\ <<p.from, s>> \in DOMAIN t.walks
           /\ p.duration = t.walks[<<p.from, s>>]
           /\ old[p.from].time # Neg
           /\ old[p.from].time - p.duration >= old[s].time
  <2>1. p.from \in Stops
    <3>1. DOMAIN t.walks \subseteq Stops \X Stops
      BY TimetablesAssumption DEF WellFormedTimetable, WalksAreTransfers
    <3> QED BY <1>1, <3>1
  <2>2. p.duration \in Nat
    BY <1>1, WalkFacts
  <2>3. /\ old[p.from].time \in Moments
        /\ new[p.from].time \in Moments
        /\ old[s].time \in Moments
        /\ new[p.from].time >= old[p.from].time
    BY <2>1 DEF Labels
  <2>4. new[p.from].time # Neg /\ new[p.from].time - p.duration >= new[s].time
    BY <1>1, <2>2, <2>3, NegAssumption DEF Moments
  <2> QED BY <1>1, <2>4 DEF Supported
<1>2. CASE ~(/\ p.kind = "transfer"
             /\ <<p.from, s>> \in DOMAIN t.walks
             /\ p.duration = t.walks[<<p.from, s>>]
             /\ old[p.from].time # Neg
             /\ old[p.from].time - p.duration >= old[s].time)
  BY <1>2, Zenon DEF Supported
<1> QED BY <1>1, <1>2

(* What the types say of the labels.                                       *)
LEMMA RoundFacts ==
  ASSUME TypeOK, LoopsInv
  PROVE  /\ K \in Nat \ {0}
         /\ DOMAIN rounds = 1 .. K
         /\ Prev \in [Stops -> Labels]
         /\ \A k \in DOMAIN rounds : rounds[k] \in [Stops -> Labels]
         /\ \A k \in DOMAIN rounds, s \in Stops : rounds[k][s].time \in Moments
         /\ \A s \in Stops : cur[s].time \in Moments /\ best[s] \in Moments
<1>1. rounds \in Seq([Stops -> Labels]) /\ K \in Nat /\ K >= 1
  BY DEF TypeOK, LoopsInv, K
<1>2. DOMAIN rounds = 1 .. K /\ K \in DOMAIN rounds
  BY <1>1 DEF K
<1>3. \A k \in DOMAIN rounds : rounds[k] \in [Stops -> Labels]
  BY <1>1, <1>2
<1>4. \A k \in DOMAIN rounds, s \in Stops : rounds[k][s].time \in Moments
  BY <1>3 DEF Labels
<1>5. \A s \in Stops : cur[s].time \in Moments /\ best[s] \in Moments
  BY DEF TypeOK, Labels
<1> QED BY <1>1, <1>2, <1>3, <1>4, <1>5 DEF Prev

LEMMA LabelTime ==
  ASSUME TypeOK, LoopsInv, NEW k \in DOMAIN rounds, NEW s \in Stops
  PROVE  k \in Nat /\ rounds[k][s].time \in Int
<1>1. k \in 1 .. K
  BY RoundFacts
<1>2. rounds[k][s].time \in Moments
  BY RoundFacts
<1> QED BY <1>1, <1>2 DEF Moments

LEMMA StartRoundStep ==
  ASSUME SearchInv, StartRound
  PROVE  SearchInv'
<1> USE DEF SearchInv, StartRound
<1>1. /\ K \in Nat \ {0}
      /\ K \in DOMAIN rounds
      /\ Prev \in [Stops -> Labels]
      /\ \A s \in Stops : Prev[s].time \in Moments /\ best[s] \in Moments
  BY RoundFacts DEF Prev
<1>2. Touched(tt, marked) \subseteq Nat
  BY PatternFacts DEF Touched, TypeOK
<1>3. TypeOK'
  BY <1>1, <1>2 DEF TypeOK
<1>4. LoopsInv'
  BY DEF LoopsInv, K, Touched
<1>5. LabelsSupported'
  <2>1. \A s \in Stops : Supported(tt, query, rounds, K + 1, Prev, s)
    BY <1>1, SupportGrows DEF LabelsSupported, Prev
  <2> QED BY <2>1 DEF LabelsSupported, K
<1>6. BestInv'
  <2>1. best = Times(Prev)
    BY DEF BestInv, BestIsLatest, Prev, K
  <2>2. \A s \in Stops : cur'[s].time = best'[s] /\ cur'[s].time >= best'[s]
    BY <1>1, <2>1 DEF Times, Moments
  <2> QED BY <2>2 DEF BestInv, BestIsLatest
<1> QED BY <1>3, <1>4, <1>5, <1>6 DEF ScanInv, TraceInv

LEMMA LastRoundDoneStep ==
  ASSUME SearchInv, LastRoundDone
  PROVE  SearchInv'
<1> USE DEF SearchInv, LastRoundDone
<1>1. LabelsSupported'
  BY SupportUnchanged
<1>2. BestInv'
  BY DEF BestInv, BestIsLatest
<1> QED BY <1>1, <1>2 DEF TypeOK, LoopsInv, K, ScanInv, TraceInv

LEMMA SkipPatternStep ==
  ASSUME SearchInv, SkipPattern
  PROVE  SearchInv'
<1> USE DEF SearchInv, SkipPattern
<1>1. LabelsSupported'
  BY SupportUnchanged
<1>2. BestInv'
  BY DEF BestInv, BestIsLatest
<1>3. TypeOK'
  BY DEF TypeOK
<1>4. LoopsInv'
  BY DEF LoopsInv, K
<1> QED BY <1>1, <1>2, <1>3, <1>4 DEF ScanInv, TraceInv

LEMMA StartPatternStep ==
  ASSUME SearchInv, StartPattern
  PROVE  SearchInv'
<1> USE DEF SearchInv, StartPattern
<1> DEFINE p == Min(touched)
           pattern == tt.patterns[p]
<1>1. p \in touched /\ p \in DOMAIN tt.patterns /\ p \in Nat
  BY MinOfNats DEF TypeOK, LoopsInv
<1>2. pattern.stops \in Seq(Stops)
  BY <1>1, PatternFacts DEF TypeOK
<1>3. /\ MarkedPositions(pattern, marked) \in SUBSET (1 .. Len(pattern.stops))
      /\ Len(pattern.stops) \in Nat
  BY <1>2 DEF MarkedPositions
<1>4. MarkedPositions(pattern, marked) # {}
  BY <1>1 DEF LoopsInv
<1>5. LastMarked(pattern) \in MarkedPositions(pattern, marked)
  BY <1>3, <1>4, MaxOfBounded DEF LastMarked
<1>6. LastMarked(pattern) \in DOMAIN pattern.stops /\ LastMarked(pattern) \in Nat
  BY <1>3, <1>5 DEF MarkedPositions
<1>7. TypeOK'
  BY <1>1, <1>6 DEF TypeOK
<1>8. LoopsInv'
  BY DEF LoopsInv, K
<1>9. ScanInv'
  BY <1>1, <1>6 DEF ScanInv
<1>10. LabelsSupported'
  BY SupportUnchanged
<1>11. BestInv'
  BY DEF BestInv, BestIsLatest
<1> QED BY <1>7, <1>8, <1>9, <1>10, <1>11 DEF TraceInv

(* The position scanned: what boarding there writes, and when.           *)
LEMMA ScanFacts ==
  ASSUME TypeOK, LoopsInv, ScanInv, pc = "scan"
  PROVE  LET pattern == tt.patterns[scan.pattern]
         IN  /\ scan.pattern \in DOMAIN tt.patterns
             /\ scan.pattern \in Nat
             /\ scan.pos \in 1 .. Len(pattern.stops)
             /\ DOMAIN pattern.stops = 1 .. Len(pattern.stops)
             /\ Len(pattern.stops) \in Nat
             /\ pattern.stops[scan.pos] \in Stops
             /\ scan.trip # 0 =>
                  pattern.trips[scan.trip].departures[scan.pos] \in Nat
<1> DEFINE pattern == tt.patterns[scan.pattern]
<1>1. scan.pattern \in DOMAIN tt.patterns /\ tt \in Timetables
  BY DEF ScanInv, TypeOK
<1>2. pattern.stops \in Seq(Stops) /\ scan.pattern \in Nat
  BY <1>1, PatternFacts
<1>3. /\ scan.pos \in 1 .. Len(pattern.stops)
      /\ DOMAIN pattern.stops = 1 .. Len(pattern.stops)
      /\ Len(pattern.stops) \in Nat
      /\ pattern.stops[scan.pos] \in Stops
  BY <1>2 DEF ScanInv
<1>4. ASSUME scan.trip # 0
      PROVE  pattern.trips[scan.trip].departures[scan.pos] \in Nat
  BY <1>1, <1>3, <1>4, TripFacts, Zenon DEF ScanInv, OnBoard
<1> QED BY <1>1, <1>2, <1>3, <1>4

LEMMA ScanPositionStep ==
  ASSUME SearchInv, ScanPosition
  PROVE  SearchInv'
<1> DEFINE pattern   == tt.patterns[scan.pattern]
           stop      == pattern.stops[scan.pos]
           leaves    == pattern.trips[scan.trip].departures[scan.pos]
           improves  == /\ scan.trip # 0
                        /\ leaves > best[stop]
                        /\ leaves > cur[stop].time
           candidate == Candidate(pattern, stop)
           last      == scan.pos = 1
           label     == Label(leaves, Board(scan.pattern, scan.trip,
                                            scan.pos, scan.from, K))
<1> HIDE DEF label, pattern
<1>1. /\ TypeOK /\ LoopsInv /\ ScanInv /\ LabelsSupported /\ BestInv
      /\ pc = "scan"
  BY Zenon DEF SearchInv, ScanPosition
<1>2. /\ tt' = tt /\ query' = query /\ rounds' = rounds /\ best' = best
      /\ marked' = marked /\ touched' = touched /\ relaxing' = relaxing
      /\ walked' = walked /\ collecting' = collecting /\ trace' = trace
      /\ departure' = departure /\ journeys' = journeys
      /\ K' = K /\ Prev' = Prev
  BY Zenon DEF ScanPosition, K, Prev
<1>3. /\ cur' = IF improves THEN [cur EXCEPT ![stop] = label] ELSE cur
      /\ nextMarked' = IF improves THEN nextMarked \cup {stop} ELSE nextMarked
      /\ scan' = IF last THEN NotScanning
                 ELSE IF IsBetter(pattern, candidate)
                 THEN [scan EXCEPT !.pos = @ - 1, !.trip = candidate,
                                   !.from = scan.pos]
                 ELSE [scan EXCEPT !.pos = @ - 1]
      /\ pc' = IF last THEN "patterns" ELSE "scan"
  BY Zenon DEF ScanPosition, label, pattern
<1>4. /\ scan.pattern \in DOMAIN tt.patterns
      /\ scan.pattern \in Nat
      /\ scan.pos \in 1 .. Len(pattern.stops)
      /\ DOMAIN pattern.stops = 1 .. Len(pattern.stops)
      /\ Len(pattern.stops) \in Nat
      /\ stop \in Stops
      /\ scan.trip # 0 => leaves \in Nat
  BY <1>1, ScanFacts DEF pattern
<1>5. /\ K \in Nat \ {0}
      /\ DOMAIN rounds = 1 .. K
      /\ \A s \in Stops : cur[s].time \in Moments /\ best[s] \in Moments
  BY <1>1, RoundFacts
<1>6. scan \in [pattern : Nat, pos : Nat, trip : Nat, from : Nat]
  BY <1>1 DEF TypeOK
<1>7. ASSUME improves
      PROVE  /\ label \in Labels
             /\ label.time = leaves
             /\ label.time > cur[stop].time
  <2>1. leaves \in Moments
    <3>1. leaves \in Nat
      BY <1>4, <1>7
    <3>2. cur[stop].time \in Moments
      BY <1>4, <1>5
    <3>3. leaves > cur[stop].time
      BY <1>7
    <3> HIDE DEF leaves, stop
    <3> QED BY <3>1, <3>2, <3>3, NegAssumption DEF Moments
  <2>2. Board(scan.pattern, scan.trip, scan.pos, scan.from, K) \in Parents
    BY <1>5, <1>6 DEF Board, Parents
  <2> QED BY <1>7, <2>1, <2>2 DEF label, Label, Labels
<1>8. cur \in [Stops -> Labels] /\ cur' \in [Stops -> Labels]
  <2>1. cur \in [Stops -> Labels]
    BY <1>1 DEF TypeOK
  <2> QED BY <1>3, <1>4, <1>7, <2>1
<1>9. \A s \in Stops : cur'[s].time >= cur[s].time
  <2>1. CASE improves
    BY <1>3, <1>4, <1>5, <1>7, <1>8, <2>1 DEF Moments
  <2>2. CASE ~improves
    BY <1>3, <1>5, <2>2 DEF Moments
  <2> QED BY <2>1, <2>2
<1>10. ASSUME ~last, IsBetter(pattern, candidate)
       PROVE  /\ candidate \in DOMAIN pattern.trips
              /\ candidate \in Nat \ {0}
              /\ Boardable(pattern.trips[candidate], query)
              /\ Prev[stop].time # Neg
              /\ pattern.trips[candidate].arrivals[scan.pos]
                   <= AlightReady(Prev[stop])
  <2>1. candidate # 0
    BY <1>10 DEF IsBetter
  <2>2. /\ Prev[stop].time # Neg
        /\ candidate = LatestAlightable(pattern, scan.pos,
                                         AlightReady(Prev[stop]), query)
    BY <2>1 DEF Candidate
  <2>3. tt \in Timetables /\ scan.pattern \in DOMAIN tt.patterns
    BY <1>1, <1>4 DEF TypeOK
  <2>4. /\ candidate \in DOMAIN pattern.trips
        /\ pattern.trips[candidate].arrivals[scan.pos]
             <= AlightReady(Prev[stop])
        /\ Boardable(pattern.trips[candidate], query)
    BY <2>1, <2>2, <2>3, AlightableTrip, Zenon DEF pattern
  <2>5. candidate \in Nat \ {0}
    BY <2>3, <2>4, TripFacts, Zenon DEF pattern
  <2> QED BY <2>2, <2>4, <2>5, Zenon
<1>11. scan' \in [pattern : Nat, pos : Nat, trip : Nat, from : Nat]
  <2>1. CASE last
    BY <1>3, <2>1 DEF NotScanning
  <2>2. CASE ~last /\ IsBetter(pattern, candidate)
    <3>1. candidate \in Nat
      BY <1>10, <2>2
    <3>2. scan' = [scan EXCEPT !.pos = @ - 1, !.trip = candidate,
                               !.from = scan.pos]
      BY <1>3, <2>2
    <3>3. scan.pos \in Nat /\ scan.pos - 1 \in Nat
      BY <1>4, <1>6
    <3> HIDE DEF candidate
    <3> QED BY <1>6, <3>1, <3>2, <3>3
  <2>3. CASE ~last /\ ~IsBetter(pattern, candidate)
    <3>1. scan' = [scan EXCEPT !.pos = @ - 1]
      BY <1>3, <2>3
    <3>2. scan.pos - 1 \in Nat
      BY <1>4
    <3> QED BY <1>6, <3>1, <3>2
  <2> QED BY <2>1, <2>2, <2>3
<1>12. TypeOK'
  <2>1. nextMarked' \in SUBSET Stops
    BY <1>1, <1>3, <1>4 DEF TypeOK
  <2>2. pc' \in {"patterns", "scan"}
    BY <1>3
  <2> QED BY <1>1, <1>2, <1>8, <1>11, <2>1, <2>2 DEF TypeOK
<1>13. LoopsInv'
  BY <1>1, <1>2, <1>3 DEF LoopsInv, K
<1>14. ScanInv'
  <2> SUFFICES ASSUME ~last
               PROVE  /\ scan'.pattern \in DOMAIN tt.patterns
                      /\ PatternAllowed(tt.patterns[scan'.pattern], query)
                      /\ scan'.pos \in DOMAIN tt.patterns[scan'.pattern].stops
                      /\ scan'.trip # 0 => OnBoard'
    BY <1>2, <1>3 DEF ScanInv
  <2>1. scan'.pattern = scan.pattern /\ scan'.pos = scan.pos - 1
    BY <1>3, <1>6
  <2>2. scan'.pos \in DOMAIN pattern.stops
    <3>1. scan.pos # 1
      OBVIOUS
    <3> QED BY <1>4, <2>1, <3>1
  <2>3. CASE IsBetter(pattern, candidate)
    <3>1. scan'.trip = candidate /\ scan'.from = scan.pos
      BY <1>3, <1>6, <2>3
    <3>2. scan'.from \in DOMAIN pattern.stops /\ scan'.from > scan'.pos
      BY <1>4, <2>1, <3>1
    <3>3. OnBoard'
      BY <1>2, <1>10, <2>1, <2>3, <3>1, <3>2, Zenon
         DEF OnBoard, pattern, AlightReady
    <3> QED BY <1>1, <2>1, <2>2, <3>3 DEF ScanInv, pattern
  <2>4. CASE ~IsBetter(pattern, candidate)
    <3>1. scan'.trip = scan.trip /\ scan'.from = scan.from
      BY <1>3, <1>6, <2>4
    <3>2. ASSUME scan.trip # 0
          PROVE  OnBoard'
      <4>1. OnBoard /\ scan.from > scan'.pos
        <5>1. OnBoard
          BY <1>1, <3>2 DEF ScanInv
        <5>2. scan.from > scan.pos
          BY <5>1 DEF OnBoard
        <5>3. scan.from \in Nat /\ scan.pos \in Nat
          BY <1>6
        <5> QED BY <2>1, <5>1, <5>2, <5>3
      <4> QED BY <1>2, <2>1, <3>1, <4>1, Zenon DEF OnBoard, AlightReady
    <3> QED BY <1>1, <2>1, <2>2, <3>1, <3>2 DEF ScanInv, pattern
  <2> QED BY <2>3, <2>4
<1>15. ASSUME NEW s \in Stops
       PROVE  Supported(tt, query, rounds, K + 1, cur', s)
  <2>1. CASE improves /\ s = stop
    <3>1. cur'[s] = label
      BY <1>3, <1>8, <2>1
    <3>2. /\ OnBoard
          /\ PatternAllowed(pattern, query)
      BY <1>1, <2>1 DEF ScanInv, pattern
    <3>3. K \in 1 .. ((K + 1) - 1)
      BY <1>5
    <3> DEFINE parent == Board(scan.pattern, scan.trip, scan.pos, scan.from, K)
    <3>4. RideSupports(tt, query, parent, s, leaves,
                       Prev[pattern.stops[scan.from]])
      BY <1>4, <2>1, <3>2, Zenon DEF RideSupports, OnBoard, pattern, Board
    <3>5. /\ label.parent = parent
          /\ label.time = leaves
      BY DEF label, Label
    <3>6. /\ parent.kind = "board" /\ parent.round = K
          /\ rounds[parent.round]
                [tt.patterns[parent.pattern].stops[parent.alight]]
               = Prev[pattern.stops[scan.from]]
      BY DEF Board, Prev, pattern
    <3> HIDE DEF parent
    <3> QED BY <3>1, <3>3, <3>4, <3>5, <3>6 DEF Supported
  <2>2. CASE ~(improves /\ s = stop)
    <3>1. cur'[s] = cur[s]
      BY <1>3, <1>8, <2>2
    <3>2. Supported(tt, query, rounds, K + 1, cur, s)
      BY <1>1 DEF LabelsSupported
    <3>3. tt \in Timetables /\ K + 1 \in Nat
      BY <1>1, <1>5 DEF TypeOK
    <3> QED BY <1>8, <1>9, <3>1, <3>2, <3>3, SupportSurvives
  <2> QED BY <2>1, <2>2
<1>16. LabelsSupported'
  BY <1>1, <1>2, <1>15 DEF LabelsSupported
<1>17. BestInv'
  <2>1. \A s \in Stops : cur'[s].time >= best[s]
    BY <1>1, <1>5, <1>8, <1>9 DEF BestInv, BestIsLatest, Labels, Moments
  <2>2. \A s \in Stops \ nextMarked' : cur'[s].time = best[s]
    BY <1>1, <1>3 DEF BestInv
  <2> QED BY <1>1, <1>2, <1>3, <2>1, <2>2 DEF BestInv, BestIsLatest
<1>18. TraceInv'
  BY <1>3 DEF TraceInv
<1> QED BY <1>12, <1>13, <1>14, <1>16, <1>17, <1>18 DEF SearchInv

(* Committing what a round improved makes best the labels of the round.    *)
LEMMA CommitFacts ==
  ASSUME SearchInv, NEW stops \in SUBSET Stops,
         \A s \in Stops \ stops : cur[s].time = best[s]
  PROVE  /\ Commit(stops) = Times(cur)
         /\ Commit(stops) \in [Stops -> Moments]
         /\ \A s \in Stops : Commit(stops)[s] >= best[s]
<1>1. \A s \in Stops : cur[s].time \in Moments /\ best[s] \in Moments
  BY RoundFacts DEF SearchInv
<1>2. \A s \in Stops : cur[s].time >= best[s]
  BY DEF SearchInv, BestInv, BestIsLatest
<1>3. \A s \in Stops : Commit(stops)[s] = cur[s].time
  BY <1>1, <1>2 DEF Commit, Moments
<1> QED BY <1>1, <1>2, <1>3 DEF Commit, Times

LEMMA StartWalksStep ==
  ASSUME SearchInv, StartWalks
  PROVE  SearchInv'
<1> USE DEF SearchInv, StartWalks
<1>1. /\ best' = Times(cur)
      /\ best' \in [Stops -> Moments]
      /\ \A s \in Stops : best'[s] >= best[s]
  <2>1. nextMarked \in SUBSET Stops
    BY DEF TypeOK
  <2>2. \A s \in Stops \ nextMarked : cur[s].time = best[s]
    BY DEF BestInv
  <2> QED BY <2>1, <2>2, CommitFacts
<1>2. TypeOK'
  BY <1>1 DEF TypeOK
<1>3. LoopsInv'
  BY DEF LoopsInv, K
<1>4. LabelsSupported'
  BY SupportUnchanged
<1>5. BestInv'
  <2>1. /\ \A s \in Stops : cur[s].time \in Moments /\ best[s] \in Moments
        /\ \A k \in DOMAIN rounds, s \in Stops :
              rounds[k][s].time \in Moments /\ best[s] >= rounds[k][s].time
    BY RoundFacts DEF BestInv, BestIsLatest
  <2>2. \A s \in Stops : best'[s] = cur[s].time
    BY <1>1 DEF Times
  <2>3. \A k \in DOMAIN rounds, s \in Stops : best'[s] >= rounds[k][s].time
    BY <1>1, <2>1, <2>2 DEF Moments
  <2>4. \A s \in Stops : cur'[s].time = best'[s] /\ cur'[s].time >= best'[s]
    BY <2>1, <2>2 DEF Moments
  <2> QED BY <2>3, <2>4 DEF BestInv, BestIsLatest
<1> QED BY <1>2, <1>3, <1>4, <1>5 DEF ScanInv, TraceInv

LEMMA RelaxWalksStep ==
  ASSUME SearchInv, RelaxWalks
  PROVE  SearchInv'
<1> USE DEF SearchInv
<1> DEFINE s == Min(relaxing)
           better == WalkImproves(s)
           w(t) == tt.walks[<<s, t>>]
<1>1. /\ cur' = [t \in Stops |->
                  IF t \in better
                  THEN Label(cur[s].time - w(t), Transfer(s, w(t)))
                  ELSE cur[t]]
      /\ walked' = walked \cup better
      /\ relaxing' = relaxing \ {s}
      /\ pc = "walks"
  BY DEF RelaxWalks
<1>2. /\ tt' = tt /\ query' = query /\ pc' = pc /\ rounds' = rounds
      /\ best' = best /\ marked' = marked /\ touched' = touched
      /\ scan' = scan /\ nextMarked' = nextMarked
      /\ collecting' = collecting /\ trace' = trace
      /\ departure' = departure /\ journeys' = journeys
      /\ K' = K
  BY DEF RelaxWalks, K
<1>3. s \in relaxing /\ s \in Stops
  BY StopsAssumption, MinOfNats DEF RelaxWalks, TypeOK
<1>4. /\ \A t \in Stops : cur[t].time \in Moments /\ best[t] \in Moments
      /\ K \in Nat \ {0}
  BY RoundFacts
<1>5. \A t \in better : /\ t \in Stops /\ t # s
                        /\ <<s, t>> \in DOMAIN tt.walks
                        /\ w(t) \in Nat /\ w(t) > 0
                        /\ cur[s].time - w(t) > best[t]
                        /\ cur[s].time - w(t) > cur[t].time
  <2> SUFFICES ASSUME NEW t \in better
               PROVE  /\ t \in Stops /\ t # s
                      /\ <<s, t>> \in DOMAIN tt.walks
                      /\ w(t) \in Nat /\ w(t) > 0
                      /\ cur[s].time - w(t) > best[t]
                      /\ cur[s].time - w(t) > cur[t].time
    OBVIOUS
  <2>1. /\ t \in Stops
        /\ <<s, t>> \in DOMAIN tt.walks
        /\ cur[s].time - w(t) > best[t]
        /\ cur[s].time - w(t) > cur[t].time
    BY DEF WalkImproves
  <2>2. w(t) \in Nat /\ w(t) > 0
    BY <2>1, WalkFacts DEF TypeOK
  <2>3. t # s
    BY <1>3, <1>4, <2>1, <2>2 DEF Moments
  <2> QED BY <2>1, <2>2, <2>3
<1> HIDE DEF better, w, s
<1>6. cur \in [Stops -> Labels]
  BY DEF TypeOK
<1>7. ASSUME NEW t \in better
      PROVE  /\ cur[s].time - w(t) \in Moments
             /\ cur[s].time # Neg
             /\ Label(cur[s].time - w(t), Transfer(s, w(t))) \in Labels
  <2>1. cur[s].time - w(t) \in Moments /\ cur[s].time # Neg
    <3>1. w(t) \in Nat /\ cur[s].time - w(t) > best[t]
      BY <1>5
    <3>2. cur[s].time \in Moments /\ best[t] \in Moments
      BY <1>3, <1>4, <1>5
    <3>3. \A c, d, b : /\ c \in Moments /\ d \in Nat /\ b \in Moments
                       /\ c - d > b
                       => c - d \in Moments /\ c # Neg
      BY NegAssumption DEF Moments
    <3> QED BY <3>1, <3>2, <3>3
  <2>2. Transfer(s, w(t)) \in Parents
    BY <1>3, <1>5 DEF Transfer, Parents
  <2> QED BY <2>1, <2>2 DEF Label, Labels
<1>8. cur' \in [Stops -> Labels]
  BY <1>1, <1>6, <1>7
<1>9. \A t \in Stops : cur'[t].time >= cur[t].time
  <2> SUFFICES ASSUME NEW t \in Stops PROVE cur'[t].time >= cur[t].time
    OBVIOUS
  <2>1. CASE t \in better
    <3>1. cur'[t].time = cur[s].time - w(t)
      BY <1>1, <2>1 DEF Label
    <3>2. cur[s].time - w(t) > cur[t].time
      BY <1>5, <2>1
    <3>3. cur'[t].time > cur[t].time
      BY <3>1, <3>2, Zenon
    <3>4. cur'[t].time \in Moments /\ cur[t].time \in Moments
      BY <1>4, <1>7, <2>1, <3>1
    <3> QED BY <3>3, <3>4 DEF Moments
  <2>2. CASE t \notin better
    BY <1>1, <1>4, <2>2 DEF Moments
  <2> QED BY <2>1, <2>2
<1>10. TypeOK'
  <2>1. walked' \in SUBSET Stops /\ relaxing' \in SUBSET Stops
    BY <1>1, <1>5 DEF TypeOK
  <2> QED BY <1>2, <1>8, <2>1 DEF TypeOK
<1>11. LoopsInv'
  BY <1>1, <1>2 DEF LoopsInv, K
<1>12. ASSUME NEW t \in Stops
       PROVE  Supported(tt, query, rounds, K + 1, cur', t)
  <2>1. CASE t \in better
    <3>1. cur'[t] = Label(cur[s].time - w(t), Transfer(s, w(t)))
      BY <1>1, <2>1
    <3>2. cur'[s] = cur[s]
      BY <1>1, <1>3, <1>5
    <3>3. cur[s].time - w(t) >= cur[s].time - w(t)
      BY <1>7, <2>1 DEF Moments
    <3>4. /\ cur'[t].parent.kind = "transfer"
          /\ cur'[t].parent.from = s
          /\ cur'[t].parent.duration = w(t)
          /\ cur'[t].time = cur[s].time - w(t)
      BY <3>1 DEF Label, Transfer
    <3>5. <<s, t>> \in DOMAIN tt.walks /\ cur[s].time # Neg
      BY <1>5, <1>7, <2>1
    <3>6. w(t) = tt.walks[<<s, t>>]
      BY DEF w
    <3> QED BY <3>2, <3>3, <3>4, <3>5, <3>6 DEF Supported
  <2>2. CASE t \notin better
    <3>1. cur'[t] = cur[t]
      BY <1>1, <2>2
    <3>2. Supported(tt, query, rounds, K + 1, cur, t)
      BY DEF LabelsSupported
    <3>3. tt \in Timetables /\ K + 1 \in Nat
      BY <1>4 DEF TypeOK
    <3> QED BY <1>6, <1>8, <1>9, <3>1, <3>2, <3>3, SupportSurvives
  <2> QED BY <2>1, <2>2
<1>13. LabelsSupported'
  BY <1>2, <1>12 DEF LabelsSupported
<1>14. BestInv'
  <2>1. \A t \in Stops : cur'[t].time >= best[t]
    BY <1>4, <1>8, <1>9 DEF BestInv, BestIsLatest, Labels, Moments
  <2>2. \A t \in Stops \ (nextMarked \cup walked') : cur'[t].time = best[t]
    BY <1>1 DEF BestInv
  <2> QED BY <1>1, <1>2, <2>1, <2>2 DEF BestInv, BestIsLatest
<1>15. ScanInv' /\ TraceInv'
  BY <1>1, <1>2 DEF ScanInv, TraceInv
<1> QED BY <1>10, <1>11, <1>13, <1>14, <1>15

LEMMA EndRoundStep ==
  ASSUME SearchInv, EndRound
  PROVE  SearchInv'
<1> USE DEF SearchInv
<1> DEFINE improved == nextMarked \cup walked
<1>1. /\ best' = Commit(improved)
      /\ rounds' = Append(rounds, cur)
      /\ marked' = IF improved = {} THEN marked ELSE improved
      /\ pc' = IF improved = {} THEN "collect" ELSE "round"
      /\ pc = "walks"
  BY DEF EndRound
<1>2. /\ tt' = tt /\ query' = query /\ cur' = cur /\ touched' = touched
      /\ scan' = scan /\ nextMarked' = nextMarked /\ relaxing' = relaxing
      /\ walked' = walked /\ collecting' = collecting /\ trace' = trace
      /\ departure' = departure /\ journeys' = journeys
  BY DEF EndRound
<1>3. /\ best' = Times(cur)
      /\ best' \in [Stops -> Moments]
      /\ \A s \in Stops : best'[s] >= best[s]
  <2>1. improved \in SUBSET Stops
    BY DEF TypeOK
  <2>2. \A s \in Stops \ improved : cur[s].time = best[s]
    BY <1>1 DEF BestInv
  <2> QED BY <1>1, <2>1, <2>2, CommitFacts
<1>4. /\ K \in Nat \ {0}
      /\ DOMAIN rounds = 1 .. K
      /\ cur \in [Stops -> Labels]
      /\ \A s \in Stops : cur[s].time \in Moments /\ best[s] \in Moments
      /\ \A k \in DOMAIN rounds, s \in Stops : rounds[k][s].time \in Moments
  BY RoundFacts DEF TypeOK
<1>5. rounds \in Seq([Stops -> Labels])
  BY DEF TypeOK
<1>6. /\ rounds' \in Seq([Stops -> Labels])
      /\ K' = K + 1
      /\ DOMAIN rounds' = 1 .. (K + 1)
      /\ rounds'[K + 1] = cur
      /\ \A k \in 1 .. K : rounds'[k] = rounds[k]
  BY <1>1, <1>4, <1>5 DEF K
<1>7. TypeOK'
  BY <1>1, <1>2, <1>3, <1>6 DEF TypeOK
<1>8. LoopsInv'
  BY <1>1, <1>2, <1>4, <1>6 DEF LoopsInv
<1>9. LabelsSupported'
  <2>1. ASSUME NEW k \in 1 .. K, NEW s \in Stops
        PROVE  Supported(tt, query, rounds', k, rounds'[k], s)
    <3>1. Supported(tt, query, rounds, k, rounds[k], s)
      BY <1>4 DEF LabelsSupported
    <3>2. k \in Nat /\ k <= k
      OBVIOUS
    <3>3. \A i \in 1 .. (k - 1) : rounds'[i] = rounds[i]
      BY <1>4, <1>6
    <3> QED BY <1>6, <3>1, <3>2, <3>3, SupportGrows
  <2>2. ASSUME NEW s \in Stops, NEW m \in Nat, K + 1 <= m
        PROVE  Supported(tt, query, rounds', m, cur, s)
    <3>1. Supported(tt, query, rounds, K + 1, cur, s)
      BY DEF LabelsSupported
    <3>2. K + 1 \in Nat
      BY <1>4
    <3>3. \A i \in 1 .. ((K + 1) - 1) : rounds'[i] = rounds[i]
      BY <1>4, <1>6
    <3> QED BY <2>2, <3>1, <3>2, <3>3, SupportGrows
  <2>3. \A s \in Stops : Supported(tt, query, rounds', K' + 1, cur, s)
    BY <1>4, <1>6, <2>2
  <2>4. \A k \in DOMAIN rounds', s \in Stops :
          Supported(tt, query, rounds', k, rounds'[k], s)
    BY <1>4, <1>6, <2>1, <2>2
  <2> QED BY <1>2, <2>3, <2>4 DEF LabelsSupported
<1>10. BestInv'
  <2>1. \A s \in Stops : best'[s] = cur[s].time
    BY <1>3 DEF Times
  <2>2. \A k \in DOMAIN rounds, s \in Stops : best'[s] >= rounds[k][s].time
    <3>1. \A k \in DOMAIN rounds, s \in Stops : best[s] >= rounds[k][s].time
      BY DEF BestInv, BestIsLatest
    <3> QED BY <1>3, <1>4, <2>1, <3>1 DEF Moments
  <2>3. \A k \in DOMAIN rounds', s \in Stops : best'[s] >= rounds'[k][s].time
    BY <1>4, <1>6, <2>1, <2>2 DEF Moments
  <2>4. \A s \in Stops : cur'[s].time >= best'[s]
    BY <1>2, <1>4, <2>1 DEF Moments
  <2>5. best' = Times(rounds'[Len(rounds')])
    BY <1>3, <1>6 DEF K
  <2>6. pc' \notin {"patterns", "scan", "walks"}
    BY <1>1
  <2> QED BY <2>3, <2>4, <2>5, <2>6 DEF BestInv, BestIsLatest
<1>11. ScanInv' /\ TraceInv'
  BY <1>1 DEF ScanInv, TraceInv
<1> QED BY <1>7, <1>8, <1>9, <1>10, <1>11

LEMMA SkipRoundStep ==
  ASSUME SearchInv, SkipRound
  PROVE  SearchInv'
<1> USE DEF SearchInv, SkipRound
<1>1. LabelsSupported'
  BY SupportUnchanged
<1>2. BestInv'
  BY DEF BestInv, BestIsLatest
<1>3. TypeOK' /\ LoopsInv'
  BY DEF TypeOK, LoopsInv, K
<1> QED BY <1>1, <1>2, <1>3 DEF ScanInv, TraceInv

(* The best access of the round read next leaves the latest of all.        *)
LEMMA BestAccessIsLatest ==
  ASSUME TypeOK, LoopsInv, collecting <= Len(rounds)
  PROVE  LET round == rounds[collecting]
             e     == BestAccess(round)
         IN  /\ collecting \in 1 .. K
             /\ \A i \in UsableAccess(round) :
                  /\ i \in DOMAIN query.access /\ query.access[i].stop \in Stops
                  /\ query.access[i].duration \in Nat
                  /\ DepartOrigin(round, query.access[i]) \in Int
             /\ UsableAccess(round) # {} =>
                  /\ e # 0 /\ e \in UsableAccess(round)
                  /\ \A j \in UsableAccess(round) :
                       DepartOrigin(round, query.access[j])
                         <= DepartOrigin(round, query.access[e])
             /\ UsableAccess(round) = {} => e = 0
<1> DEFINE round  == rounds[collecting]
           usable == UsableAccess(round)
           leaves == [i \in usable |-> DepartOrigin(round, query.access[i])]
           latest == {i \in usable : \A j \in usable :
                        DepartOrigin(round, query.access[i])
                          >= DepartOrigin(round, query.access[j])}
<1>1. /\ query.access \in Seq(StreetLink) /\ query \in Queries
      /\ collecting \in 1 .. K /\ DOMAIN rounds = 1 .. K
      /\ DOMAIN query.access = 1 .. Len(query.access)
      /\ Len(query.access) \in Nat
  <2>1. query \in Queries /\ query.access \in Seq(StreetLink)
    BY QueryFacts DEF TypeOK
  <2>2. collecting \in 1 .. K /\ DOMAIN rounds = 1 .. K
    BY RoundFacts DEF TypeOK, LoopsInv, K
  <2> QED BY <2>1, <2>2
<1>2. ASSUME NEW i \in usable
      PROVE  /\ i \in DOMAIN query.access /\ query.access[i].stop \in Stops
             /\ query.access[i].duration \in Nat
             /\ DepartOrigin(round, query.access[i]) \in Int
             /\ i \in Nat \ {0}
  <2>1. i \in DOMAIN query.access /\ i \in Nat \ {0}
    BY <1>1 DEF UsableAccess
  <2>2. query.access[i].stop \in Stops /\ query.access[i].duration \in Nat
    BY <1>1, <2>1, QueryFacts
  <2>3. round[query.access[i].stop].time \in Int
    BY <1>1, <2>2, RoundFacts DEF Moments
  <2> HIDE DEF round
  <2> QED BY <2>1, <2>2, <2>3 DEF DepartOrigin
<1>3. IsFiniteSet(usable)
  <2>1. IsFiniteSet(1 .. Len(query.access))
    BY <1>1, FS_Interval
  <2>2. usable \subseteq 1 .. Len(query.access)
    BY <1>1 DEF UsableAccess
  <2> HIDE DEF usable
  <2> QED BY <2>1, <2>2, FS_Subset
<1> HIDE DEF round, usable
<1>4. ASSUME usable # {}
      PROVE  Min(latest) \in latest
  <2>1. leaves \in [usable -> Int]
    BY <1>2
  <2>2. PICK i \in usable : \A j \in usable : leaves[j] <= leaves[i]
    <3> HIDE DEF leaves
    <3> QED BY <1>3, <1>4, <2>1, GreatestValue
  <2>3. i \in latest
    <3>1. \A j \in usable : leaves[j] \in Int
                          /\ leaves[j] = DepartOrigin(round, query.access[j])
      BY <2>1
    <3> QED BY <2>2, <3>1
  <2>4. latest \in SUBSET Nat
    BY <1>2
  <2> HIDE DEF latest
  <2> QED BY <2>3, <2>4, MinOfNats
<1>5. BestAccess(round) = IF usable = {} THEN 0 ELSE Min(latest)
  BY DEF BestAccess, usable
<1> HIDE DEF latest
<1>6. usable # {} => /\ BestAccess(round) = Min(latest)
                     /\ Min(latest) \in usable
                     /\ \A j \in usable :
                          DepartOrigin(round, query.access[j])
                            <= DepartOrigin(round, query.access[Min(latest)])
  <2> SUFFICES ASSUME usable # {}
               PROVE  /\ BestAccess(round) = Min(latest)
                      /\ Min(latest) \in usable
                      /\ \A j \in usable :
                           DepartOrigin(round, query.access[j])
                             <= DepartOrigin(round, query.access[Min(latest)])
    OBVIOUS
  <2>1. /\ Min(latest) \in usable
        /\ \A j \in usable : DepartOrigin(round, query.access[Min(latest)])
                               >= DepartOrigin(round, query.access[j])
    BY <1>4 DEF latest
  <2>2. \A x, y \in Int : x >= y => y <= x
    OBVIOUS
  <2> QED BY <1>2, <1>5, <2>1, <2>2
<1>7. usable # {} => BestAccess(round) # 0
  BY <1>2, <1>6
<1> QED BY <1>1, <1>2, <1>5, <1>6, <1>7 DEF round, usable

(* Where a trace starts: at a stop of the round that has a label.          *)
LEMMA StartTraceFacts ==
  ASSUME SearchInv, StartTrace
  PROVE  LET round == rounds[collecting]
             e     == BestAccess(round)
             link  == query.access[e]
         IN  /\ e \in UsableAccess(round)
             /\ link.stop \in Stops
             /\ link.duration \in Nat
             /\ round[link.stop].time # Neg
             /\ collecting \in DOMAIN rounds
             /\ collecting \in Nat
             /\ round[link.stop].time \in Moments
<1> USE DEF SearchInv
<1> DEFINE round == rounds[collecting]
           e     == BestAccess(round)
           link  == query.access[e]
<1>1. e # 0 /\ collecting <= Len(rounds)
  BY DEF StartTrace, Improvement
<1>2. query \in Queries /\ query.access \in Seq(StreetLink)
  BY QueryFacts DEF TypeOK
<1>3. e \in UsableAccess(round)
  BY <1>1, BestAccessIsLatest
<1>4. /\ link.stop \in Stops
      /\ link.duration \in Nat
      /\ round[link.stop].time # Neg
  BY <1>2, <1>3, QueryFacts DEF UsableAccess
<1>5. /\ collecting \in DOMAIN rounds
      /\ collecting \in Nat
      /\ round[link.stop].time \in Moments
  <2>1. collecting \in DOMAIN rounds /\ collecting \in Nat
    BY <1>1, RoundFacts DEF TypeOK, LoopsInv, K
  <2> QED BY <1>4, <2>1, RoundFacts
<1> QED BY <1>3, <1>4, <1>5

LEMMA StartTraceStep ==
  ASSUME SearchInv, StartTrace
  PROVE  SearchInv'
<1> USE DEF SearchInv
<1> DEFINE round == rounds[collecting]
           e     == BestAccess(round)
           link  == query.access[e]
<1>1. /\ e # 0
      /\ departure' = DepartOrigin(round, link)
      /\ trace' = [stop |-> link.stop, round |-> collecting,
                   legs |-> WalkIfAny(link.stop, link.duration)]
      /\ pc' = "trace" /\ pc = "collect"
      /\ collecting <= Len(rounds)
  BY DEF StartTrace, Improvement
<1>2. /\ tt' = tt /\ query' = query /\ rounds' = rounds /\ cur' = cur
      /\ best' = best /\ marked' = marked /\ touched' = touched
      /\ scan' = scan /\ nextMarked' = nextMarked /\ relaxing' = relaxing
      /\ walked' = walked /\ collecting' = collecting
      /\ journeys' = journeys
  BY DEF StartTrace
<1>3. /\ link.stop \in Stops
      /\ link.duration \in Nat
      /\ round[link.stop].time # Neg
      /\ collecting \in DOMAIN rounds
      /\ collecting \in Nat
      /\ round[link.stop].time \in Moments
  BY StartTraceFacts
<1>4. TypeOK'
  <2>1. departure' \in Int
    BY <1>1, <1>3 DEF DepartOrigin, Moments
  <2>2. trace' \in [stop : Nat, round : Nat, legs : Seq(Legs)]
    BY <1>1, <1>3, WalkIfAnyType, StopsAssumption
  <2> QED BY <1>1, <1>2, <2>1, <2>2 DEF TypeOK
<1>5. LoopsInv'
  BY <1>1, <1>2 DEF LoopsInv, K
<1>6. LabelsSupported'
  BY <1>2, SupportUnchanged
<1>7. BestInv'
  BY <1>1, <1>2 DEF BestInv, BestIsLatest
<1>8. TraceInv'
  BY <1>1, <1>2, <1>3 DEF TraceInv
<1> QED BY <1>1, <1>4, <1>5, <1>6, <1>7, <1>8 DEF ScanInv

(* A ride is left at a stop it serves, and takes time.                     *)
LEMMA RideFacts ==
  ASSUME NEW t \in Timetables, NEW qu, NEW p, NEW s, NEW time, NEW from,
         from.time \in Int, RideSupports(t, qu, p, s, time, from)
  PROVE  /\ p.pattern \in Nat /\ p.trip \in Nat
         /\ p.board \in Nat /\ p.alight \in Nat
         /\ t.patterns[p.pattern].stops[p.alight] \in Stops
         /\ time <= from.time
<1> DEFINE pattern == t.patterns[p.pattern]
           trip    == pattern.trips[p.trip]
<1>1. /\ p.pattern \in DOMAIN t.patterns
      /\ p.trip \in DOMAIN pattern.trips
      /\ p.board \in DOMAIN pattern.stops
      /\ p.alight \in DOMAIN pattern.stops
      /\ p.board < p.alight
      /\ trip.departures[p.board] = time
      /\ trip.arrivals[p.alight] <= AlightReady(from)
  BY Zenon DEF RideSupports
<1>2. p.pattern \in Nat /\ pattern.stops \in Seq(Stops)
  BY <1>1, PatternFacts
<1> HIDE DEF pattern
<1>3. p.board \in Nat /\ p.alight \in Nat /\ pattern.stops[p.alight] \in Stops
  BY <1>1, <1>2
<1>4. /\ p.trip \in Nat
      /\ trip.arrivals[p.alight] \in Nat
      /\ time \in Nat
      /\ time <= trip.arrivals[p.alight]
  <2>1. /\ p.trip \in Nat \ {0}
        /\ \A x \in DOMAIN pattern.stops :
              trip.arrivals[x] \in Nat /\ trip.departures[x] \in Nat
        /\ \A x, y \in DOMAIN pattern.stops :
              x < y => trip.departures[x] <= trip.arrivals[y]
    BY <1>1, TripFacts, Zenon DEF pattern
  <2> QED BY <1>1, <2>1
<1>5. AlightReady(from) <= from.time /\ AlightReady(from) \in Int
  BY BufferAssumption DEF AlightReady
<1> HIDE DEF trip
<1>6. time <= from.time
  BY <1>1, <1>4, <1>5
<1> QED BY <1>2, <1>3, <1>4, <1>6 DEF pattern

(* The label a trace is at: the ride that explains it.                     *)
LEMMA TracedRideHolds ==
  ASSUME SearchInv, pc = "trace", TracedParent.kind = "board"
  PROVE  LET p == TracedParent
         IN  /\ p.round \in 1 .. (trace.round - 1)
             /\ RideSupports(tt, query, p, trace.stop, TracedTime,
                  rounds[p.round][tt.patterns[p.pattern].stops[p.alight]])
<1> DEFINE label == rounds[trace.round][trace.stop]
           p     == label.parent
           from  == rounds[p.round][tt.patterns[p.pattern].stops[p.alight]]
<1>1. /\ p.kind = "board"
      /\ Supported(tt, query, rounds, trace.round, rounds[trace.round],
                   trace.stop)
  BY DEF SearchInv, TraceInv, LabelsSupported, TracedParent
<1>2. label # Unreached
  BY <1>1 DEF Unreached, Label, NoParent
<1>3. label # EgressLabels(query)[trace.stop]
  <2>1. trace.stop \in Stops
    BY DEF SearchInv, TraceInv
  <2> QED BY <1>1, <2>1 DEF EgressLabels, Unreached, Label, NoParent, Egress
<1> HIDE DEF from, p, label
<1>4. p.kind # "transfer"
  BY <1>1
<1>5. /\ p.round \in 1 .. (trace.round - 1)
      /\ RideSupports(tt, query, p, trace.stop, label.time, from)
  BY <1>1, <1>2, <1>3, <1>4, Zenon DEF Supported, from, p, label
<1> QED BY <1>5, Zenon DEF TracedParent, TracedTime, from, label, p

(* The label a trace is at: where its parent leads.                        *)
LEMMA TracedRide ==
  ASSUME SearchInv, pc = "trace", TracedParent.kind = "board"
  PROVE  LET p    == TracedParent
             from == tt.patterns[p.pattern].stops[p.alight]
         IN  /\ p.pattern \in Nat /\ p.trip \in Nat
             /\ p.board \in Nat /\ p.alight \in Nat
             /\ p.round \in Nat /\ p.round \in DOMAIN rounds
             /\ p.round < trace.round
             /\ from \in Stops
             /\ rounds[p.round][from].time # Neg
             /\ rounds[p.round][from].time >= TracedTime
<1> USE DEF SearchInv
<1> DEFINE label == rounds[trace.round][trace.stop]
           p     == label.parent
           stop  == tt.patterns[p.pattern].stops[p.alight]
           from  == rounds[p.round][stop]
<1>1. trace.round \in DOMAIN rounds /\ trace.stop \in Stops
  BY DEF TraceInv
<1>2. /\ p.round \in 1 .. (trace.round - 1)
      /\ RideSupports(tt, query, p, trace.stop, label.time, from)
  BY TracedRideHolds, Zenon DEF TracedParent, TracedTime
<1> HIDE DEF label, p
<1>3. /\ p.round \in Nat /\ p.round \in DOMAIN rounds
      /\ p.round < trace.round
  <2>1. K \in Nat /\ DOMAIN rounds = 1 .. K
    BY RoundFacts
  <2>2. trace.round \in 1 .. K
    BY <1>1, <2>1
  <2>3. p.round \in 1 .. (trace.round - 1)
    BY <1>2
  <2> QED BY <2>1, <2>2, <2>3
<1>4. /\ from.time # Neg
      /\ stop \in Stops
  <2>1. /\ p.pattern \in DOMAIN tt.patterns
        /\ p.alight \in DOMAIN tt.patterns[p.pattern].stops
    BY <1>2, Zenon DEF RideSupports
  <2>2. tt.patterns[p.pattern].stops \in Seq(Stops)
    BY <2>1, PatternFacts DEF TypeOK
  <2>3. stop \in Stops
    BY <2>1, <2>2
  <2>4. from.time # Neg
    BY <1>2, Zenon DEF RideSupports
  <2> QED BY <2>3, <2>4, Zenon
<1>5. from.time \in Int /\ label.time \in Int
  BY <1>1, <1>3, <1>4, LabelTime DEF label
<1>6. tt \in Timetables
  BY DEF TypeOK
<1> HIDE DEF from
<1>7. /\ p.pattern \in Nat /\ p.trip \in Nat
      /\ p.board \in Nat /\ p.alight \in Nat
      /\ from.time >= label.time
  BY <1>2, <1>5, <1>6, RideFacts
<1> QED BY <1>3, <1>4, <1>7, Zenon DEF TracedParent, TracedTime, from, label, p

(* The label a trace is at: the walk that explains it.                     *)
LEMMA TracedWalkHolds ==
  ASSUME SearchInv, pc = "trace", TracedParent.kind = "transfer"
  PROVE  LET p == TracedParent
         IN  /\ <<p.from, trace.stop>> \in DOMAIN tt.walks
             /\ p.duration = tt.walks[<<p.from, trace.stop>>]
             /\ p.duration \in Nat
             /\ p.duration > 0
             /\ rounds[trace.round][p.from].time # Neg
             /\ rounds[trace.round][p.from].time - p.duration >= TracedTime
<1> USE DEF SearchInv
<1> DEFINE label == rounds[trace.round][trace.stop]
           p     == label.parent
<1>1. /\ trace.round \in DOMAIN rounds
      /\ trace.stop \in Stops
      /\ p.kind = "transfer"
      /\ Supported(tt, query, rounds, trace.round, rounds[trace.round],
                   trace.stop)
  BY DEF TraceInv, LabelsSupported, TracedParent
<1>2. /\ <<p.from, trace.stop>> \in DOMAIN tt.walks
      /\ p.duration = tt.walks[<<p.from, trace.stop>>]
      /\ rounds[trace.round][p.from].time # Neg
      /\ rounds[trace.round][p.from].time - p.duration >= label.time
  <2>1. label # Unreached
    BY <1>1 DEF Unreached, Label, NoParent
  <2>2. label # EgressLabels(query)[trace.stop]
    BY <1>1 DEF EgressLabels, Unreached, Label, NoParent, Egress
  <2>3. p.kind # "board"
    BY <1>1
  <2> QED BY <1>1, <2>1, <2>2, <2>3 DEF Supported
<1>3. p.duration \in Nat /\ p.duration > 0
  BY <1>2, WalkFacts DEF TypeOK
<1> QED BY <1>2, <1>3, Zenon DEF TracedParent, TracedTime

LEMMA TracedWalk ==
  ASSUME SearchInv, pc = "trace", TracedParent.kind = "transfer"
  PROVE  LET p == TracedParent
         IN  /\ p.from \in Stops
             /\ p.duration \in Nat
             /\ rounds[trace.round][p.from].time # Neg
             /\ rounds[trace.round][p.from].time > TracedTime
<1> USE DEF SearchInv
<1> DEFINE label == rounds[trace.round][trace.stop]
           p     == label.parent
<1>1. trace.round \in DOMAIN rounds /\ trace.stop \in Stops
  BY DEF TraceInv
<1>2. /\ <<p.from, trace.stop>> \in DOMAIN tt.walks
      /\ p.duration \in Nat /\ p.duration > 0
      /\ rounds[trace.round][p.from].time # Neg
      /\ rounds[trace.round][p.from].time - p.duration >= label.time
  BY TracedWalkHolds, Zenon DEF TracedParent, TracedTime
<1>3. p.from \in Stops
  <2>1. DOMAIN tt.walks \subseteq Stops \X Stops
    BY TimetablesAssumption DEF TypeOK, WellFormedTimetable, WalksAreTransfers
  <2> QED BY <1>2, <2>1
<1> DEFINE later   == rounds[trace.round][p.from].time
           earlier == label.time
<1>4. earlier \in Int /\ later \in Int
  BY <1>1, <1>3, LabelTime
<1>5. later > earlier
  <2>1. later - p.duration >= earlier
    BY <1>2
  <2> HIDE DEF earlier, later, p
  <2> QED BY <1>2, <1>4, <2>1
<1> QED BY <1>2, <1>3, <1>5, Zenon DEF TracedParent, TracedTime

LEMMA TraceRideStep ==
  ASSUME SearchInv, TraceRide
  PROVE  SearchInv'
<1> USE DEF SearchInv, TraceRide
<1> DEFINE p    == TracedParent
           from == tt.patterns[p.pattern].stops[p.alight]
           leg  == Ride(p.pattern, p.trip, p.board, p.alight)
<1>1. /\ p.pattern \in Nat /\ p.trip \in Nat
      /\ p.board \in Nat /\ p.alight \in Nat
      /\ p.round \in Nat /\ p.round \in DOMAIN rounds
      /\ from \in Stops
      /\ rounds[p.round][from].time # Neg
  BY TracedRide, Zenon
<1>2. leg \in Legs
  BY <1>1 DEF Ride, Legs
<1> HIDE DEF p, leg
<1>3. trace \in [stop : Nat, round : Nat, legs : Seq(Legs)]
  BY DEF TypeOK
<1>4. trace' = [trace EXCEPT !.stop = from, !.round = p.round,
                             !.legs = Append(@, leg)]
  BY DEF p, leg
<1>5. /\ trace'.stop = from /\ trace'.round = p.round
      /\ trace' \in [stop : Nat, round : Nat, legs : Seq(Legs)]
  <2>1. Append(trace.legs, leg) \in Seq(Legs)
    BY <1>2, <1>3
  <2>2. from \in Nat
    BY <1>1, StopsAssumption
  <2> QED BY <1>1, <1>3, <1>4, <2>1, <2>2, Zenon
<1>6. TypeOK'
  BY <1>5 DEF TypeOK
<1>7. LoopsInv'
  BY DEF LoopsInv, K
<1>8. LabelsSupported'
  BY SupportUnchanged
<1>9. BestInv'
  BY DEF BestInv, BestIsLatest
<1>10. TraceInv'
  BY <1>1, <1>5, Zenon DEF TraceInv
<1> QED BY <1>6, <1>7, <1>8, <1>9, <1>10 DEF ScanInv

LEMMA TraceWalkStep ==
  ASSUME SearchInv, TraceWalk
  PROVE  SearchInv'
<1> USE DEF SearchInv, TraceWalk
<1> DEFINE p   == TracedParent
           out == WalkIfAny(p.from, p.duration)
<1>1. /\ p.from \in Stops
      /\ p.duration \in Nat
      /\ rounds[trace.round][p.from].time # Neg
  BY TracedWalk
<1>2. out \in Seq(Legs)
  BY <1>1, WalkIfAnyType
<1> HIDE DEF p, out
<1>3. trace \in [stop : Nat, round : Nat, legs : Seq(Legs)]
  BY DEF TypeOK
<1>4. trace' = [trace EXCEPT !.stop = p.from, !.legs = @ \o out]
  BY DEF p, out
<1>5. /\ trace'.stop = p.from /\ trace'.round = trace.round
      /\ trace' \in [stop : Nat, round : Nat, legs : Seq(Legs)]
  <2>1. trace.legs \o out \in Seq(Legs)
    BY <1>2, <1>3
  <2>2. p.from \in Nat
    BY <1>1, StopsAssumption
  <2> QED BY <1>3, <1>4, <2>1, <2>2
<1>6. TypeOK'
  BY <1>5 DEF TypeOK
<1>7. LoopsInv'
  BY DEF LoopsInv, K
<1>8. LabelsSupported'
  BY SupportUnchanged
<1>9. BestInv'
  BY DEF BestInv, BestIsLatest
<1>10. TraceInv'
  BY <1>1, <1>5 DEF TraceInv
<1> QED BY <1>6, <1>7, <1>8, <1>9, <1>10 DEF ScanInv

LEMMA EndTraceStep ==
  ASSUME SearchInv, EndTrace
  PROVE  SearchInv'
<1> USE DEF SearchInv
<1>1. /\ pc' = "collect" /\ pc = "trace"
      /\ collecting' = collecting + 1
      /\ trace' = NotTracing
      /\ tt' = tt /\ query' = query /\ rounds' = rounds /\ cur' = cur
      /\ best' = best /\ marked' = marked /\ touched' = touched
      /\ scan' = scan /\ nextMarked' = nextMarked /\ relaxing' = relaxing
      /\ walked' = walked /\ departure' = departure
  BY Zenon DEF EndTrace
<1>2. trace' \in [stop : Nat, round : Nat, legs : Seq(Legs)]
  BY <1>1 DEF NotTracing
<1>3. collecting \in Nat
  BY DEF TypeOK
<1>4. TypeOK'
  BY <1>1, <1>2, <1>3 DEF TypeOK
<1>5. LoopsInv'
  BY <1>1, <1>3 DEF LoopsInv, K
<1>6. LabelsSupported'
  BY <1>1, SupportUnchanged
<1>7. BestInv'
  BY <1>1 DEF BestInv, BestIsLatest
<1> QED BY <1>1, <1>4, <1>5, <1>6, <1>7 DEF ScanInv, TraceInv

LEMMA AnswerStep ==
  ASSUME SearchInv, Answer
  PROVE  SearchInv'
<1> USE DEF SearchInv, Answer
<1>1. LabelsSupported'
  BY SupportUnchanged
<1>2. BestInv'
  BY DEF BestInv, BestIsLatest
<1> QED BY <1>1, <1>2 DEF TypeOK, LoopsInv, K, ScanInv, TraceInv

LEMMA StutteringStep ==
  ASSUME SearchInv, UNCHANGED vars
  PROVE  SearchInv'
<1> USE DEF SearchInv, vars
<1>1. LabelsSupported'
  BY SupportUnchanged
<1>2. BestInv'
  BY DEF BestInv, BestIsLatest
<1>3. ScanInv'
  BY Zenon DEF ScanInv, OnBoard, Prev, K, AlightReady
<1> QED BY <1>1, <1>2, <1>3 DEF TypeOK, LoopsInv, K, TraceInv

-----------------------------------------------------------------------------
LEMMA NextInv == SearchInv /\ [Next]_vars => SearchInv'
<1> SUFFICES ASSUME SearchInv, [Next]_vars PROVE SearchInv'
  OBVIOUS
<1>1. CASE StartRound
  BY <1>1, StartRoundStep
<1>2. CASE LastRoundDone
  BY <1>2, LastRoundDoneStep
<1>3. CASE SkipPattern
  BY <1>3, SkipPatternStep
<1>4. CASE StartPattern
  BY <1>4, StartPatternStep
<1>5. CASE ScanPosition
  BY <1>5, ScanPositionStep
<1>6. CASE StartWalks
  BY <1>6, StartWalksStep
<1>7. CASE RelaxWalks
  BY <1>7, RelaxWalksStep
<1>8. CASE EndRound
  BY <1>8, EndRoundStep
<1>9. CASE SkipRound
  BY <1>9, SkipRoundStep
<1>10. CASE StartTrace
  BY <1>10, StartTraceStep
<1>11. CASE TraceRide
  BY <1>11, TraceRideStep
<1>12. CASE TraceWalk
  BY <1>12, TraceWalkStep
<1>13. CASE EndTrace
  BY <1>13, EndTraceStep
<1>14. CASE Answer
  BY <1>14, AnswerStep
<1>15. CASE UNCHANGED vars
  BY <1>15, StutteringStep
<1> QED BY <1>1, <1>2, <1>3, <1>4, <1>5, <1>6, <1>7, <1>8, <1>9, <1>10, <1>11,
           <1>12, <1>13, <1>14, <1>15 DEF Next

LEMMA Invariance == Spec => []SearchInv
BY InitInv, NextInv, PTL DEF Spec

(* Each step of a trace goes to a later label, or to one of an earlier round
   that is no earlier: a trace cannot go round in circles.                  *)
THEOREM TraceAscends == Spec => TraceGoesOn
<1> DEFINE On == \/ TracedTime' > TracedTime
                 \/ TracedTime' = TracedTime /\ trace'.round < trace.round
<1>1. SearchInv /\ [Next]_vars => [pc = "trace" /\ pc' = "trace" => On]_vars
  <2> SUFFICES ASSUME SearchInv, Next, pc = "trace", pc' = "trace"
               PROVE  On
    OBVIOUS
  <2>1. /\ trace \in [stop : Nat, round : Nat, legs : Seq(Legs)]
        /\ trace.round \in DOMAIN rounds /\ trace.stop \in Stops
        /\ TracedTime \in Int
    BY LabelTime DEF SearchInv, TypeOK, TraceInv, TracedTime
  <2>2. CASE TraceRide
    <3> DEFINE p == TracedParent
               from == tt.patterns[p.pattern].stops[p.alight]
    <3>1. /\ p.round \in DOMAIN rounds
          /\ p.round < trace.round
          /\ from \in Stops
          /\ rounds[p.round][from].time >= TracedTime
      BY <2>2, TracedRide, Zenon DEF TraceRide
    <3>2. trace'.stop = from /\ trace'.round = p.round /\ rounds' = rounds
      BY <2>1, <2>2 DEF TraceRide
    <3>3. TracedTime' = rounds[p.round][from].time
      BY <3>2 DEF TracedTime
    <3>4. rounds[p.round][from].time \in Int
      BY <3>1, LabelTime DEF SearchInv
    <3> HIDE DEF from, p
    <3>5. trace'.round < trace.round
      BY <3>1, <3>2
    <3>6. TracedTime' >= TracedTime /\ TracedTime' \in Int
      BY <3>1, <3>3, <3>4, Zenon
    <3> QED BY <2>1, <3>5, <3>6
  <2>3. CASE TraceWalk
    <3>1. rounds[trace.round][TracedParent.from].time > TracedTime
      BY <2>3, TracedWalk DEF TraceWalk
    <3>2. /\ trace'.stop = TracedParent.from /\ trace'.round = trace.round
          /\ rounds' = rounds
      BY <2>1, <2>3 DEF TraceWalk
    <3> QED BY <3>1, <3>2 DEF TracedTime
  <2> QED BY <2>2, <2>3 DEF Next, StartRound, LastRoundDone, SkipPattern,
             StartPattern, ScanPosition, StartWalks, RelaxWalks, EndRound,
             SkipRound, StartTrace, EndTrace, Answer
<1> QED BY <1>1, Invariance, PTL DEF Spec, TraceGoesOn

-----------------------------------------------------------------------------
(* Trip i of pattern p may be left at position a with a label of these.     *)
Rideable(t, qu, labels, p, i, a) ==
  LET pattern == t.patterns[p]
      label   == labels[pattern.stops[a]]
  IN  /\ PatternAllowed(pattern, qu)
      /\ i \in DOMAIN pattern.trips
      /\ Boardable(pattern.trips[i], qu)
      /\ a \in DOMAIN pattern.stops
      /\ label.time # Neg
      /\ pattern.trips[i].arrivals[a] <= AlightReady(label)

(* These labels leave position b no earlier than trip i of pattern p.      *)
AsLate(t, labels, p, i, b) ==
  labels[t.patterns[p].stops[b]].time >= t.patterns[p].trips[i].departures[b]

(* Whatever can be ridden on pattern p with a label of from is kept in to.  *)
PatternKept(t, qu, from, to, p) ==
  \A i \in DOMAIN t.patterns[p].trips, a, b \in DOMAIN t.patterns[p].stops :
    b < a /\ Rideable(t, qu, from, p, i, a) => AsLate(t, to, p, i, b)

-----------------------------------------------------------------------------
(* A stop that is not marked has the label it had a round ago, if any.      *)
MarksInv ==
  /\ pc \in {"round", "patterns", "scan", "walks"} =>
       \A s \in Stops \ marked :
         Prev[s].time = Neg \/ (K >= 2 /\ Prev[s] = rounds[K - 1][s])
  /\ pc \in {"patterns", "scan", "walks"} =>
       \A s \in Stops \ (nextMarked \cup walked) : cur[s] = Prev[s]

(* Half way back along a pattern: what could be left at the positions behind
   was kept in an earlier round, or was kept down to here and the trip on
   board leaves no earlier from here on.                                    *)
ScanKept ==
  LET p     == scan.pattern
      trips == tt.patterns[p].trips
      stops == tt.patterns[p].stops
  IN  \A i \in DOMAIN trips, a \in DOMAIN stops :
        a > scan.pos /\ Rideable(tt, query, Prev, p, i, a) =>
          \/ \A b \in DOMAIN stops : b < a => AsLate(tt, cur, p, i, b)
          \/ /\ scan.trip # 0
             /\ \A b \in DOMAIN stops : b < a =>
                  IF b > scan.pos THEN AsLate(tt, cur, p, i, b)
                  ELSE trips[scan.trip].departures[b] >= trips[i].departures[b]

(* Whatever a label of a finished round could ride, the next round has.    *)
RoundsKept ==
  \A k \in 1 .. K - 1 : \A p \in DOMAIN tt.patterns :
    PatternKept(tt, query, rounds[k], rounds[k + 1], p)

(* The same of the round under way, for the patterns it is through with.   *)
PatternsKept ==
  pc \in {"patterns", "scan", "walks"} =>
    \A p \in DOMAIN tt.patterns \ touched :
      (pc = "scan" => p # scan.pattern) => PatternKept(tt, query, Prev, cur, p)

RidesInv ==
  FirstOutFirstIn(tt) => RoundsKept /\ PatternsKept /\ (pc = "scan" => ScanKept)

-----------------------------------------------------------------------------
(* A label that a ride of this round wrote.                                *)
Ridden(labels, s, k) ==
  labels[s].parent.kind = "board" /\ labels[s].parent.round = k

WalkedFrom(t, labels, s) ==
  \A r \in Stops : <<s, r>> \in DOMAIN t.walks =>
    labels[r].time >= labels[s].time - t.walks[<<s, r>>]

WalksInv ==
  /\ \A k \in DOMAIN rounds, s \in Stops :
       Ridden(rounds[k], s, k - 1) => WalkedFrom(tt, rounds[k], s)
  /\ pc \in {"patterns", "scan", "walks"} =>
       \A s \in Stops : Ridden(cur, s, K) => s \in nextMarked
  /\ pc = "walks" =>
       \A s \in Stops \ relaxing : Ridden(cur, s, K) => WalkedFrom(tt, cur, s)

KeptInv == SearchInv /\ MarksInv /\ RidesInv /\ WalksInv

-----------------------------------------------------------------------------
(* A trip that is no earlier at a position was no earlier at those before.  *)
LEMMA OrderKept ==
  ASSUME NEW t \in Timetables, FirstOutFirstIn(t),
         NEW p \in DOMAIN t.patterns,
         NEW i \in DOMAIN t.patterns[p].trips,
         NEW j \in DOMAIN t.patterns[p].trips,
         NEW a \in DOMAIN t.patterns[p].stops,
         NEW b \in DOMAIN t.patterns[p].stops, b < a,
         t.patterns[p].trips[i].arrivals[a] >= t.patterns[p].trips[j].arrivals[a]
  PROVE  t.patterns[p].trips[i].departures[b] >= t.patterns[p].trips[j].departures[b]
<1> DEFINE trips == t.patterns[p].trips
           stops == t.patterns[p].stops
<1>1. /\ i \in Nat /\ j \in Nat
      /\ \A x \in DOMAIN stops :
           /\ trips[i].arrivals[x] \in Nat /\ trips[i].departures[x] \in Nat
           /\ trips[j].arrivals[x] \in Nat /\ trips[j].departures[x] \in Nat
  BY TripFacts
<1>2. DOMAIN trips[i].arrivals = DOMAIN stops /\ DOMAIN trips[j].arrivals = DOMAIN stops
  BY TripDomain
<1>3. j < i => trips[j].departures[b] <= trips[i].departures[b]
  BY <1>2 DEF FirstOutFirstIn, NoOvertaking
<1>4. i < j => trips[i].arrivals[a] <= trips[j].arrivals[a]
  BY <1>2 DEF FirstOutFirstIn, NoOvertaking
<1>5. trips[i].arrivals[a] = trips[j].arrivals[a]
        => trips[i].departures[b] = trips[j].departures[b]
  BY <1>2 DEF FirstOutFirstIn, TiesLast
<1>6. trips[i].arrivals[a] >= trips[j].arrivals[a]
  OBVIOUS
<1>7. /\ trips[i].departures[b] \in Nat /\ trips[j].departures[b] \in Nat
      /\ trips[i].arrivals[a] \in Nat /\ trips[j].arrivals[a] \in Nat
  BY <1>1
<1> HIDE DEF trips, stops
<1>8. i = j => trips[i].departures[b] >= trips[j].departures[b]
  BY <1>7
<1>9. ASSUME i < j
      PROVE  trips[i].departures[b] >= trips[j].departures[b]
  <2>1. trips[i].arrivals[a] = trips[j].arrivals[a]
    BY <1>4, <1>6, <1>7, <1>9
  <2> QED BY <1>5, <1>7, <2>1
<1>10. trips[i].departures[b] >= trips[j].departures[b]
  BY <1>1, <1>3, <1>7, <1>8, <1>9
<1> QED BY <1>10 DEF trips

(* Whichever trip could be left here, the one the search takes reaches this
   position no earlier.                                                     *)
LEMMA LeavesLast ==
  ASSUME NEW t \in Timetables, NoOvertaking(t), NEW qu,
         NEW p \in DOMAIN t.patterns, NEW labels, NEW i, NEW a,
         Rideable(t, qu, labels, p, i, a)
  PROVE  LET pattern == t.patterns[p]
             ready   == AlightReady(labels[pattern.stops[a]])
             c       == LatestAlightable(pattern, a, ready, qu)
         IN  /\ c # 0
             /\ c \in DOMAIN pattern.trips
             /\ pattern.trips[c].arrivals[a] >= pattern.trips[i].arrivals[a]
<1> DEFINE pattern == t.patterns[p]
           trips   == pattern.trips
           ready   == AlightReady(labels[pattern.stops[a]])
           ok == {n \in DOMAIN trips : /\ trips[n].arrivals[a] <= ready
                                       /\ Boardable(trips[n], qu)}
<1>1. i \in ok /\ a \in DOMAIN pattern.stops
  BY Zenon DEF Rideable
<1>2. ok \subseteq DOMAIN trips /\ ok \in SUBSET (1 .. Len(trips)) /\ Len(trips) \in Nat
  <2>1. DOMAIN trips = 1 .. Len(trips) /\ Len(trips) \in Nat
    BY PatternFacts
  <2>2. ok \subseteq DOMAIN trips
    OBVIOUS
  <2> HIDE DEF ok, trips
  <2> QED BY <2>1, <2>2
<1>3. Max(ok) \in ok /\ i <= Max(ok)
  <2> HIDE DEF ok, trips
  <2>1. ok # {}
    BY <1>1
  <2> QED BY <1>1, <1>2, <2>1, MaxOfBounded, Zenon
<1> DEFINE c == LatestAlightable(pattern, a, ready, qu)
<1>4. c = Max(ok)
  BY <1>1, Zenon DEF LatestAlightable
<1>5. /\ i \in Nat /\ i \in DOMAIN trips /\ a \in DOMAIN pattern.stops
      /\ trips[i].arrivals[a] \in Nat
  BY <1>1, TripFacts
<1> HIDE DEF c, ok
<1>6. c \in Nat \ {0} /\ i <= c /\ c \in DOMAIN trips
  <2>1. c \in DOMAIN trips /\ i <= c
    BY <1>2, <1>3, <1>4
  <2> QED BY <2>1, TripFacts
<1>7. i < c => trips[i].arrivals[a] <= trips[c].arrivals[a]
  <2>1. DOMAIN trips[i].arrivals = DOMAIN pattern.stops
    BY <1>5, TripDomain
  <2> QED BY <1>5, <1>6, <2>1 DEF NoOvertaking
<1>8. trips[c].arrivals[a] \in Nat
  BY <1>5, <1>6, TripFacts
<1>9. trips[c].arrivals[a] >= trips[i].arrivals[a]
  <2>1. CASE c = i
    BY <1>5, <2>1
  <2>2. CASE i < c
    BY <1>5, <1>7, <1>8, <2>2
  <2> QED BY <1>5, <1>6, <2>1, <2>2
<1> QED BY <1>6, <1>9, Zenon DEF c

(* Labels that only become later keep what they kept.                      *)
LEMMA KeptStays ==
  ASSUME NEW t \in Timetables, NEW qu, NEW p \in DOMAIN t.patterns, NEW from,
         NEW old, NEW new,
         \A s \in Stops : /\ old[s].time \in Int /\ new[s].time \in Int
                          /\ new[s].time >= old[s].time
  PROVE  /\ \A i \in DOMAIN t.patterns[p].trips, b \in DOMAIN t.patterns[p].stops :
              AsLate(t, old, p, i, b) => AsLate(t, new, p, i, b)
         /\ PatternKept(t, qu, from, old, p) => PatternKept(t, qu, from, new, p)
<1>1. ASSUME NEW i \in DOMAIN t.patterns[p].trips,
             NEW b \in DOMAIN t.patterns[p].stops,
             AsLate(t, old, p, i, b)
      PROVE  AsLate(t, new, p, i, b)
  <2>1. t.patterns[p].stops[b] \in Stops
    BY PatternFacts
  <2>2. t.patterns[p].trips[i].departures[b] \in Nat
    BY TripFacts
  <2> QED BY <1>1, <2>1, <2>2 DEF AsLate
<1> QED BY <1>1 DEF PatternKept

(* What the invariant says of the times in a round under way.              *)
LEMMA RoundTimes ==
  ASSUME SearchInv
  PROVE  /\ tt \in Timetables
         /\ K \in Nat \ {0} /\ DOMAIN rounds = 1 .. K
         /\ \A s \in Stops :
              /\ cur[s].time \in Int /\ best[s] \in Int /\ Prev[s].time \in Int
              /\ cur[s].time >= best[s]
              /\ cur[s].time >= Prev[s].time
<1>1. /\ K \in Nat \ {0} /\ DOMAIN rounds = 1 .. K
      /\ \A k \in DOMAIN rounds, s \in Stops : rounds[k][s].time \in Moments
      /\ \A s \in Stops : cur[s].time \in Moments /\ best[s] \in Moments
  BY RoundFacts DEF SearchInv
<1>2. \A s \in Stops : cur[s].time >= best[s] /\ best[s] >= Prev[s].time
  BY <1>1 DEF SearchInv, BestInv, BestIsLatest, Prev, Moments
<1>3. \A s \in Stops : Prev[s].time \in Int /\ cur[s].time \in Int /\ best[s] \in Int
  BY <1>1 DEF Prev, Moments
<1>4. tt \in Timetables
  BY DEF SearchInv, TypeOK
<1>5. \A s \in Stops : cur[s].time >= Prev[s].time
  BY <1>2, <1>3
<1> QED BY <1>1, <1>2, <1>3, <1>4, <1>5

(* A ride from a stop that is not marked was kept by a round before.       *)
LEMMA UnmarkedIsKept ==
  ASSUME SearchInv, MarksInv, RidesInv, FirstOutFirstIn(tt),
         pc \in {"round", "patterns"},
         NEW p \in DOMAIN tt.patterns,
         NEW i, NEW a, Rideable(tt, query, Prev, p, i, a),
         tt.patterns[p].stops[a] \notin marked,
         NEW b \in DOMAIN tt.patterns[p].stops, b < a
  PROVE  AsLate(tt, Prev, p, i, b)
<1> DEFINE s == tt.patterns[p].stops[a]
<1>1. /\ i \in DOMAIN tt.patterns[p].trips /\ a \in DOMAIN tt.patterns[p].stops
      /\ Prev[s].time # Neg
  BY Zenon DEF Rideable
<1>2. s \in Stops \ marked
  BY <1>1, PatternFacts, RoundTimes
<1>3. K >= 2 /\ Prev[s] = rounds[K - 1][s]
  BY <1>1, <1>2 DEF MarksInv
<1>4. Rideable(tt, query, rounds[K - 1], p, i, a)
  BY <1>3, Zenon DEF Rideable
<1>5. K - 1 \in 1 .. K - 1 /\ (K - 1) + 1 = K
  BY <1>3, RoundTimes
<1>6. PatternKept(tt, query, rounds[K - 1], Prev, p)
  BY <1>5 DEF RidesInv, RoundsKept, Prev
<1> QED BY <1>1, <1>4, <1>6 DEF PatternKept

-----------------------------------------------------------------------------
(* The marks of a round are the stops whose labels it changed.             *)
LEMMA MarksInit == Init => MarksInv
<1> SUFFICES ASSUME Init PROVE MarksInv
  OBVIOUS
<1>1. Prev = EgressLabels(query) /\ marked = LinkStops(query.egress) /\ pc = "round"
  BY DEF Init, Prev, K
<1>2. ASSUME NEW s \in Stops \ marked
      PROVE  Prev[s].time = Neg
  <2>1. LinksTo(query.egress, s) = {}
    BY <1>1 DEF LinkStops, LinksTo
  <2> QED BY <1>1, <2>1 DEF EgressLabels, Unreached, Label
<1> QED BY <1>1, <1>2 DEF MarksInv

LEMMA ScanWrites ==
  ASSUME SearchInv, ScanPosition
  PROVE  LET pattern == tt.patterns[scan.pattern]
             stop    == pattern.stops[scan.pos]
             leaves  == pattern.trips[scan.trip].departures[scan.pos]
         IN  /\ nextMarked \subseteq nextMarked'
             /\ \A s \in Stops :
                  /\ cur'[s] = cur[s] \/ (s \in nextMarked' /\ Ridden(cur', s, K))
                  /\ cur'[s].time \in Int /\ cur'[s].time >= cur[s].time
             /\ scan.trip # 0 => leaves \in Nat /\ cur'[stop].time >= leaves
<1> DEFINE pattern == tt.patterns[scan.pattern]
           stop    == pattern.stops[scan.pos]
           leaves  == pattern.trips[scan.trip].departures[scan.pos]
           label   == Label(leaves, Board(scan.pattern, scan.trip,
                                           scan.pos, scan.from, K))
           improves == /\ scan.trip # 0
                       /\ leaves > best[stop]
                       /\ leaves > cur[stop].time
<1> HIDE DEF label, pattern
<1>1. stop \in Stops /\ (scan.trip # 0 => leaves \in Nat)
  <2>1. TypeOK /\ LoopsInv /\ ScanInv /\ pc = "scan"
    BY Zenon DEF SearchInv, ScanPosition
  <2> QED BY <2>1, ScanFacts DEF pattern
<1>2. /\ cur \in [Stops -> Labels]
      /\ \A s \in Stops : /\ cur[s].time \in Int /\ best[s] \in Int
                          /\ cur[s].time >= best[s]
  BY RoundTimes DEF SearchInv, TypeOK
<1>3. /\ cur' = IF improves THEN [cur EXCEPT ![stop] = label] ELSE cur
      /\ nextMarked' = IF improves THEN nextMarked \cup {stop} ELSE nextMarked
  BY Zenon DEF ScanPosition, label, pattern
<1>4. /\ label.time = leaves /\ label.parent.kind = "board"
      /\ label.parent.round = K
  BY DEF Label, Board, label
<1> HIDE DEF stop, leaves
<1>5. ASSUME improves
      PROVE  /\ nextMarked \subseteq nextMarked'
             /\ \A s \in Stops :
                  /\ cur'[s] = cur[s] \/ (s \in nextMarked' /\ Ridden(cur', s, K))
                  /\ cur'[s].time \in Int /\ cur'[s].time >= cur[s].time
             /\ cur'[stop].time = leaves /\ leaves \in Nat
  <2>1. cur' = [cur EXCEPT ![stop] = label] /\ nextMarked' = nextMarked \cup {stop}
    BY <1>3, <1>5
  <2>2. cur'[stop] = label /\ \A s \in Stops \ {stop} : cur'[s] = cur[s]
    BY <1>1, <1>2, <2>1
  <2>3. scan.trip # 0 /\ leaves \in Nat /\ leaves > cur[stop].time
    BY <1>1, <1>5
  <2>4. cur'[stop].time = leaves /\ Ridden(cur', stop, K)
    BY <1>4, <2>2 DEF Ridden
  <2>5. \A s \in Stops : cur'[s].time \in Int /\ cur'[s].time >= cur[s].time
    BY <1>1, <1>2, <2>2, <2>3, <2>4
  <2> QED BY <2>1, <2>2, <2>3, <2>4, <2>5
<1>6. ASSUME ~improves
      PROVE  /\ nextMarked' = nextMarked /\ cur' = cur
             /\ scan.trip # 0 => cur[stop].time >= leaves
  BY <1>1, <1>2, <1>3, <1>6
<1>7. /\ nextMarked \subseteq nextMarked'
      /\ \A s \in Stops :
           /\ cur'[s] = cur[s] \/ (s \in nextMarked' /\ Ridden(cur', s, K))
           /\ cur'[s].time \in Int /\ cur'[s].time >= cur[s].time
  BY <1>2, <1>5, <1>6
<1>8. scan.trip # 0 => leaves \in Nat /\ cur'[stop].time >= leaves
  BY <1>1, <1>5, <1>6
<1> QED BY <1>7, <1>8, Zenon DEF stop, leaves, pattern

LEMMA RelaxWrites ==
  ASSUME SearchInv, RelaxWalks
  PROVE  LET s == Min(relaxing)
         IN  /\ s \in Stops /\ s \in relaxing /\ relaxing' = relaxing \ {s}
             /\ cur'[s] = cur[s]
             /\ \A r \in Stops :
                  /\ cur'[r] = cur[r] \/ (r \in walked' /\ cur'[r].parent.kind = "transfer")
                  /\ cur'[r].time \in Int /\ cur'[r].time >= cur[r].time
             /\ WalkedFrom(tt, cur', s)
<1> DEFINE s == Min(relaxing)
           w(r) == tt.walks[<<s, r>>]
<1>1. s \in relaxing /\ s \in Stops
  BY StopsAssumption, MinOfNats DEF RelaxWalks, SearchInv, TypeOK
<1>2. /\ relaxing' = relaxing \ {s}
      /\ walked' = walked \cup WalkImproves(s)
      /\ cur' = [r \in Stops |->
                  IF r \in WalkImproves(s) THEN Label(cur[s].time - w(r), Transfer(s, w(r)))
                  ELSE cur[r]]
  BY DEF RelaxWalks
<1>3. \A r \in Stops : /\ cur[r].time \in Int /\ best[r] \in Int
                      /\ cur[r].time >= best[r]
  BY RoundTimes
<1>4. \A r \in Stops : <<s, r>> \in DOMAIN tt.walks =>
                         w(r) \in Nat /\ w(r) > 0 /\ s # r
  <2> SUFFICES ASSUME NEW r \in Stops, <<s, r>> \in DOMAIN tt.walks
               PROVE  w(r) \in Nat /\ w(r) > 0 /\ s # r
    OBVIOUS
  <2>1. tt.walks[<<s, r>>] \in Nat /\ tt.walks[<<s, r>>] > 0 /\ <<s, r>>[1] # <<s, r>>[2]
    BY RoundTimes, WalkFacts
  <2> QED BY <2>1
<1>5. \A r \in Stops : r \in WalkImproves(s)
        <=> /\ <<s, r>> \in DOMAIN tt.walks
            /\ cur[s].time - w(r) > best[r] /\ cur[s].time - w(r) > cur[r].time
  BY DEF WalkImproves
<1> HIDE DEF s, w
<1>6. ASSUME NEW r \in Stops
      PROVE  /\ cur'[r] = cur[r] \/ (r \in walked' /\ cur'[r].parent.kind = "transfer")
             /\ cur'[r].time \in Int /\ cur'[r].time >= cur[r].time
             /\ <<s, r>> \in DOMAIN tt.walks => cur'[r].time >= cur[s].time - w(r)
  <2>1. CASE r \in WalkImproves(s)
    <3>1. cur'[r] = Label(cur[s].time - w(r), Transfer(s, w(r)))
      BY <1>2, <2>1
    <3>2. cur'[r].time = cur[s].time - w(r) /\ cur'[r].parent.kind = "transfer"
      BY <3>1 DEF Label, Transfer
    <3>3. w(r) \in Nat /\ cur[s].time \in Int /\ cur[s].time - w(r) > cur[r].time
      BY <1>1, <1>3, <1>4, <1>5, <2>1
    <3> QED BY <1>2, <1>3, <2>1, <3>2, <3>3
  <2>2. CASE r \notin WalkImproves(s)
    <3>1. cur'[r] = cur[r]
      BY <1>2, <2>2
    <3>2. <<s, r>> \in DOMAIN tt.walks => cur[r].time >= cur[s].time - w(r)
      BY <1>1, <1>3, <1>4, <1>5, <2>2
    <3> QED BY <1>3, <3>1, <3>2
  <2> QED BY <2>1, <2>2
<1>7. cur'[s] = cur[s]
  BY <1>1, <1>2, <1>4, <1>5
<1>8. WalkedFrom(tt, cur', s)
  BY <1>6, <1>7 DEF WalkedFrom, w
<1> QED BY <1>1, <1>2, <1>6, <1>7, <1>8 DEF s

(* Where a position scanned leads, and what it leaves alone.               *)
LEMMA ScanMoves ==
  ASSUME SearchInv, ScanPosition
  PROVE  LET pattern   == tt.patterns[scan.pattern]
             candidate == Candidate(pattern, pattern.stops[scan.pos])
         IN  /\ tt' = tt /\ query' = query /\ rounds' = rounds /\ K' = K
             /\ Prev' = Prev /\ marked' = marked /\ touched' = touched
             /\ walked' = walked /\ relaxing' = relaxing
             /\ pc = "scan"
             /\ pc' = IF scan.pos = 1 THEN "patterns" ELSE "scan"
             /\ scan.pos # 1 =>
                  /\ scan'.pattern = scan.pattern
                  /\ scan'.pos = scan.pos - 1
                  /\ scan'.trip = IF IsBetter(pattern, candidate) THEN candidate
                                  ELSE scan.trip
<1> DEFINE pattern   == tt.patterns[scan.pattern]
           candidate == Candidate(pattern, pattern.stops[scan.pos])
           last      == scan.pos = 1
<1> HIDE DEF pattern
<1>1. /\ tt' = tt /\ query' = query /\ rounds' = rounds /\ K' = K
      /\ Prev' = Prev /\ marked' = marked /\ touched' = touched
      /\ walked' = walked /\ relaxing' = relaxing
      /\ pc = "scan"
  <2>1. /\ UNCHANGED <<tt, query, rounds, best, marked, touched, relaxing, walked,
                       collecting, trace, departure, journeys>>
        /\ pc = "scan"
    BY Zenon DEF ScanPosition
  <2> QED BY <2>1 DEF K, Prev
<1>2. /\ scan' = IF last THEN NotScanning
                 ELSE IF IsBetter(pattern, candidate)
                 THEN [scan EXCEPT !.pos = @ - 1, !.trip = candidate,
                                   !.from = scan.pos]
                 ELSE [scan EXCEPT !.pos = @ - 1]
      /\ pc' = IF last THEN "patterns" ELSE "scan"
  BY Zenon DEF ScanPosition, pattern
<1>3. scan \in [pattern : Nat, pos : Nat, trip : Nat, from : Nat]
  BY DEF SearchInv, TypeOK
<1>4. ASSUME ~last
      PROVE  /\ scan'.pattern = scan.pattern
             /\ scan'.pos = scan.pos - 1
             /\ scan'.trip = IF IsBetter(pattern, candidate) THEN candidate
                             ELSE scan.trip
  <2> HIDE DEF candidate
  <2> QED BY <1>2, <1>3, <1>4
<1> QED BY <1>1, <1>2, <1>4 DEF pattern

(* A round that ends is the last of the rounds.                            *)
LEMMA EndRoundMoves ==
  ASSUME SearchInv, EndRound
  PROVE  /\ tt' = tt /\ query' = query /\ cur' = cur /\ touched' = touched
         /\ pc = "walks" /\ relaxing = {} /\ touched = {}
         /\ pc' \in {"collect", "round"}
         /\ pc' = "round" => marked' = nextMarked \cup walked
         /\ K \in Nat \ {0} /\ K' = K + 1
         /\ DOMAIN rounds = 1 .. K /\ DOMAIN rounds' = 1 .. (K + 1)
         /\ rounds'[K + 1] = cur /\ Prev' = cur
         /\ \A k \in 1 .. K : rounds'[k] = rounds[k]
<1>1. /\ tt' = tt /\ query' = query /\ cur' = cur /\ touched' = touched
      /\ pc = "walks" /\ relaxing = {}
      /\ rounds' = Append(rounds, cur)
  BY DEF EndRound
<1>2. /\ pc' \in {"collect", "round"}
      /\ pc' = "round" => marked' = nextMarked \cup walked
  <2> DEFINE improved == nextMarked \cup walked
  <2>1. /\ marked' = IF improved = {} THEN marked ELSE improved
        /\ pc' = IF improved = {} THEN "collect" ELSE "round"
    BY DEF EndRound
  <2> QED BY <2>1
<1>3. touched = {}
  BY <1>1 DEF SearchInv, LoopsInv
<1>4. /\ K \in Nat \ {0} /\ DOMAIN rounds = 1 .. K
      /\ cur \in [Stops -> Labels] /\ rounds \in Seq([Stops -> Labels])
  BY RoundFacts DEF SearchInv, TypeOK
<1>5. /\ K' = K + 1 /\ DOMAIN rounds' = 1 .. (K + 1)
      /\ rounds'[K + 1] = cur
      /\ \A k \in 1 .. K : rounds'[k] = rounds[k]
  BY <1>1, <1>4 DEF K
<1> QED BY <1>1, <1>2, <1>3, <1>4, <1>5 DEF Prev

LEMMA MarksStep ==
  ASSUME SearchInv, MarksInv, [Next]_vars
  PROVE  MarksInv'
<1> USE DEF MarksInv
<1>1. CASE StartRound
  BY <1>1 DEF StartRound, Prev, K
<1>2. CASE SkipPattern \/ StartPattern \/ StartWalks
  BY <1>2 DEF SkipPattern, StartPattern, StartWalks, Prev, K
<1>3. CASE ScanPosition
  <2>1. /\ rounds' = rounds /\ K' = K /\ Prev' = Prev /\ marked' = marked
        /\ walked' = walked /\ pc = "scan" /\ pc' \in {"patterns", "scan"}
    BY <1>3, ScanMoves, Zenon
  <2>2. /\ nextMarked \subseteq nextMarked'
        /\ \A s \in Stops \ nextMarked' : cur'[s] = cur[s]
    BY <1>3, ScanWrites, Zenon
  <2> QED BY <2>1, <2>2
<1>4. CASE RelaxWalks
  <2>1. /\ rounds' = rounds /\ marked' = marked /\ nextMarked' = nextMarked
        /\ pc = "walks" /\ pc' = "walks" /\ walked \subseteq walked'
    BY <1>4 DEF RelaxWalks
  <2>2. \A s \in Stops \ walked' : cur'[s] = cur[s]
    BY <1>4, RelaxWrites
  <2> QED BY <2>1, <2>2 DEF Prev, K
<1>5. CASE EndRound
  <2>1. /\ pc = "walks" /\ pc' \in {"collect", "round"}
        /\ pc' = "round" => marked' = nextMarked \cup walked
        /\ K \in Nat \ {0} /\ K' = K + 1 /\ Prev' = cur
        /\ rounds'[K] = rounds[K]
    BY <1>5, EndRoundMoves
  <2>2. K' >= 2 /\ rounds'[K' - 1] = Prev
    BY <2>1 DEF Prev
  <2> QED BY <2>1, <2>2
<1>6. CASE LastRoundDone \/ SkipRound \/ StartTrace \/ TraceRide \/ TraceWalk
             \/ EndTrace \/ Answer
  BY <1>6 DEF LastRoundDone, SkipRound, StartTrace, TraceRide, TraceWalk, EndTrace, Answer
<1>7. CASE UNCHANGED vars
  BY <1>7 DEF vars, Prev, K
<1> QED BY <1>1, <1>2, <1>3, <1>4, <1>5, <1>6, <1>7 DEF Next

-----------------------------------------------------------------------------
(* A ride of this round is written to the round under way only.            *)
LEMMA OldRides ==
  ASSUME SearchInv, NEW s \in Stops
  PROVE  ~Ridden(Prev, s, K)
<1> DEFINE label == Prev[s]
           p     == label.parent
<1> SUFFICES ASSUME p.kind = "board" PROVE p.round # K
  BY DEF Ridden
<1>1. K \in Nat \ {0} /\ DOMAIN rounds = 1 .. K
  BY RoundTimes
<1>2. Supported(tt, query, rounds, K, Prev, s)
  BY <1>1 DEF SearchInv, LabelsSupported, Prev
<1>3. label # Unreached /\ label # EgressLabels(query)[s]
  BY DEF EgressLabels, Unreached, Label, NoParent, Egress
<1> HIDE DEF p, label
<1>4. p.round \in 1 .. (K - 1)
  <2>1. p.kind # "transfer"
    OBVIOUS
  <2> QED BY <1>2, <1>3, <2>1, Zenon DEF Supported, p, label
<1> QED BY <1>1, <1>4

(* Every stop a ride of a round can be boarded at is walked to in that round. *)
LEMMA WalksInit == Init => WalksInv
<1> SUFFICES ASSUME Init PROVE WalksInv
  OBVIOUS
<1>1. DOMAIN rounds = {1} /\ rounds[1] = EgressLabels(query) /\ pc = "round"
  BY DEF Init
<1>2. \A s \in Stops : ~Ridden(EgressLabels(query), s, 0)
  BY DEF Ridden, EgressLabels, Unreached, Label, NoParent, Egress
<1> QED BY <1>1, <1>2 DEF WalksInv

LEMMA WalksStep ==
  ASSUME SearchInv, WalksInv, [Next]_vars
  PROVE  WalksInv'
<1> DEFINE Kept == \A k \in DOMAIN rounds, s \in Stops :
                     Ridden(rounds[k], s, k - 1) => WalkedFrom(tt, rounds[k], s)
<1>1. Kept
  BY DEF WalksInv
<1>2. ASSUME tt' = tt, rounds' = rounds
      PROVE  Kept'
  <2>1. \A k \in DOMAIN rounds, s \in Stops :
          Ridden(rounds'[k], s, k - 1) => WalkedFrom(tt', rounds'[k], s)
    BY <1>1, <1>2
  <2> QED BY <1>2, <2>1
<1> HIDE DEF Kept
<1>3. CASE StartRound
  <2>1. /\ tt' = tt /\ rounds' = rounds /\ cur' = Prev /\ pc' = "patterns"
        /\ K' = K
    BY <1>3 DEF StartRound, K
  <2>2. \A s \in Stops : ~Ridden(cur', s, K)
    BY <2>1, OldRides
  <2> QED BY <1>2, <2>1, <2>2 DEF WalksInv, Kept
<1>4. CASE SkipPattern \/ StartPattern
  <2>1. /\ tt' = tt /\ rounds' = rounds /\ cur' = cur
        /\ nextMarked' = nextMarked /\ pc = "patterns" /\ pc' # "walks" /\ K' = K
    BY <1>4 DEF SkipPattern, StartPattern, K
  <2> QED BY <1>2, <2>1 DEF WalksInv, Kept
<1>5. CASE StartWalks
  <2>1. /\ tt' = tt /\ rounds' = rounds /\ cur' = cur /\ relaxing' = nextMarked
        /\ nextMarked' = nextMarked /\ pc = "patterns" /\ K' = K
    BY <1>5 DEF StartWalks, K
  <2> QED BY <1>2, <2>1 DEF WalksInv, Kept
<1>6. CASE ScanPosition
  <2>1. /\ tt' = tt /\ rounds' = rounds /\ K' = K
        /\ pc = "scan" /\ pc' \in {"patterns", "scan"}
    BY <1>6, ScanMoves, Zenon
  <2>2. /\ nextMarked \subseteq nextMarked'
        /\ \A s \in Stops : cur'[s] = cur[s] \/ s \in nextMarked'
    BY <1>6, ScanWrites, Zenon
  <2>3. \A s \in Stops : Ridden(cur', s, K) => s \in nextMarked'
    BY <2>1, <2>2 DEF WalksInv, Ridden
  <2> QED BY <1>2, <2>1, <2>3 DEF WalksInv, Kept
<1>7. CASE RelaxWalks
  <2> DEFINE m == Min(relaxing)
  <2>1. /\ tt' = tt /\ rounds' = rounds /\ K' = K /\ nextMarked' = nextMarked
        /\ pc = "walks" /\ pc' = "walks"
    BY <1>7 DEF RelaxWalks, K
  <2>2. /\ relaxing' = relaxing \ {m}
        /\ \A r \in Stops :
             /\ cur'[r] = cur[r] \/ cur'[r].parent.kind = "transfer"
             /\ cur'[r].time \in Int /\ cur'[r].time >= cur[r].time
        /\ WalkedFrom(tt, cur', m)
    BY <1>7, RelaxWrites, Zenon
  <2> HIDE DEF m
  <2>3. \A s \in Stops : Ridden(cur', s, K) => cur'[s] = cur[s] /\ Ridden(cur, s, K)
    BY <2>2 DEF Ridden
  <2>4. ASSUME NEW s \in Stops \ relaxing', Ridden(cur', s, K)
        PROVE  WalkedFrom(tt, cur', s)
    <3>1. CASE s = m
      BY <2>2, <3>1
    <3>2. CASE s # m
      <4>1. WalkedFrom(tt, cur, s) /\ cur'[s] = cur[s]
        BY <2>1, <2>2, <2>3, <2>4, <3>2 DEF WalksInv
      <4>2. ASSUME NEW r \in Stops, <<s, r>> \in DOMAIN tt.walks
            PROVE  cur'[r].time >= cur'[s].time - tt.walks[<<s, r>>]
        <5> DEFINE w == tt.walks[<<s, r>>]
        <5>1. w \in Nat
          BY <4>2, WalkFacts DEF SearchInv, TypeOK
        <5>2. cur[r].time >= cur[s].time - w
          BY <4>1, <4>2 DEF WalkedFrom
        <5>3. /\ cur[r].time \in Int /\ cur[s].time \in Int /\ cur'[r].time \in Int
              /\ cur'[r].time >= cur[r].time
          BY <2>2, RoundTimes
        <5> HIDE DEF w
        <5>4. cur'[r].time >= cur[s].time - w
          BY <5>1, <5>2, <5>3
        <5> QED BY <4>1, <5>4 DEF w
      <4> QED BY <4>2 DEF WalkedFrom
    <3> QED BY <3>1, <3>2
  <2> QED BY <1>2, <2>1, <2>3, <2>4 DEF WalksInv, Kept
<1>8. CASE EndRound
  <2>1. /\ tt' = tt /\ pc = "walks" /\ relaxing = {} /\ pc' \in {"collect", "round"}
        /\ K \in Nat /\ DOMAIN rounds = 1 .. K /\ DOMAIN rounds' = 1 .. (K + 1)
        /\ rounds'[K + 1] = cur
        /\ \A k \in 1 .. K : rounds'[k] = rounds[k]
    BY <1>8, EndRoundMoves
  <2>2. ASSUME NEW k \in 1 .. (K + 1), NEW s \in Stops, Ridden(rounds'[k], s, k - 1)
        PROVE  WalkedFrom(tt, rounds'[k], s)
    <3>1. CASE k = K + 1
      <4>1. k - 1 = K
        BY <2>1, <3>1
      <4> QED BY <2>1, <2>2, <3>1, <4>1 DEF WalksInv
    <3>2. CASE k # K + 1
      <4>1. k \in 1 .. K
        BY <2>1, <3>2
      <4> QED BY <1>1, <2>1, <2>2, <4>1 DEF Kept
    <3> QED BY <3>1, <3>2
  <2> QED BY <2>1, <2>2 DEF WalksInv
<1>9. CASE \/ LastRoundDone \/ SkipRound \/ StartTrace \/ TraceRide \/ TraceWalk
           \/ EndTrace \/ Answer
  <2>1. /\ tt' = tt /\ rounds' = rounds
        /\ pc' \notin {"patterns", "scan", "walks"}
    BY <1>9 DEF LastRoundDone, SkipRound, StartTrace, TraceRide, TraceWalk,
                EndTrace, Answer
  <2> QED BY <1>2, <2>1 DEF WalksInv, Kept
<1>10. CASE UNCHANGED vars
  BY <1>10 DEF vars, WalksInv, K
<1> QED BY <1>3, <1>4, <1>5, <1>6, <1>7, <1>8, <1>9, <1>10 DEF Next

-----------------------------------------------------------------------------
(* A trip on board is only given up for one that is no earlier from here
   back.                                                                    *)
LEMMA ChangeForTheBetter ==
  ASSUME SearchInv, ScanPosition, FirstOutFirstIn(tt), scan.trip # 0,
         scan.pos # 1
  PROVE  LET pattern == tt.patterns[scan.pattern]
         IN  /\ scan'.trip # 0
             /\ \A b \in DOMAIN pattern.stops : b < scan.pos =>
                  pattern.trips[scan'.trip].departures[b]
                    >= pattern.trips[scan.trip].departures[b]
<1> DEFINE pattern   == tt.patterns[scan.pattern]
           candidate == Candidate(pattern, pattern.stops[scan.pos])
<1>1. /\ scan.pattern \in DOMAIN tt.patterns /\ tt \in Timetables
      /\ scan.pos \in DOMAIN pattern.stops
      /\ scan.trip \in DOMAIN pattern.trips
  BY Zenon DEF SearchInv, TypeOK, ScanInv, OnBoard, ScanPosition
<1>2. scan'.trip = IF IsBetter(pattern, candidate) THEN candidate ELSE scan.trip
  BY ScanMoves, Zenon
<1>3. CASE IsBetter(pattern, candidate)
  <2>1. /\ candidate # 0
        /\ pattern.trips[candidate].arrivals[scan.pos]
              > pattern.trips[scan.trip].arrivals[scan.pos]
    BY <1>3, Zenon DEF IsBetter
  <2>2. candidate = LatestAlightable(pattern, scan.pos,
                      AlightReady(Prev[pattern.stops[scan.pos]]), query)
    BY <2>1, Zenon DEF Candidate
  <2>3. candidate \in DOMAIN pattern.trips
    BY <1>1, <2>1, <2>2, AlightableTrip, Zenon
  <2> HIDE DEF candidate
  <2>4. /\ pattern.trips[candidate].arrivals[scan.pos] \in Nat
        /\ pattern.trips[scan.trip].arrivals[scan.pos] \in Nat
    BY <1>1, <2>3, TripFacts
  <2>5. pattern.trips[candidate].arrivals[scan.pos]
          >= pattern.trips[scan.trip].arrivals[scan.pos]
    <3> HIDE DEF pattern
    <3> QED BY <2>1, <2>4
  <2>6. \A b \in DOMAIN pattern.stops : b < scan.pos =>
          pattern.trips[candidate].departures[b] >= pattern.trips[scan.trip].departures[b]
    BY <1>1, <2>3, <2>5, OrderKept
  <2> QED BY <1>2, <1>3, <2>1, <2>6
<1>4. CASE ~IsBetter(pattern, candidate)
  <2>1. scan'.trip = scan.trip
    BY <1>2, <1>4
  <2>2. \A b \in DOMAIN pattern.stops : pattern.trips[scan.trip].departures[b] \in Nat
    BY <1>1, TripFacts
  <2> QED BY <2>1, <2>2
<1> QED BY <1>3, <1>4

(* Whatever could be left here, the trip on board after this position leaves
   no earlier from the positions before.                                    *)
LEMMA BoardsTheBest ==
  ASSUME SearchInv, ScanPosition, FirstOutFirstIn(tt),
         scan.pos # 1,
         NEW i, Rideable(tt, query, Prev, scan.pattern, i, scan.pos)
  PROVE  LET pattern == tt.patterns[scan.pattern]
         IN  /\ scan'.trip # 0
             /\ \A b \in DOMAIN pattern.stops : b < scan.pos =>
                  pattern.trips[scan'.trip].departures[b] >= pattern.trips[i].departures[b]
<1> DEFINE pattern   == tt.patterns[scan.pattern]
           candidate == Candidate(pattern, pattern.stops[scan.pos])
           reaches(j) == pattern.trips[j].arrivals[scan.pos]
<1>1. /\ scan.pattern \in DOMAIN tt.patterns /\ tt \in Timetables
      /\ scan.pos \in DOMAIN pattern.stops
      /\ scan.trip # 0 => scan.trip \in DOMAIN pattern.trips
  BY Zenon DEF SearchInv, TypeOK, ScanInv, OnBoard, ScanPosition
<1>2. i \in DOMAIN pattern.trips /\ Prev[pattern.stops[scan.pos]].time # Neg
  BY Zenon DEF Rideable
<1>3. candidate = LatestAlightable(pattern, scan.pos,
                    AlightReady(Prev[pattern.stops[scan.pos]]), query)
  BY <1>2 DEF Candidate
<1>4. /\ candidate # 0 /\ candidate \in DOMAIN pattern.trips
      /\ reaches(candidate) >= reaches(i)
  BY <1>1, <1>3, LeavesLast, Zenon DEF FirstOutFirstIn
<1>5. scan'.trip = IF IsBetter(pattern, candidate) THEN candidate ELSE scan.trip
  BY ScanMoves, Zenon
<1> HIDE DEF candidate
<1>6. /\ scan'.trip # 0 /\ scan'.trip \in DOMAIN pattern.trips
      /\ reaches(scan'.trip) >= reaches(i)
  <2>1. CASE IsBetter(pattern, candidate)
    BY <1>4, <1>5, <2>1
  <2>2. CASE ~IsBetter(pattern, candidate)
    <3>1. scan'.trip = scan.trip /\ scan.trip # 0 /\ scan.trip \in DOMAIN pattern.trips
      BY <1>1, <1>4, <1>5, <2>2 DEF IsBetter
    <3>2. ~(reaches(candidate) > reaches(scan.trip))
      BY <1>4, <2>2, Zenon DEF IsBetter
    <3>3. reaches(candidate) \in Nat /\ reaches(scan.trip) \in Nat /\ reaches(i) \in Nat
      BY <1>1, <1>2, <1>4, <3>1, TripFacts, Zenon
    <3> HIDE DEF reaches
    <3>4. reaches(scan.trip) >= reaches(i)
      BY <1>4, <3>2, <3>3
    <3> QED BY <3>1, <3>4
  <2> QED BY <2>1, <2>2
<1>7. \A b \in DOMAIN pattern.stops : b < scan.pos =>
        pattern.trips[scan'.trip].departures[b] >= pattern.trips[i].departures[b]
  BY <1>1, <1>2, <1>6, OrderKept, Zenon
<1> QED BY <1>6, <1>7

-----------------------------------------------------------------------------
(* What can be ridden is kept from round to round.                         *)
LEMMA RidesInit == Init => RidesInv
BY DEF Init, RidesInv, RoundsKept, PatternsKept, K

LEMMA RoundsStay ==
  ASSUME RoundsKept, tt' = tt, query' = query, rounds' = rounds
  PROVE  RoundsKept'
<1>1. \A k \in 1 .. K - 1 : \A p \in DOMAIN tt.patterns :
        PatternKept(tt, query, rounds[k], rounds[k + 1], p)
  BY DEF RoundsKept
<1>2. K' = K
  BY DEF K
<1> QED BY <1>1, <1>2 DEF RoundsKept

LEMMA RidesStartRound ==
  ASSUME SearchInv, MarksInv, RidesInv, FirstOutFirstIn(tt), StartRound
  PROVE  RidesInv'
<1>1. /\ tt' = tt /\ query' = query /\ rounds' = rounds
      /\ pc = "round" /\ pc' = "patterns"
      /\ cur' = Prev /\ touched' = Touched(tt, marked) /\ Prev' = Prev
  BY DEF StartRound, Prev, K
<1>2. RoundsKept'
  BY <1>1, RoundsStay DEF RidesInv
<1>3. ASSUME NEW p \in DOMAIN tt.patterns \ Touched(tt, marked)
      PROVE  PatternKept(tt, query, Prev, Prev, p)
  <2>1. \A a \in DOMAIN tt.patterns[p].stops : tt.patterns[p].stops[a] \notin marked
    BY <1>3 DEF Touched, MarkedPositions
  <2>2. ASSUME NEW i \in DOMAIN tt.patterns[p].trips,
               NEW a \in DOMAIN tt.patterns[p].stops,
               NEW b \in DOMAIN tt.patterns[p].stops,
               b < a, Rideable(tt, query, Prev, p, i, a)
        PROVE  AsLate(tt, Prev, p, i, b)
    BY <1>1, <2>1, <2>2, UnmarkedIsKept
  <2> QED BY <2>2 DEF PatternKept
<1> QED BY <1>1, <1>2, <1>3 DEF RidesInv, PatternsKept

LEMMA RidesSkipPattern ==
  ASSUME SearchInv, RidesInv, FirstOutFirstIn(tt), SkipPattern
  PROVE  RidesInv'
<1> DEFINE p == Min(touched)
<1>1. /\ tt' = tt /\ query' = query /\ rounds' = rounds /\ cur' = cur
      /\ pc = "patterns" /\ pc' = "patterns"
      /\ touched' = touched \ {p} /\ Prev' = Prev
      /\ ~PatternAllowed(tt.patterns[p], query)
  BY DEF SkipPattern, Prev, K
<1>2. RoundsKept'
  BY <1>1, RoundsStay DEF RidesInv
<1> HIDE DEF p
<1>3. PatternKept(tt, query, Prev, cur, p)
  BY <1>1 DEF PatternKept, Rideable
<1> QED BY <1>1, <1>2, <1>3 DEF RidesInv, PatternsKept

LEMMA RidesStartPattern ==
  ASSUME SearchInv, MarksInv, RidesInv, FirstOutFirstIn(tt), StartPattern
  PROVE  RidesInv'
<1> DEFINE p     == Min(touched)
           last  == LastMarked(tt.patterns[p])
           stops == tt.patterns[p].stops
<1>1. /\ tt' = tt /\ query' = query /\ rounds' = rounds /\ cur' = cur
      /\ pc = "patterns" /\ pc' = "scan"
      /\ touched' = touched \ {p} /\ Prev' = Prev
      /\ scan'.pattern = p /\ scan'.pos = last /\ scan'.trip = 0
  BY DEF StartPattern, Prev, K
<1>2. RoundsKept'
  BY <1>1, RoundsStay DEF RidesInv
<1>3. PatternsKept'
  BY <1>1 DEF RidesInv, PatternsKept
<1>4. p \in DOMAIN tt.patterns /\ tt \in Timetables
  BY MinOfNats DEF StartPattern, SearchInv, TypeOK, LoopsInv
<1>5. ASSUME NEW a \in DOMAIN stops, stops[a] \in marked
      PROVE  ~(a > last)
  <2>1. stops \in Seq(Stops)
    BY <1>4, PatternFacts
  <2>2. /\ MarkedPositions(tt.patterns[p], marked) \in SUBSET (1 .. Len(stops))
        /\ Len(stops) \in Nat
    BY <2>1 DEF MarkedPositions
  <2>3. a \in MarkedPositions(tt.patterns[p], marked)
    BY <1>5 DEF MarkedPositions
  <2>4. last \in MarkedPositions(tt.patterns[p], marked) /\ a <= last
    BY <2>2, <2>3, MaxOfBounded DEF LastMarked
  <2> QED BY <2>2, <2>3, <2>4
<1>6. ASSUME NEW i \in DOMAIN tt.patterns[p].trips, NEW a \in DOMAIN stops,
             NEW b \in DOMAIN stops, b < a, a > last,
             Rideable(tt, query, Prev, p, i, a)
      PROVE  AsLate(tt, cur, p, i, b)
  <2>1. AsLate(tt, Prev, p, i, b)
    BY <1>1, <1>4, <1>5, <1>6, UnmarkedIsKept
  <2>2. \A s \in Stops : /\ cur[s].time \in Int /\ Prev[s].time \in Int
                         /\ cur[s].time >= Prev[s].time
    BY RoundTimes
  <2> HIDE DEF p
  <2> QED BY <1>4, <2>1, <2>2, KeptStays
<1> HIDE DEF p, last
<1>7. ScanKept'
  BY <1>1, <1>6 DEF ScanKept
<1> QED BY <1>1, <1>2, <1>3, <1>7 DEF RidesInv

LEMMA RidesRelaxWalks ==
  ASSUME SearchInv, RidesInv, FirstOutFirstIn(tt), RelaxWalks
  PROVE  RidesInv'
<1>1. /\ tt' = tt /\ query' = query /\ rounds' = rounds
      /\ pc = "walks" /\ pc' = "walks" /\ touched' = touched /\ Prev' = Prev
  BY DEF RelaxWalks, Prev, K
<1>2. RoundsKept'
  BY <1>1, RoundsStay DEF RidesInv
<1>3. \A s \in Stops : /\ cur[s].time \in Int /\ cur'[s].time \in Int
                       /\ cur'[s].time >= cur[s].time
  BY RoundTimes, RelaxWrites
<1>4. \A p \in DOMAIN tt.patterns \ touched : PatternKept(tt, query, Prev, cur, p)
  BY <1>1 DEF RidesInv, PatternsKept
<1>5. \A p \in DOMAIN tt.patterns \ touched : PatternKept(tt, query, Prev, cur', p)
  BY <1>3, <1>4, KeptStays, RoundTimes
<1> QED BY <1>1, <1>2, <1>5 DEF RidesInv, PatternsKept

LEMMA RidesEndRound ==
  ASSUME SearchInv, RidesInv, FirstOutFirstIn(tt), EndRound
  PROVE  RidesInv'
<1>1. /\ tt' = tt /\ query' = query
      /\ pc = "walks" /\ pc' \in {"collect", "round"} /\ touched = {}
      /\ K \in Nat \ {0} /\ K' = K + 1
      /\ rounds'[K + 1] = cur
      /\ \A k \in 1 .. K : rounds'[k] = rounds[k]
  BY EndRoundMoves
<1>2. ASSUME NEW k \in 1 .. K, NEW p \in DOMAIN tt.patterns
      PROVE  PatternKept(tt, query, rounds'[k], rounds'[k + 1], p)
  <2>1. CASE k = K
    BY <1>1, <2>1 DEF RidesInv, PatternsKept, Prev
  <2>2. CASE k # K
    <3>1. k \in 1 .. (K - 1) /\ k + 1 \in 1 .. K
      BY <1>1, <2>2
    <3> QED BY <1>1, <3>1 DEF RidesInv, RoundsKept
  <2> QED BY <2>1, <2>2
<1>3. RoundsKept'
  <2>1. \A k \in 1 .. (K' - 1) : k \in 1 .. K
    BY <1>1
  <2> QED BY <1>1, <1>2, <2>1 DEF RoundsKept
<1> QED BY <1>1, <1>3 DEF RidesInv, PatternsKept

(* One position further back, for a ride that is left after it.            *)
LEMMA ScannedOn ==
  ASSUME SearchInv, RidesInv, FirstOutFirstIn(tt), ScanPosition,
         NEW i \in DOMAIN tt.patterns[scan.pattern].trips,
         NEW a \in DOMAIN tt.patterns[scan.pattern].stops, a > scan.pos,
         Rideable(tt, query, Prev, scan.pattern, i, a)
  PROVE  LET p     == scan.pattern
             trips == tt.patterns[p].trips
             stops == tt.patterns[p].stops
         IN  \/ \A b \in DOMAIN stops : b < a => AsLate(tt, cur', p, i, b)
             \/ /\ scan.trip # 0
                /\ \A b \in DOMAIN stops : b < a =>
                     IF b >= scan.pos THEN AsLate(tt, cur', p, i, b)
                     ELSE trips[scan.trip].departures[b] >= trips[i].departures[b]
<1> DEFINE p     == scan.pattern
           trips == tt.patterns[p].trips
           stops == tt.patterns[p].stops
           stop  == stops[scan.pos]
           leaves == trips[scan.trip].departures[scan.pos]
<1>1. /\ p \in DOMAIN tt.patterns /\ tt \in Timetables /\ pc = "scan"
      /\ scan.pos \in DOMAIN stops
  BY Zenon DEF SearchInv, TypeOK, ScanInv, ScanPosition
<1>2. /\ \A s \in Stops : /\ cur[s].time \in Int /\ cur'[s].time \in Int
                          /\ cur'[s].time >= cur[s].time
      /\ scan.trip # 0 => leaves \in Nat /\ cur'[stop].time >= leaves
  <2>1. /\ \A s \in Stops : cur'[s].time \in Int /\ cur'[s].time >= cur[s].time
        /\ scan.trip # 0 => leaves \in Nat /\ cur'[stop].time >= leaves
    BY ScanWrites, Zenon
  <2>2. \A s \in Stops : cur[s].time \in Int
    BY RoundTimes
  <2> QED BY <2>1, <2>2, Zenon
<1>3. \A b \in DOMAIN stops : AsLate(tt, cur, p, i, b) => AsLate(tt, cur', p, i, b)
  BY <1>1, <1>2, KeptStays
<1>4. ScanKept
  BY <1>1 DEF RidesInv
<1>5. CASE \A b \in DOMAIN stops : b < a => AsLate(tt, cur, p, i, b)
  BY <1>3, <1>5
<1>6. CASE /\ scan.trip # 0
           /\ \A b \in DOMAIN stops : b < a =>
                IF b > scan.pos THEN AsLate(tt, cur, p, i, b)
                ELSE trips[scan.trip].departures[b] >= trips[i].departures[b]
  <2>1. ASSUME a > scan.pos
        PROVE  AsLate(tt, cur', p, i, scan.pos)
    <3>1. leaves >= trips[i].departures[scan.pos]
      <4>1. ~(scan.pos > scan.pos)
        BY <1>1, PatternFacts
      <4> QED BY <1>1, <1>6, <2>1, <4>1
    <3>2. /\ trips[i].departures[scan.pos] \in Nat /\ leaves \in Nat
          /\ cur'[stop].time >= leaves /\ cur'[stop].time \in Int
      <4>1. stop \in Stops
        BY <1>1, PatternFacts
      <4> QED BY <1>1, <1>2, <1>6, <4>1, TripFacts, Zenon
    <3>3. cur'[stop].time >= trips[i].departures[scan.pos]
      <4> HIDE DEF stop, leaves, trips
      <4> QED BY <3>1, <3>2
    <3> QED BY <3>3 DEF AsLate
  <2>2. ASSUME NEW b \in DOMAIN stops, b < a, b >= scan.pos
        PROVE  AsLate(tt, cur', p, i, b)
    <3>1. b \in Nat /\ scan.pos \in Nat
      BY <1>1, PatternFacts
    <3>2. CASE b = scan.pos
      BY <2>1, <2>2, <3>2
    <3>3. CASE b > scan.pos
      BY <1>3, <1>6, <2>2, <3>3
    <3> QED BY <2>2, <3>1, <3>2, <3>3
  <2>3. ASSUME NEW b \in DOMAIN stops, b < a, ~(b >= scan.pos)
        PROVE  trips[scan.trip].departures[b] >= trips[i].departures[b]
    <3>1. b \in Nat /\ scan.pos \in Nat
      BY <1>1, PatternFacts
    <3>2. ~(b > scan.pos)
      BY <2>3, <3>1
    <3> QED BY <1>6, <2>3, <3>2
  <2> QED BY <1>6, <2>2, <2>3
<1> QED BY <1>4, <1>5, <1>6, Zenon DEF ScanKept

LEMMA RidesScanPosition ==
  ASSUME SearchInv, RidesInv, FirstOutFirstIn(tt), ScanPosition
  PROVE  RidesInv'
<1> DEFINE p     == scan.pattern
           trips == tt.patterns[p].trips
           stops == tt.patterns[p].stops
           last  == scan.pos = 1
<1>1. /\ tt' = tt /\ query' = query /\ rounds' = rounds /\ Prev' = Prev
      /\ touched' = touched /\ pc = "scan"
      /\ pc' = IF last THEN "patterns" ELSE "scan"
      /\ ~last => scan'.pattern = p /\ scan'.pos = scan.pos - 1
  BY ScanMoves, Zenon
<1>2. /\ p \in DOMAIN tt.patterns /\ tt \in Timetables
      /\ scan.pos \in DOMAIN stops
  BY <1>1, Zenon DEF SearchInv, TypeOK, ScanInv
<1>3. DOMAIN stops = 1 .. Len(stops) /\ Len(stops) \in Nat /\ scan.pos \in Nat
  BY <1>2, PatternFacts
<1>4. \A s \in Stops : /\ cur[s].time \in Int /\ cur'[s].time \in Int
                       /\ cur'[s].time >= cur[s].time
  <2>1. \A s \in Stops : cur'[s].time \in Int /\ cur'[s].time >= cur[s].time
    BY ScanWrites, Zenon
  <2> QED BY <2>1, RoundTimes
<1>5. RoundsKept'
  BY <1>1, RoundsStay DEF RidesInv
<1>6. ASSUME NEW r \in DOMAIN tt.patterns \ touched, r # p
      PROVE  PatternKept(tt, query, Prev, cur', r)
  <2>1. PatternKept(tt, query, Prev, cur, r)
    BY <1>1, <1>6 DEF RidesInv, PatternsKept
  <2> QED BY <1>2, <1>4, <2>1, KeptStays
<1>7. CASE last
  <2>1. ASSUME NEW i \in DOMAIN trips, NEW a \in DOMAIN stops, NEW b \in DOMAIN stops,
               b < a, Rideable(tt, query, Prev, p, i, a)
        PROVE  AsLate(tt, cur', p, i, b)
    <3>1. a > scan.pos /\ b >= scan.pos
      <4> HIDE DEF stops
      <4> QED BY <1>3, <1>7, <2>1
    <3> HIDE DEF p
    <3> QED BY <2>1, <3>1, ScannedOn DEF p
  <2>2. PatternKept(tt, query, Prev, cur', p)
    BY <2>1 DEF PatternKept
  <2> QED BY <1>1, <1>5, <1>6, <1>7, <2>2 DEF RidesInv, PatternsKept
<1>8. CASE ~last
  <2>1. ASSUME NEW i \in DOMAIN trips, NEW a \in DOMAIN stops,
               a > scan.pos - 1, Rideable(tt, query, Prev, p, i, a)
        PROVE  \/ \A b \in DOMAIN stops : b < a => AsLate(tt, cur', p, i, b)
               \/ /\ scan'.trip # 0
                  /\ \A b \in DOMAIN stops : b < a =>
                       IF b > scan.pos - 1 THEN AsLate(tt, cur', p, i, b)
                       ELSE trips[scan'.trip].departures[b] >= trips[i].departures[b]
    <3>1. \A b \in DOMAIN stops : b > scan.pos - 1 <=> b >= scan.pos
      <4> HIDE DEF stops
      <4> QED BY <1>3
    <3>2. CASE a = scan.pos
      <4>1. /\ scan'.trip # 0
            /\ \A b \in DOMAIN stops : b < scan.pos =>
                 trips[scan'.trip].departures[b] >= trips[i].departures[b]
        BY <1>8, <2>1, <3>2, BoardsTheBest
      <4>2. \A b \in DOMAIN stops : b < a => ~(b > scan.pos - 1)
        <5> HIDE DEF stops
        <5> QED BY <1>3, <3>2
      <4> QED BY <3>2, <4>1, <4>2
    <3>3. CASE a > scan.pos
      <4>1. CASE \A b \in DOMAIN stops : b < a => AsLate(tt, cur', p, i, b)
        BY <4>1
      <4>2. CASE /\ scan.trip # 0
                 /\ \A b \in DOMAIN stops : b < a =>
                      IF b >= scan.pos THEN AsLate(tt, cur', p, i, b)
                      ELSE trips[scan.trip].departures[b] >= trips[i].departures[b]
        <5>1. /\ scan'.trip # 0
              /\ \A b \in DOMAIN stops : b < scan.pos =>
                   trips[scan'.trip].departures[b] >= trips[scan.trip].departures[b]
          BY <1>8, <4>2, ChangeForTheBetter
        <5>2. scan.trip \in DOMAIN trips
          BY <1>1, <4>2, Zenon DEF SearchInv, ScanInv, OnBoard
        <5>3. ASSUME NEW b \in DOMAIN stops, b < a, ~(b >= scan.pos)
              PROVE  trips[scan'.trip].departures[b] >= trips[i].departures[b]
          <6>1. b < scan.pos
            <7> HIDE DEF stops
            <7> QED BY <1>3, <5>3
          <6>2. /\ trips[scan'.trip].departures[b] >= trips[scan.trip].departures[b]
                /\ trips[scan.trip].departures[b] >= trips[i].departures[b]
            BY <4>2, <5>1, <5>3, <6>1
          <6>3. scan'.trip \in DOMAIN trips
            <7>1. ScanInv'
              BY NextInv DEF SearchInv, Next
            <7> QED BY <1>1, <1>8, <5>1, <7>1, Zenon DEF ScanInv, OnBoard
          <6>4. /\ trips[scan'.trip].departures[b] \in Nat
                /\ trips[scan.trip].departures[b] \in Nat
                /\ trips[i].departures[b] \in Nat
            BY <1>2, <5>2, <6>3, TripFacts
          <6> HIDE DEF trips
          <6> QED BY <6>2, <6>4
        <5> QED BY <3>1, <4>2, <5>1, <5>3
      <4> QED BY <2>1, <3>3, <4>1, <4>2, ScannedOn, Zenon
    <3>4. a = scan.pos \/ a > scan.pos
      <4> HIDE DEF stops
      <4> QED BY <1>3, <2>1
    <3> QED BY <3>2, <3>3, <3>4
  <2> HIDE DEF p
  <2>2. /\ scan'.pattern = p /\ scan'.pos = scan.pos - 1
        /\ tt' = tt /\ query' = query /\ Prev' = Prev
    BY <1>1, <1>8
  <2>3. ScanKept'
    BY <2>1, <2>2, SMTT(60) DEF ScanKept
  <2> QED BY <1>1, <1>5, <1>6, <1>8, <2>3 DEF RidesInv, PatternsKept
<1> QED BY <1>7, <1>8

LEMMA RidesStep ==
  ASSUME SearchInv, MarksInv, RidesInv, [Next]_vars
  PROVE  RidesInv'
<1> SUFFICES ASSUME FirstOutFirstIn(tt') PROVE RidesInv'
  BY DEF RidesInv
<1>1. tt' = tt
  BY Zenon DEF Next, vars, StartRound, LastRoundDone, SkipPattern, StartPattern,
         ScanPosition, StartWalks, RelaxWalks, EndRound, SkipRound, StartTrace,
         TraceRide, TraceWalk, EndTrace, Answer
<1>2. FirstOutFirstIn(tt)
  BY <1>1
<1>3. CASE StartRound
  BY <1>2, <1>3, RidesStartRound
<1>4. CASE SkipPattern
  BY <1>2, <1>4, RidesSkipPattern
<1>5. CASE StartPattern
  BY <1>2, <1>5, RidesStartPattern
<1>6. CASE ScanPosition
  BY <1>2, <1>6, RidesScanPosition
<1>7. CASE StartWalks
  <2>1. /\ tt' = tt /\ query' = query /\ rounds' = rounds /\ Prev' = Prev
        /\ cur' = cur /\ touched' = touched /\ pc = "patterns" /\ pc' = "walks"
    BY <1>7 DEF StartWalks, Prev, K
  <2>2. RoundsKept'
    BY <1>2, <2>1, RoundsStay DEF RidesInv
  <2> QED BY <1>2, <2>1, <2>2 DEF RidesInv, PatternsKept
<1>8. CASE RelaxWalks
  BY <1>2, <1>8, RidesRelaxWalks
<1>9. CASE EndRound
  BY <1>2, <1>9, RidesEndRound
<1>10. CASE \/ LastRoundDone \/ SkipRound \/ StartTrace \/ TraceRide \/ TraceWalk
            \/ EndTrace \/ Answer
  <2>1. /\ query' = query /\ rounds' = rounds
        /\ pc' \notin {"patterns", "scan", "walks"}
    BY <1>10 DEF LastRoundDone, SkipRound, StartTrace, TraceRide, TraceWalk,
                 EndTrace, Answer
  <2>2. RoundsKept'
    BY <1>1, <1>2, <2>1, RoundsStay DEF RidesInv
  <2> QED BY <2>1, <2>2 DEF RidesInv, PatternsKept
<1>11. CASE UNCHANGED vars
  BY <1>11 DEF vars, RidesInv, RoundsKept, PatternsKept, ScanKept, Prev, K
<1> QED BY <1>3, <1>4, <1>5, <1>6, <1>7, <1>8, <1>9, <1>10, <1>11 DEF Next

-----------------------------------------------------------------------------
LEMMA KeptInvariance == Spec => []KeptInv
<1>1. Init => KeptInv
  BY InitInv, MarksInit, RidesInit, WalksInit DEF KeptInv
<1>2. KeptInv /\ [Next]_vars => KeptInv'
  BY NextInv, MarksStep, RidesStep, WalksStep DEF KeptInv
<1> QED BY <1>1, <1>2, PTL DEF Spec

(* The reference would leave a ride for a label when the search would.     *)
LEMMA ArrivalFacts ==
  ASSUME NEW label, NEW s, NEW n
  PROVE  LET a == AsArrival(label, s, n)
         IN  /\ a.stop = s /\ a.time = label.time
             /\ LeaveBy(a) = AlightReady(label)
<1> DEFINE a == AsArrival(label, s, n)
<1>1. a.stop = s /\ a.time = label.time
  BY DEF AsArrival, Arrival
<1>2. a.kind = "ride" <=> label.parent.kind = "board"
  <2>1. CASE label.parent.kind = "board"
    BY <2>1 DEF AsArrival, Arrival
  <2>2. CASE label.parent.kind = "transfer"
    BY <2>2 DEF AsArrival, Arrival
  <2>3. CASE label.parent.kind \notin {"board", "transfer"}
    BY <2>3 DEF AsArrival, Arrival
  <2> QED BY <2>1, <2>2, <2>3
<1> HIDE DEF a
<1>3. LeaveBy(a) = AlightReady(label)
  BY <1>1, <1>2 DEF LeaveBy, AlightReady
<1> QED BY <1>1, <1>3 DEF a

(* A ride of the reference is a trip of a pattern, boarded and left.       *)
LEMMA RideToFacts ==
  ASSUME NEW t, NEW qu, NEW a, NEW r \in RidesTo(t, qu, a)
  PROVE  \E p \in DOMAIN t.patterns :
           LET stops == t.patterns[p].stops
               trips == t.patterns[p].trips
           IN  /\ PatternAllowed(t.patterns[p], qu)
               /\ \E i \in DOMAIN trips, b, c \in DOMAIN stops :
                    /\ Boardable(trips[i], qu)
                    /\ stops[c] = a.stop
                    /\ trips[i].arrivals[c] <= LeaveBy(a)
                    /\ b < c
                    /\ r.stop = stops[b] /\ r.time = trips[i].departures[b]
<1> DEFINE stops(p) == t.patterns[p].stops
           trips(p) == t.patterns[p].trips
           found(p) == {y \in (DOMAIN trips(p)) \X (DOMAIN stops(p)) \X (DOMAIN stops(p)) :
                         /\ Boardable(trips(p)[y[1]], qu)
                         /\ stops(p)[y[3]] = a.stop
                         /\ trips(p)[y[1]].arrivals[y[3]] <= LeaveBy(a)
                         /\ y[2] < y[3]}
           rides(p) == {Arrival(stops(p)[x[2]], trips(p)[x[1]].departures[x[2]],
                                "ride", a.rides + 1) : x \in found(p)}
<1>1. PICK p \in {q \in DOMAIN t.patterns : PatternAllowed(t.patterns[q], qu)} :
        r \in rides(p)
  BY Zenon DEF RidesTo
<1>2. PICK x \in found(p) :
        r = Arrival(stops(p)[x[2]], trips(p)[x[1]].departures[x[2]], "ride", a.rides + 1)
  <2> HIDE DEF found
  <2> QED BY <1>1
<1>3. /\ x[1] \in DOMAIN trips(p) /\ x[2] \in DOMAIN stops(p) /\ x[3] \in DOMAIN stops(p)
      /\ Boardable(trips(p)[x[1]], qu)
      /\ stops(p)[x[3]] = a.stop
      /\ trips(p)[x[1]].arrivals[x[3]] <= LeaveBy(a)
      /\ x[2] < x[3]
  <2> HIDE DEF stops, trips
  <2> QED BY <1>2
<1>4. r.stop = stops(p)[x[2]] /\ r.time = trips(p)[x[1]].departures[x[2]]
  BY <1>2, Zenon DEF Arrival
<1> QED BY <1>1, <1>3, <1>4, Zenon

LEMMA RidesAreKept ==
  ASSUME KeptInv, FirstOutFirstIn(tt), NEW k \in 1 .. (Len(rounds) - 1)
  PROVE  RidesKept(k)
<1> SUFFICES ASSUME NEW a \in ArrivalsOf(rounds[k], k - 1),
                    NEW r \in RidesTo(tt, query, a)
             PROVE  rounds[k + 1][r.stop].time >= r.time
  BY DEF RidesKept
<1>1. PICK s \in Stops : /\ rounds[k][s].time # Neg
                         /\ a = AsArrival(rounds[k][s], s, k - 1)
  BY DEF ArrivalsOf
<1>2. a.stop = s /\ LeaveBy(a) = AlightReady(rounds[k][s])
  BY <1>1, ArrivalFacts
<1>3. PICK p \in DOMAIN tt.patterns :
        LET stops == tt.patterns[p].stops
            trips == tt.patterns[p].trips
        IN  /\ PatternAllowed(tt.patterns[p], query)
            /\ \E i \in DOMAIN trips, b, c \in DOMAIN stops :
                 /\ Boardable(trips[i], query)
                 /\ stops[c] = a.stop
                 /\ trips[i].arrivals[c] <= LeaveBy(a)
                 /\ b < c
                 /\ r.stop = stops[b] /\ r.time = trips[i].departures[b]
  BY RideToFacts
<1>4. PICK i \in DOMAIN tt.patterns[p].trips, b \in DOMAIN tt.patterns[p].stops,
           c \in DOMAIN tt.patterns[p].stops :
        /\ Boardable(tt.patterns[p].trips[i], query)
        /\ tt.patterns[p].stops[c] = a.stop
        /\ tt.patterns[p].trips[i].arrivals[c] <= LeaveBy(a)
        /\ b < c
        /\ r.stop = tt.patterns[p].stops[b]
        /\ r.time = tt.patterns[p].trips[i].departures[b]
  BY <1>3, Zenon
<1>5. Rideable(tt, query, rounds[k], p, i, c)
  BY <1>1, <1>2, <1>3, <1>4 DEF Rideable
<1>6. PatternKept(tt, query, rounds[k], rounds[k + 1], p)
  BY DEF KeptInv, RidesInv, RoundsKept, K
<1>7. AsLate(tt, rounds[k + 1], p, i, b)
  BY <1>4, <1>5, <1>6 DEF PatternKept
<1> QED BY <1>4, <1>7 DEF AsLate

LEMMA WalksAreKept ==
  ASSUME KeptInv, NEW k \in DOMAIN rounds
  PROVE  WalksKept(k)
<1> SUFFICES ASSUME NEW s \in Stops, Ridden(rounds[k], s, k - 1),
                    NEW w \in WalksTo(tt, AsArrival(rounds[k][s], s, k - 1))
             PROVE  rounds[k][w.stop].time >= w.time
  BY DEF WalksKept, Ridden
<1> DEFINE a == AsArrival(rounds[k][s], s, k - 1)
<1>1. a.stop = s /\ a.time = rounds[k][s].time
  BY ArrivalFacts
<1> HIDE DEF a
<1>2. PICK e \in DOMAIN tt.walks :
        e[2] = a.stop /\ w = Arrival(e[1], a.time - tt.walks[e], "walk", a.rides)
  BY DEF WalksTo, a
<1>3. w.stop = e[1] /\ w.time = a.time - tt.walks[e]
  BY <1>2 DEF Arrival
<1>4. /\ e[1] \in Stops
      /\ <<s, e[1]>> \in DOMAIN tt.walks
      /\ tt.walks[<<s, e[1]>>] = tt.walks[e]
  <2>1. WalksAreTransfers(tt.walks)
    BY TimetablesAssumption DEF KeptInv, SearchInv, TypeOK, WellFormedTimetable
  <2>2. e \in Stops \X Stops /\ <<e[2], e[1]>> \in DOMAIN tt.walks
        /\ tt.walks[<<e[2], e[1]>>] = tt.walks[e]
    BY <2>1, Zenon DEF WalksAreTransfers
  <2> QED BY <1>1, <1>2, <2>2
<1>5. WalkedFrom(tt, rounds[k], s)
  BY DEF KeptInv, WalksInv
<1> QED BY <1>1, <1>3, <1>4, <1>5 DEF WalkedFrom

(* Marking loses nothing going back in time either: the scan of the touched
   patterns, from their last marked position down and with one trip on board,
   leaves wherever any ride does and no earlier; and every stop that a ride of
   a round can be boarded at is walked to in that round.                    *)
THEOREM MarkingLosesNothing == Spec => []NothingMissed
<1>1. KeptInv => NothingMissed
  <2> SUFFICES ASSUME KeptInv PROVE NothingMissed
    OBVIOUS
  <2>1. FirstOutFirstIn(tt) => \A k \in 1 .. (Len(rounds) - 1) : RidesKept(k)
    BY RidesAreKept
  <2>2. \A k \in DOMAIN rounds : WalksKept(k)
    BY WalksAreKept
  <2> QED BY <2>1, <2>2 DEF NothingMissed
<1> QED BY <1>1, KeptInvariance, PTL

-----------------------------------------------------------------------------
(***************************************************************************)
(* Proof that every journey can be travelled when it leaves just in time,  *)
(* and arrives as it says.  What a trace has found is a journey from an    *)
(* access link to the label it is at, in time for that label: each step    *)
(* adds a leg behind.  How long the legs in front of the first ride take   *)
(* tells when the journey leaves.                                          *)
(***************************************************************************)

(* LeavesAt and RealArrival, of any timetable and query.                   *)
Leaving(t, qu, legs) ==
  IF Rides(legs) = {} THEN qu.time - SumWalks(legs)
  ELSE LET first == Min(Rides(legs))
       IN  BoardTime(t, legs[first]) - SumWalks(SubSeq(legs, 1, first - 1))

Arriving(t, qu, legs) ==
  IF Rides(legs) = {} THEN qu.time
  ELSE LET last == Max(Rides(legs))
       IN  AlightTime(t, legs[last]) + SumWalks(SubSeq(legs, last + 1, Len(legs)))

LEMMA LeavingArriving ==
  /\ \A legs : LeavesAt(legs) = Leaving(tt, query, legs)
  /\ \A legs : RealArrival(legs) = Arriving(tt, query, legs)
BY Zenon DEF LeavesAt, RealArrival, Leaving, Arriving

(* Whoever sets out on these legs at start is through with them at now: just
   in time for the first ride; without a ride there is nothing to be in time
   for.                                                                    *)
Paced(t, qu, legs, start, now) ==
  IF Rides(legs) = {} THEN now = start + SumWalks(legs)
  ELSE start = Leaving(t, qu, legs) /\ now = Arriving(t, qu, legs)

LEMMA PacedOnFoot ==
  ASSUME NEW t, NEW qu, NEW legs \in Seq(Legs), NEW leg \in Legs, ~IsRide(leg),
         NEW start \in Int, NEW now \in Int, Paced(t, qu, legs, start, now),
         \A i \in Rides(legs) : AlightTime(t, legs[i]) \in Int
  PROVE  Paced(t, qu, Append(legs, leg), start, now + leg.duration)
<1> DEFINE all == Append(legs, leg)
<1>1. Rides(all) = Rides(legs)
  BY RidesOfMore
<1>2. CASE Rides(legs) = {}
  <2>1. /\ SumWalks(legs) \in Int /\ leg.duration \in Nat
        /\ SumWalks(all) = SumWalks(legs) + leg.duration
    BY <1>2, OneMoreWalk
  <2>2. now = start + SumWalks(legs)
    BY <1>2 DEF Paced
  <2>3. now + leg.duration = start + SumWalks(all)
    <3> HIDE DEF all
    <3> QED BY <2>1, <2>2
  <2> QED BY <1>1, <1>2, <2>3 DEF Paced
<1>3. CASE Rides(legs) # {}
  <2> DEFINE f   == Min(Rides(legs))
             m   == Max(Rides(legs))
             end == SubSeq(legs, m + 1, Len(legs))
  <2>1. start = Leaving(t, qu, legs) /\ now = Arriving(t, qu, legs)
    BY <1>3 DEF Paced
  <2>2. all[f] = legs[f] /\ SubSeq(all, 1, f - 1) = SubSeq(legs, 1, f - 1)
    BY <1>3, FirstRideStays
  <2>3. Leaving(t, qu, all) = Leaving(t, qu, legs)
    BY <1>1, <1>3, <2>2 DEF Leaving
  <2>4. /\ m \in Rides(legs) /\ all[m] = legs[m]
        /\ end \in Seq(Legs) /\ Rides(end) = {}
        /\ SubSeq(all, m + 1, Len(all)) = Append(end, leg)
    BY <1>3, LastRideStays
  <2>5. Arriving(t, qu, legs) = AlightTime(t, legs[m]) + SumWalks(end)
    BY <1>3 DEF Arriving
  <2>6. Arriving(t, qu, all) = AlightTime(t, legs[m]) + SumWalks(Append(end, leg))
    BY <1>1, <1>3, <2>4 DEF Arriving
  <2> HIDE DEF end, m
  <2>7. /\ SumWalks(end) \in Int /\ leg.duration \in Nat
        /\ SumWalks(Append(end, leg)) = SumWalks(end) + leg.duration
    BY <2>4, OneMoreWalk
  <2>8. Arriving(t, qu, all) = now + leg.duration
    <3> HIDE DEF all
    <3>1. AlightTime(t, legs[m]) \in Int
      BY <2>4
    <3> QED BY <2>1, <2>5, <2>6, <2>7, <3>1
  <2> QED BY <1>1, <1>3, <2>1, <2>3, <2>8 DEF Paced
<1> QED BY <1>2, <1>3

LEMMA PacedOnBoard ==
  ASSUME NEW t, NEW qu, NEW legs \in Seq(Legs), NEW leg \in Legs, IsRide(leg),
         NEW start \in Int, NEW now \in Int, Paced(t, qu, legs, start, now),
         AlightTime(t, leg) \in Int, BoardTime(t, leg) \in Int
  PROVE  Paced(t, qu, Append(legs, leg),
               IF Rides(legs) = {} THEN BoardTime(t, leg) - (now - start) ELSE start,
               AlightTime(t, leg))
<1> DEFINE all == Append(legs, leg)
<1>1. Arriving(t, qu, all) = AlightTime(t, leg) /\ Rides(all) # {}
  <2> DEFINE m == Max(Rides(all))
  <2>1. /\ Rides(all) # {} /\ all[m] = leg
        /\ SubSeq(all, m + 1, Len(all)) = <<>>
    BY LastRide
  <2>2. Arriving(t, qu, all) = AlightTime(t, leg) + SumWalks(<<>>)
    BY <2>1 DEF Arriving
  <2> HIDE DEF all
  <2> QED BY <2>1, <2>2, NoWalks
<1>2. CASE Rides(legs) = {}
  <2> DEFINE m == Min(Rides(all))
  <2>1. all[m] = leg /\ SubSeq(all, 1, m - 1) = legs
    BY <1>2, FirstRide
  <2>2. Leaving(t, qu, all) = BoardTime(t, leg) - SumWalks(legs)
    BY <1>1, <2>1 DEF Leaving
  <2>3. now = start + SumWalks(legs)
    BY <1>2 DEF Paced
  <2>4. SumWalks(legs) \in Int
    BY <1>2, SumOfWalks
  <2>5. Leaving(t, qu, all) = BoardTime(t, leg) - (now - start)
    <3> HIDE DEF all
    <3> QED BY <2>2, <2>3, <2>4
  <2> QED BY <1>1, <1>2, <2>5 DEF Paced
<1>3. CASE Rides(legs) # {}
  <2> DEFINE f == Min(Rides(legs))
  <2>1. start = Leaving(t, qu, legs)
    BY <1>3 DEF Paced
  <2>2. /\ Min(Rides(all)) = f /\ all[f] = legs[f]
        /\ SubSeq(all, 1, f - 1) = SubSeq(legs, 1, f - 1)
    BY <1>3, FirstRideStays
  <2>3. Leaving(t, qu, all) = Leaving(t, qu, legs)
    BY <1>1, <1>3, <2>2 DEF Leaving
  <2> QED BY <1>1, <1>3, <2>1, <2>3 DEF Paced
<1> QED BY <1>2, <1>3

-----------------------------------------------------------------------------
(***************************************************************************)
(* Where walks are closed, a label on foot stays as late as the label      *)
(* walked to allows: the label it leads to is changed by rides alone, and  *)
(* then relaxes its walks again.                                           *)
(***************************************************************************)

(* A label on foot is as late as the label walked to allows.               *)
JustWalked(labels, s) ==
  LET p == labels[s].parent
  IN  p.kind = "transfer" => labels[s].time = labels[p.from].time - p.duration

(* Where walks are closed, labels on foot keep up with those they lead to:
   whatever a ride makes later is still to be walked to.                   *)
PunctualInv ==
  WalksClosed(tt.walks) =>
    /\ \A k \in DOMAIN rounds, s \in Stops : JustWalked(rounds[k], s)
    /\ \A s \in Stops :
         \/ JustWalked(cur, s)
         \/ pc \in {"patterns", "scan"} /\ cur[s].parent.from \in nextMarked
         \/ pc = "walks" /\ cur[s].parent.from \in relaxing

(* A label on foot leads to a later one by a walk of the timetable.        *)
LEMMA WalkedLabel ==
  ASSUME NEW t \in Timetables, NEW qu, NEW before, NEW k, NEW labels \in [Stops -> Labels],
         NEW s \in Stops, Supported(t, qu, before, k, labels, s),
         labels[s].parent.kind = "transfer"
  PROVE  LET p == labels[s].parent
         IN  /\ <<p.from, s>> \in DOMAIN t.walks
             /\ p.duration = t.walks[<<p.from, s>>]
             /\ p.from \in Stops /\ p.duration \in Nat
             /\ labels[p.from].time - p.duration >= labels[s].time
<1> DEFINE p == labels[s].parent
<1>1. labels[s] # Unreached
  BY DEF Unreached, Label, NoParent
<1>2. labels[s] # EgressLabels(qu)[s]
  BY DEF EgressLabels, Unreached, Label, NoParent, Egress
<1>3. p.kind # "board"
  OBVIOUS
<1>4. /\ <<p.from, s>> \in DOMAIN t.walks
      /\ p.duration = t.walks[<<p.from, s>>]
      /\ labels[p.from].time - p.duration >= labels[s].time
  BY <1>1, <1>2, <1>3, Zenon DEF Supported
<1>5. p.from \in Stops
  <2>1. DOMAIN t.walks \subseteq Stops \X Stops
    BY TimetablesAssumption DEF WellFormedTimetable, WalksAreTransfers
  <2> QED BY <1>4, <2>1
<1>6. p.duration \in Nat
  BY <1>4, WalkFacts
<1> QED BY <1>4, <1>5, <1>6

LEMMA PunctualInit == Init => PunctualInv
<1> SUFFICES ASSUME Init PROVE PunctualInv
  OBVIOUS
<1>1. \A s \in Stops : JustWalked(EgressLabels(query), s)
  <2> SUFFICES ASSUME NEW s \in Stops PROVE EgressLabels(query)[s].parent.kind # "transfer"
    BY DEF JustWalked
  <2> QED BY DEF EgressLabels, Unreached, Label, NoParent, Egress
<1>2. rounds = <<EgressLabels(query)>> /\ cur = EgressLabels(query)
  BY DEF Init
<1> QED BY <1>1, <1>2 DEF PunctualInv

LEMMA PunctualRelaxWalks ==
  ASSUME SearchInv, PunctualInv, WalksClosed(tt.walks), RelaxWalks
  PROVE  \A t \in Stops : \/ JustWalked(cur', t)
                          \/ cur'[t].parent.from \in relaxing'
<1> DEFINE s == Min(relaxing)
           w(t) == tt.walks[<<s, t>>]
<1>1. s \in Stops /\ relaxing' = relaxing \ {s} /\ cur'[s] = cur[s] /\ pc = "walks"
  BY RelaxWrites, Zenon DEF RelaxWalks
<1>2. \A t \in Stops : cur'[t] =
        IF t \in WalkImproves(s) THEN Label(cur[s].time - w(t), Transfer(s, w(t)))
        ELSE cur[t]
  BY DEF RelaxWalks
<1>3. \A t \in WalkImproves(s) :
        /\ t \in Stops /\ <<s, t>> \in DOMAIN tt.walks
        /\ cur[s].time - w(t) > best[t]
        /\ cur[s].time - w(t) > cur[t].time
  BY DEF WalkImproves
<1>4. \A t \in Stops :
        /\ <<s, t>> \in DOMAIN tt.walks
        /\ cur[s].time - w(t) > best[t]
        /\ cur[s].time - w(t) > cur[t].time
        => t \in WalkImproves(s)
  BY DEF WalkImproves
<1> HIDE DEF s
<1>5. \A t \in Stops : /\ cur[t].time \in Int /\ best[t] \in Int
                       /\ cur[t].time >= best[t]
  <2>1. \A t \in Stops : cur[t].time \in Moments /\ best[t] \in Moments
    BY RoundFacts DEF SearchInv
  <2> QED BY <2>1 DEF SearchInv, BestInv, BestIsLatest, Moments
<1>6. \A e \in DOMAIN tt.walks : tt.walks[e] \in Nat /\ e \in Stops \X Stops
  <2>1. tt \in Timetables
    BY DEF SearchInv, TypeOK
  <2> QED BY <2>1, WalkFacts, TimetablesAssumption
          DEF WellFormedTimetable, WalksAreTransfers
<1> SUFFICES ASSUME NEW t \in Stops
             PROVE  JustWalked(cur', t) \/ cur'[t].parent.from \in relaxing'
  OBVIOUS
<1>7. CASE t \in WalkImproves(s)
  <2>0. cur'[t] = Label(cur[s].time - w(t), Transfer(s, w(t)))
    BY <1>2, <1>7, Zenon
  <2>1. cur'[t].parent = Transfer(s, w(t)) /\ cur'[t].time = cur[s].time - w(t)
    <3> HIDE DEF w
    <3> QED BY <2>0 DEF Label
  <2>2. cur'[t].parent.from = s /\ cur'[t].parent.duration = w(t)
    BY <2>1 DEF Transfer
  <2>3. cur'[s].time = cur[s].time
    BY <1>1
  <2> HIDE DEF w
  <2>4. cur'[t].time = cur'[cur'[t].parent.from].time - cur'[t].parent.duration
    BY <2>1, <2>2, <2>3
  <2> QED BY <2>4, Zenon DEF JustWalked
<1>8. CASE t \notin WalkImproves(s) /\ cur[t].parent.kind = "transfer"
  <2> DEFINE p == cur[t].parent.from
             d == cur[t].parent.duration
  <2>1. cur'[t] = cur[t]
    BY <1>2, <1>8
  <2>2. /\ <<p, t>> \in DOMAIN tt.walks /\ d = tt.walks[<<p, t>>]
        /\ p \in Stops /\ d \in Nat
        /\ cur[p].time - d >= cur[t].time
    <3>1. Supported(tt, query, rounds, K + 1, cur, t)
      BY DEF SearchInv, LabelsSupported
    <3>2. tt \in Timetables /\ cur \in [Stops -> Labels]
      BY DEF SearchInv, TypeOK
    <3> QED BY <1>8, <3>1, <3>2, WalkedLabel
  <2>3. cur[t].time = cur[p].time - d \/ p \in relaxing
    BY <1>1, <1>8 DEF PunctualInv, JustWalked
  <2>4. JustWalked(cur', t) <=> cur[t].time = cur'[p].time - d
    BY <1>8, <2>1 DEF JustWalked
  <2>5. cur[t].time \in Int /\ cur[p].time \in Int /\ cur[s].time \in Int
        /\ cur[t].time >= best[t] /\ best[t] \in Int
    BY <1>1, <1>5, <2>2
  <2> HIDE DEF p, d
  <2>6. CASE p = s
    <3>1. ~(cur[s].time - w(t) > best[t] /\ cur[s].time - w(t) > cur[t].time)
      BY <1>4, <1>8, <2>2, <2>6
    <3>2. w(t) = d
      BY <2>2, <2>6
    <3>3. cur[t].time = cur[s].time - d
      <4> HIDE DEF w
      <4> QED BY <2>2, <2>5, <2>6, <3>1, <3>2
    <3> QED BY <1>1, <2>4, <2>6, <3>3
  <2>7. CASE p # s /\ p \in relaxing
    BY <1>1, <2>1, <2>7 DEF p
  <2>8. CASE p # s /\ p \notin relaxing /\ p \notin WalkImproves(s)
    <3>1. cur'[p] = cur[p]
      BY <1>2, <2>2, <2>8
    <3> QED BY <2>3, <2>4, <2>8, <3>1
  <2>9. CASE p # s /\ p \notin relaxing /\ p \in WalkImproves(s)
    <3>1. /\ cur[t].time = cur[p].time - d
          /\ <<s, p>> \in DOMAIN tt.walks
          /\ cur[s].time - w(p) > cur[p].time
      BY <1>3, <2>3, <2>9
    <3>2. w(p) \in Nat
      BY <1>6, <3>1
    <3>3. t # s
      <4> HIDE DEF w
      <4> QED BY <2>2, <2>5, <3>1, <3>2
    <3>4. <<s, t>> \in DOMAIN tt.walks /\ w(t) <= w(p) + d
      <4>1. <<s, p>>[2] = <<p, t>>[1] /\ <<s, p>>[1] # <<p, t>>[2]
        BY <3>3
      <4> QED BY <2>2, <3>1, <4>1 DEF WalksClosed
    <3>5. w(t) \in Nat
      BY <1>6, <3>4
    <3>6. cur[s].time - w(t) > cur[t].time
      <4> HIDE DEF w
      <4> QED BY <2>2, <2>5, <3>1, <3>2, <3>4, <3>5
    <3>7. cur[s].time - w(t) > best[t]
      <4> HIDE DEF w
      <4> QED BY <2>5, <3>5, <3>6
    <3> QED BY <1>4, <1>8, <3>4, <3>6, <3>7
  <2> QED BY <2>6, <2>7, <2>8, <2>9
<1>9. CASE t \notin WalkImproves(s) /\ cur[t].parent.kind # "transfer"
  BY <1>2, <1>9 DEF JustWalked
<1> QED BY <1>7, <1>8, <1>9

LEMMA PunctualStep ==
  ASSUME SearchInv, PunctualInv, [Next]_vars
  PROVE  PunctualInv'
<1> SUFFICES ASSUME WalksClosed(tt'.walks) PROVE PunctualInv'
  BY DEF PunctualInv
<1>1. tt' = tt
  BY Zenon DEF Next, vars, StartRound, LastRoundDone, SkipPattern, StartPattern,
         ScanPosition, StartWalks, RelaxWalks, EndRound, SkipRound, StartTrace,
         TraceRide, TraceWalk, EndTrace, Answer
<1>2. /\ WalksClosed(tt.walks)
      /\ \A k \in DOMAIN rounds, s \in Stops : JustWalked(rounds[k], s)
      /\ \A s \in Stops :
           \/ JustWalked(cur, s)
           \/ pc \in {"patterns", "scan"} /\ cur[s].parent.from \in nextMarked
           \/ pc = "walks" /\ cur[s].parent.from \in relaxing
  BY <1>1 DEF PunctualInv
<1>3. CASE StartRound
  <2>1. rounds' = rounds /\ cur' = rounds[K]
    BY <1>3 DEF StartRound, Prev
  <2>2. K \in DOMAIN rounds
    BY RoundFacts DEF SearchInv
  <2> QED BY <1>2, <2>1, <2>2 DEF PunctualInv
<1>4. CASE ScanPosition
  <2>1. /\ rounds' = rounds /\ pc = "scan" /\ pc' \in {"patterns", "scan"}
    BY <1>4, ScanMoves, Zenon
  <2>2. /\ nextMarked \subseteq nextMarked'
        /\ \A s \in Stops : cur'[s] = cur[s] \/ (s \in nextMarked' /\ Ridden(cur', s, K))
    BY <1>4, ScanWrites, Zenon
  <2>3. ASSUME NEW s \in Stops
        PROVE  JustWalked(cur', s) \/ cur'[s].parent.from \in nextMarked'
    <3>1. CASE cur'[s] # cur[s] \/ cur[s].parent.kind # "transfer"
      BY <2>2, <3>1 DEF JustWalked, Ridden
    <3>2. CASE cur'[s] = cur[s] /\ cur[s].parent.kind = "transfer"
      <4> DEFINE p == cur[s].parent.from
      <4>1. p \in Stops
        <5>1. Supported(tt, query, rounds, K + 1, cur, s)
          BY DEF SearchInv, LabelsSupported
        <5>2. tt \in Timetables /\ cur \in [Stops -> Labels]
          BY DEF SearchInv, TypeOK
        <5> QED BY <3>2, <5>1, <5>2, WalkedLabel
      <4>2. CASE cur'[p] = cur[p]
        BY <1>2, <2>1, <2>2, <3>2, <4>2 DEF JustWalked
      <4>3. CASE cur'[p] # cur[p]
        BY <2>2, <3>2, <4>1, <4>3
      <4> QED BY <4>2, <4>3
    <3> QED BY <3>1, <3>2
  <2> QED BY <1>2, <2>1, <2>3 DEF PunctualInv
<1>5. CASE StartWalks
  <2>1. /\ rounds' = rounds /\ cur' = cur /\ relaxing' = nextMarked
        /\ pc = "patterns" /\ pc' = "walks"
    BY <1>5 DEF StartWalks
  <2> QED BY <1>2, <2>1 DEF PunctualInv
<1>6. CASE RelaxWalks
  <2>1. rounds' = rounds /\ pc' = "walks"
    BY <1>6 DEF RelaxWalks
  <2> QED BY <1>2, <1>6, <2>1, PunctualRelaxWalks DEF PunctualInv
<1>7. CASE EndRound
  <2>1. /\ pc = "walks" /\ relaxing = {} /\ cur' = cur /\ K \in Nat
        /\ DOMAIN rounds = 1 .. K /\ DOMAIN rounds' = 1 .. (K + 1)
        /\ rounds'[K + 1] = cur
        /\ \A k \in 1 .. K : rounds'[k] = rounds[k]
    BY <1>7, EndRoundMoves
  <2>2. \A s \in Stops : JustWalked(cur, s)
    BY <1>2, <2>1
  <2>3. ASSUME NEW k \in DOMAIN rounds', NEW s \in Stops
        PROVE  JustWalked(rounds'[k], s)
    <3>1. k \in 1 .. K \/ k = K + 1
      BY <2>1
    <3> QED BY <1>2, <2>1, <2>2, <3>1
  <2> QED BY <2>1, <2>2, <2>3 DEF PunctualInv
<1>8. CASE SkipPattern \/ StartPattern
  <2>1. /\ rounds' = rounds /\ cur' = cur /\ nextMarked' = nextMarked
        /\ pc = "patterns" /\ pc' \in {"patterns", "scan"}
    BY <1>8 DEF SkipPattern, StartPattern
  <2> QED BY <1>2, <2>1 DEF PunctualInv
<1>9. CASE \/ LastRoundDone \/ SkipRound \/ StartTrace \/ TraceRide \/ TraceWalk
           \/ EndTrace \/ Answer
  <2>1. /\ rounds' = rounds /\ cur' = cur
        /\ pc \notin {"patterns", "scan", "walks"}
    BY <1>9 DEF LastRoundDone, SkipRound, StartTrace, TraceRide, TraceWalk,
                EndTrace, Answer
  <2> QED BY <1>2, <2>1 DEF PunctualInv
<1>10. CASE UNCHANGED vars
  BY <1>10 DEF vars, PunctualInv
<1> QED BY <1>3, <1>4, <1>5, <1>6, <1>7, <1>8, <1>9, <1>10 DEF Next

-----------------------------------------------------------------------------
(* Legs that bring one from an access link to a stop in time for its label. *)
InTime(t, qu, legs, a, label, s, front, times) ==
  /\ legs = WalkIfAny(a.stop, a.duration) \o front
  /\ Timely(t, qu, front, a.stop, times)
  /\ LastPlace(t, front, a.stop) = s
  /\ times[Len(front)]
       + (IF front # <<>> /\ IsRide(front[Len(front)]) /\ label.parent.kind = "board"
          THEN Buffer ELSE 0) <= label.time
  /\ Paced(t, qu, legs, times[0] - a.duration, times[Len(front)])
  /\ \A i \in Rides(legs) : AlightTime(t, legs[i]) \in Int

BroughtTo(t, qu, legs, a, label, s) ==
  \E front \in Seq(Legs) :
    \E times \in [0 .. Len(front) -> Int] :
      InTime(t, qu, legs, a, label, s, front, times)

(* Integers for the backends that know no arithmetic.                      *)
LEMMA DifferenceType ==
  ASSUME NEW i \in Int, NEW j \in Nat
  PROVE  i - j \in Int
  OBVIOUS

LEMMA LeaveTheWait ==
  ASSUME NEW i \in Int, NEW j \in Int, NEW wait \in Int, i <= j - wait
  PROVE  i + wait <= j
  OBVIOUS

LEMMA LaterStill ==
  ASSUME NEW i \in Int, NEW j \in Int, NEW d \in Nat, NEW k \in Int,
         i <= j, j + d <= k
  PROVE  i + d <= k
  OBVIOUS

LEMMA WithoutWait ==
  ASSUME NEW i \in Int, NEW j \in Int, i <= j
  PROVE  i + 0 <= j
  OBVIOUS

(* One more leg after two parts of a journey.                              *)
LEMMA OneMoreAfter ==
  ASSUME NEW out \in Seq(Legs), NEW front \in Seq(Legs), NEW leg \in Legs
  PROVE  Append(out \o front, leg) = out \o Append(front, leg)
<1>1. /\ out \o front \in Seq(Legs) /\ <<leg>> \in Seq(Legs)
  OBVIOUS
<1>2. Append(out \o front, leg) = (out \o front) \o <<leg>>
  BY <1>1, AppendIsConcat
<1>3. Append(front, leg) = front \o <<leg>>
  BY AppendIsConcat
<1>4. (out \o front) \o <<leg>> = out \o (front \o <<leg>>)
  BY <1>1, ConcatAssociative
<1> QED BY <1>2, <1>3, <1>4

LEMMA AccessWalk ==
  ASSUME NEW s \in Stops, NEW d \in Nat
  PROVE  LET walk == WalkIfAny(s, d)
         IN  walk \in Seq(Legs) /\ Rides(walk) = {} /\ SumWalks(walk) = d
<1> DEFINE walk == WalkIfAny(s, d)
           leg  == Walk(s, d)
<1>1. leg \in Legs /\ ~IsRide(leg) /\ leg.duration = d
  BY DEF Walk, Legs, IsRide
<1>2. walk \in Seq(Legs)
  BY WalkIfAnyType
<1> HIDE DEF leg
<1>3. CASE d = 0
  <2>1. walk = <<>>
    BY <1>3 DEF WalkIfAny
  <2> QED BY <1>2, <1>3, <2>1, NoWalks DEF Rides
<1>4. CASE d # 0
  <2>1. walk = Append(<<>>, leg)
    BY <1>1, <1>4 DEF WalkIfAny, leg
  <2>2. <<>> \in Seq(Legs) /\ Rides(<<>>) = {}
    BY DEF Rides
  <2> DEFINE none == <<>>
  <2>3. none \in Seq(Legs) /\ Rides(none) = {} /\ walk = Append(none, leg)
        /\ SumWalks(none) = 0
    BY <2>1, <2>2, NoWalks
  <2> HIDE DEF none
  <2>4. SumWalks(Append(none, leg)) = SumWalks(none) + leg.duration
    BY <1>1, <2>3, OneMoreWalk
  <2>5. Rides(Append(none, leg)) = Rides(none)
    BY <1>1, <2>3, RidesOfMore
  <2> QED BY <1>1, <1>2, <2>3, <2>4, <2>5
<1> QED BY <1>3, <1>4

LEMMA BroughtByAccess ==
  ASSUME NEW t, NEW qu, NEW a \in StreetLink, NEW label, label.time \in Int
  PROVE  BroughtTo(t, qu, WalkIfAny(a.stop, a.duration), a, label, a.stop)
<1> DEFINE walk  == WalkIfAny(a.stop, a.duration)
           times == [i \in 0 .. 0 |-> label.time]
<1>1. a.stop \in Stops /\ a.duration \in Nat
  BY DEF StreetLink
<1>2. walk \in Seq(Legs) /\ Rides(walk) = {} /\ SumWalks(walk) = a.duration
  BY <1>1, AccessWalk
<1> HIDE DEF walk
<1>3. times \in [0 .. 0 -> Int] /\ times[0] = label.time
  OBVIOUS
<1> HIDE DEF times
<1>4. <<>> \in Seq(Legs) /\ Len(<<>>) = 0 /\ DOMAIN <<>> = {} /\ walk = walk \o <<>>
  BY <1>2
<1>5. Paced(t, qu, walk, times[0] - a.duration, times[0])
  BY <1>1, <1>2, <1>3 DEF Paced
<1>6. Timely(t, qu, <<>>, a.stop, times) /\ LastPlace(t, <<>>, a.stop) = a.stop
  BY <1>4 DEF Timely, LastPlace
<1>7. times[Len(<<>>)] + (IF <<>> # <<>> /\ IsRide(<<>>[Len(<<>>)])
                             /\ label.parent.kind = "board" THEN Buffer ELSE 0)
        <= label.time
  BY <1>3, <1>4
<1>8. InTime(t, qu, walk, a, label, a.stop, <<>>, times)
  BY <1>2, <1>4, <1>5, <1>6, <1>7 DEF InTime, walk
<1> QED BY <1>3, <1>4, <1>8 DEF BroughtTo, walk

(* By the ride of a label, in time for the label it is left with.          *)
LEMMA BroughtByRide ==
  ASSUME NEW t \in Timetables, NEW qu, NEW legs \in Seq(Legs), NEW a, NEW label,
         NEW s, NEW from, a.duration \in Nat, WalkIfAny(a.stop, a.duration) \in Seq(Legs),
         label.time \in Int, from.time \in Int, label.parent.kind = "board",
         RideSupports(t, qu, label.parent, s, label.time, from),
         BroughtTo(t, qu, legs, a, label, s)
  PROVE  LET p   == label.parent
             leg == Ride(p.pattern, p.trip, p.board, p.alight)
         IN  BroughtTo(t, qu, Append(legs, leg), a, from,
                       t.patterns[p.pattern].stops[p.alight])
<1> DEFINE p    == label.parent
           leg  == Ride(p.pattern, p.trip, p.board, p.alight)
           stop == t.patterns[p.pattern].stops[p.alight]
           out  == WalkIfAny(a.stop, a.duration)
           all  == Append(legs, leg)
<1>1. PICK front \in Seq(Legs) : \E times \in [0 .. Len(front) -> Int] :
        InTime(t, qu, legs, a, label, s, front, times)
  BY DEF BroughtTo
<1>2. PICK times \in [0 .. Len(front) -> Int] :
        InTime(t, qu, legs, a, label, s, front, times)
  BY <1>1
<1> DEFINE n   == Len(front)
           pause == IF front # <<>> /\ IsRide(front[n]) THEN Buffer ELSE 0
<1>3. /\ legs = out \o front
      /\ Timely(t, qu, front, a.stop, times)
      /\ LastPlace(t, front, a.stop) = s
      /\ times[n] + pause <= label.time
      /\ Paced(t, qu, legs, times[0] - a.duration, times[n])
      /\ \A i \in Rides(legs) : AlightTime(t, legs[i]) \in Int
  BY <1>2 DEF InTime
<1>4. /\ p.pattern \in Nat /\ p.trip \in Nat
      /\ p.board \in Nat /\ p.alight \in Nat
  BY RideFacts
<1>5. leg \in Legs /\ IsRide(leg)
      /\ leg.pattern = p.pattern /\ leg.trip = p.trip
      /\ leg.board = p.board /\ leg.alight = p.alight
  BY <1>4 DEF Ride, Legs, IsRide
<1>6. /\ Allowed(t, qu, leg)
      /\ t.patterns[leg.pattern].stops[leg.board] = s
      /\ LegEnd(t, leg) = stop
      /\ BoardTime(t, leg) = label.time
      /\ AlightTime(t, leg) <= AlightReady(from)
  <2> HIDE DEF leg
  <2> QED BY <1>5, Zenon DEF RideSupports, Allowed, LegEnd, AlightTime, BoardTime
<1>7. BoardTime(t, leg) \in Nat /\ AlightTime(t, leg) \in Nat
  BY <1>6, RideTimes
<1>8. AlightTime(t, leg) + (IF from.parent.kind = "board" THEN Buffer ELSE 0) <= from.time
  <2> DEFINE off  == AlightTime(t, leg)
             wait == IF from.parent.kind = "board" THEN Buffer ELSE 0
  <2>1. off \in Int
    BY <1>7
  <2>2. wait \in Int
    BY BufferAssumption
  <2>3. off <= from.time - wait
    BY <1>6, Zenon DEF AlightReady
  <2> HIDE DEF off, wait
  <2>4. off + wait <= from.time
    BY <2>1, <2>2, <2>3, LeaveTheWait
  <2> QED BY <2>4 DEF off, wait
<1> HIDE DEF p, leg, stop, out, all
<1>9. /\ n \in Nat /\ times[n] \in Int /\ times[0] \in Int
      /\ pause \in Nat
  <2>1. n \in Nat
    OBVIOUS
  <2>2. 0 \in 0 .. n /\ n \in 0 .. n
    BY <2>1
  <2>3. times[n] \in Int /\ times[0] \in Int
    BY <2>2
  <2>4. pause \in {0, Buffer}
    OBVIOUS
  <2>5. pause \in Nat
    BY <2>4, BufferAssumption
  <2> QED BY <2>1, <2>3, <2>5
<1> HIDE DEF n, pause
<1>10. \E moved \in [0 .. n -> Int] :
         /\ Timely(t, qu, front, a.stop, moved)
         /\ moved[n] + pause <= label.time
         /\ moved[0] = IF Rides(legs) = {} THEN label.time - (times[n] - times[0])
                       ELSE times[0]
  <2>1. CASE Rides(legs) = {}
    <3>1. Rides(front) = {}
      <4>1. /\ out \in Seq(Legs) /\ Len(out) \in Nat /\ n = Len(front)
            /\ \A i \in 1 .. n : legs[Len(out) + i] = front[i]
            /\ Len(legs) = Len(out) + n
        BY <1>3 DEF out, n
      <4>2. DOMAIN legs = 1 .. Len(legs) /\ DOMAIN front = 1 .. n
        BY DEF n
      <4>3. ASSUME NEW i \in 1 .. n, IsRide(front[i]) PROVE FALSE
        <5>1. Len(out) + i \in 1 .. Len(legs)
          BY <1>9, <4>1
        <5> QED BY <2>1, <4>1, <4>2, <4>3, <5>1 DEF Rides
      <4> QED BY <4>2, <4>3 DEF Rides
    <3>2. pause = 0
      BY <3>1 DEF pause, Rides, n
    <3> DEFINE by == label.time - times[n]
    <3>3. by \in Int
      BY <1>9
    <3> HIDE DEF by
    <3>4. TimelyAt(t, qu, front, a.stop, times, by)
      BY <1>3, <3>1, <3>3, WalksMayShift
    <3>5. PICK moved \in [0 .. Len(front) -> Int] :
            /\ \A i \in 0 .. Len(front) : moved[i] = times[i] + by
            /\ Timely(t, qu, front, a.stop, moved)
      BY <3>4 DEF TimelyAt
    <3>6. moved[n] = times[n] + by /\ moved[0] = times[0] + by
      BY <1>9, <3>5 DEF n
    <3>7. times[n] + by = label.time
          /\ times[0] + by = label.time - (times[n] - times[0])
      BY <1>9 DEF by
    <3>8. moved \in [0 .. n -> Int] /\ moved[n] + pause <= label.time
      BY <3>2, <3>5, <3>6, <3>7 DEF n
    <3>9. moved[0] = IF Rides(legs) = {} THEN label.time - (times[n] - times[0])
                     ELSE times[0]
      BY <2>1, <3>6, <3>7
    <3> QED BY <3>5, <3>8, <3>9
  <2>2. CASE Rides(legs) # {}
    BY <1>3, <2>2 DEF n
  <2> QED BY <2>1, <2>2
<1>11. PICK moved \in [0 .. n -> Int] :
         /\ Timely(t, qu, front, a.stop, moved)
         /\ moved[n] + pause <= label.time
         /\ moved[0] = IF Rides(legs) = {} THEN label.time - (times[n] - times[0])
                       ELSE times[0]
  BY <1>10
<1>12. MoreBehind(t, qu, leg, a.stop, front, moved, AlightTime(t, leg), Append(front, leg))
  <2>1. MayFollow(t, qu, leg, a.stop, front, moved, AlightTime(t, leg))
    BY <1>3, <1>5, <1>6, <1>7, <1>11 DEF MayFollow, pause, n
  <2> QED BY <1>5, <1>7, <1>11, <2>1, OneMoreBehind DEF n
<1> DEFINE more == Append(front, leg)
<1>13. PICK later \in [0 .. n + 1 -> Int] :
         /\ later[0] = moved[0]
         /\ later[n + 1] = AlightTime(t, leg)
         /\ Timely(t, qu, more, a.stop, later)
  BY <1>12 DEF MoreBehind, n
<1>14. /\ more \in Seq(Legs) /\ Len(more) = n + 1
       /\ LastPlace(t, more, a.stop) = stop
       /\ more # <<>> /\ more[Len(more)] = leg
  BY <1>6, <1>12 DEF MoreBehind, n
<1>15. all = out \o more /\ all \in Seq(Legs)
  <2>1. out \in Seq(Legs) /\ all = Append(legs, leg)
    BY DEF out, all
  <2> HIDE DEF more
  <2>2. all = out \o Append(front, leg)
    BY <1>3, <1>5, <2>1, OneMoreAfter, Zenon
  <2> QED BY <1>5, <2>1, <2>2 DEF more
<1>16. Paced(t, qu, all, later[0] - a.duration, AlightTime(t, leg))
  <2> DEFINE start == times[0] - a.duration
  <2>1. start \in Int /\ times[n] \in Int /\ Paced(t, qu, legs, start, times[n])
        /\ AlightTime(t, leg) \in Int /\ BoardTime(t, leg) \in Int
    <3>1. Paced(t, qu, legs, start, times[n])
      BY <1>3, Zenon
    <3>2. start \in Int
      BY <1>9, DifferenceType, Zenon
    <3> HIDE DEF start
    <3>3. AlightTime(t, leg) \in Int /\ BoardTime(t, leg) \in Int
      BY <1>7
    <3> QED BY <1>9, <3>1, <3>2, <3>3, Zenon
  <2>2. Paced(t, qu, all, IF Rides(legs) = {} THEN BoardTime(t, leg) - (times[n] - start)
                          ELSE start, AlightTime(t, leg))
    <3> HIDE DEF start
    <3> QED BY <1>3, <1>5, <2>1, PacedOnBoard DEF all
  <2>3. later[0] = IF Rides(legs) = {} THEN BoardTime(t, leg) - (times[n] - times[0])
                   ELSE times[0]
    BY <1>6, <1>11, <1>13
  <2>4. CASE Rides(legs) = {}
    <3> DEFINE x == later[0] - a.duration
               y == BoardTime(t, leg) - (times[n] - start)
    <3>1. x = y
      <4>1. later[0] = BoardTime(t, leg) - (times[n] - times[0])
        BY <2>3, <2>4, Zenon
      <4>2. BoardTime(t, leg) \in Int /\ times[n] \in Int
        BY <2>1, Zenon
      <4>3. times[0] \in Int /\ a.duration \in Nat
        BY <1>9
      <4>4. start = times[0] - a.duration
        OBVIOUS
      <4> HIDE DEF start
      <4>5. later[0] - a.duration = (BoardTime(t, leg) - (times[n] - times[0])) - a.duration
        BY <4>1, Zenon
      <4>6. (BoardTime(t, leg) - (times[n] - times[0])) - a.duration
              = BoardTime(t, leg) - (times[n] - (times[0] - a.duration))
        <5> DEFINE i == BoardTime(t, leg)
                   j == times[n]
                   k == times[0]
                   d == a.duration
        <5>1. i \in Int /\ j \in Int /\ k \in Int /\ d \in Nat
          BY <4>2, <4>3
        <5> HIDE DEF i, j, k, d
        <5>2. (i - (j - k)) - d = i - (j - (k - d))
          BY <5>1
        <5> QED BY <5>2 DEF i, j, k, d
      <4>7. BoardTime(t, leg) - (times[n] - (times[0] - a.duration))
              = BoardTime(t, leg) - (times[n] - start)
        BY <4>4, Zenon
      <4> QED BY <4>5, <4>6, <4>7, Zenon
    <3>2. Paced(t, qu, all, y, AlightTime(t, leg))
      BY <2>2, <2>4
    <3> HIDE DEF x, y
    <3>3. Paced(t, qu, all, x, AlightTime(t, leg))
      BY <3>1, <3>2
    <3> QED BY <3>3 DEF x
  <2>5. CASE Rides(legs) # {}
    BY <2>2, <2>3, <2>5
  <2> QED BY <2>4, <2>5
<1>17. \A i \in Rides(all) : AlightTime(t, all[i]) \in Int
  <2>1. /\ Len(legs) \in Nat /\ all[Len(legs) + 1] = leg
        /\ \A i \in 1 .. Len(legs) : all[i] = legs[i]
        /\ Rides(legs) \in SUBSET (1 .. Len(legs))
        /\ Rides(all) = Rides(legs) \cup {Len(legs) + 1}
    BY <1>5, RidesOfMore DEF all
  <2> SUFFICES ASSUME NEW i \in Rides(all) PROVE AlightTime(t, all[i]) \in Int
    OBVIOUS
  <2>2. CASE i \in Rides(legs)
    <3>1. i \in 1 .. Len(legs) /\ all[i] = legs[i]
      BY <2>1, <2>2
    <3> QED BY <1>3, <2>2, <3>1
  <2>3. CASE i = Len(legs) + 1
    BY <1>7, <2>1, <2>3
  <2> QED BY <2>1, <2>2, <2>3
<1>18. later[Len(more)] + (IF more # <<>> /\ IsRide(more[Len(more)])
                              /\ from.parent.kind = "board" THEN Buffer ELSE 0)
         <= from.time
  BY <1>5, <1>8, <1>13, <1>14
<1> HIDE DEF more
<1>19. InTime(t, qu, all, a, from, stop, more, later)
  BY <1>13, <1>14, <1>15, <1>16, <1>17, <1>18 DEF InTime, out
<1>20. BroughtTo(t, qu, all, a, from, stop)
  BY <1>14, <1>19 DEF BroughtTo
<1> QED BY <1>20 DEF all, leg, p, stop

(* By a walk of the timetable, in time for a label so much later.          *)
LEMMA BroughtByWalk ==
  ASSUME NEW t \in Timetables, NEW qu, NEW legs \in Seq(Legs), NEW a, NEW label,
         NEW s, NEW to \in Stops, NEW d \in Nat, NEW from,
         a.duration \in Nat, WalkIfAny(a.stop, a.duration) \in Seq(Legs),
         label.time \in Int, from.time \in Int,
         <<s, to>> \in DOMAIN t.walks, t.walks[<<s, to>>] = d,
         label.time + d <= from.time,
         BroughtTo(t, qu, legs, a, label, s)
  PROVE  BroughtTo(t, qu, Append(legs, Walk(to, d)), a, from, to)
<1> DEFINE leg  == Walk(to, d)
           out  == WalkIfAny(a.stop, a.duration)
           all  == Append(legs, leg)
<1>1. PICK front \in Seq(Legs) : \E times \in [0 .. Len(front) -> Int] :
        InTime(t, qu, legs, a, label, s, front, times)
  BY DEF BroughtTo
<1>2. PICK times \in [0 .. Len(front) -> Int] :
        InTime(t, qu, legs, a, label, s, front, times)
  BY <1>1
<1> DEFINE n == Len(front)
<1>3. /\ legs = out \o front
      /\ Timely(t, qu, front, a.stop, times)
      /\ LastPlace(t, front, a.stop) = s
      /\ Paced(t, qu, legs, times[0] - a.duration, times[n])
      /\ \A i \in Rides(legs) : AlightTime(t, legs[i]) \in Int
  BY <1>2 DEF InTime
<1>4. n \in Nat /\ times[n] \in Int /\ times[0] \in Int
  <2>1. n \in Nat
    OBVIOUS
  <2>2. 0 \in 0 .. n /\ n \in 0 .. n
    BY <2>1
  <2> QED BY <2>1, <2>2
<1>5. times[n] <= label.time
  BY <1>2, <1>4, BufferAssumption DEF InTime
<1>6. leg \in Legs /\ ~IsRide(leg) /\ leg.stop = to /\ leg.duration = d
      /\ LegEnd(t, leg) = to
  BY DEF Walk, Legs, IsRide, LegEnd
<1> HIDE DEF leg, out, n, all
<1> DEFINE more == Append(front, leg)
           end  == times[n] + d
<1>7. end \in Int
  BY <1>4
<1> HIDE DEF end
<1>8. MoreBehind(t, qu, leg, a.stop, front, times, end, more)
  <2>1. MayFollow(t, qu, leg, a.stop, front, times, end)
    BY <1>3, <1>4, <1>6 DEF MayFollow, n, end
  <2> QED BY <1>3, <1>6, <1>7, <2>1, OneMoreBehind DEF n
<1>9. PICK later \in [0 .. n + 1 -> Int] :
        /\ later[0] = times[0]
        /\ later[n + 1] = end
        /\ Timely(t, qu, more, a.stop, later)
  BY <1>8 DEF MoreBehind, n
<1>10. /\ more \in Seq(Legs) /\ Len(more) = n + 1
       /\ LastPlace(t, more, a.stop) = to
       /\ more # <<>> /\ more[Len(more)] = leg
  BY <1>6, <1>8 DEF MoreBehind, n
<1>11. all = out \o more /\ all \in Seq(Legs)
  <2>1. out \in Seq(Legs) /\ all = Append(legs, leg)
    BY DEF out, all
  <2> HIDE DEF more
  <2>2. all = out \o Append(front, leg)
    BY <1>3, <1>6, <2>1, OneMoreAfter, Zenon
  <2>3. all \in Seq(Legs)
    BY <1>6, <2>1
  <2> QED BY <2>2, <2>3 DEF more
<1>12. Paced(t, qu, all, later[0] - a.duration, end)
  <2> DEFINE start == times[0] - a.duration
  <2>1. start \in Int /\ times[n] \in Int /\ Paced(t, qu, legs, start, times[n])
    <3>1. Paced(t, qu, legs, start, times[n])
      BY <1>3, Zenon
    <3>2. start \in Int
      BY <1>4, DifferenceType, Zenon
    <3> HIDE DEF start
    <3> QED BY <1>4, <3>1, <3>2, Zenon
  <2> HIDE DEF start
  <2>2. Paced(t, qu, all, start, times[n] + leg.duration)
    BY <1>3, <1>6, <2>1, PacedOnFoot DEF all
  <2> QED BY <1>6, <1>9, <2>2 DEF start, end
<1>13. \A i \in Rides(all) : AlightTime(t, all[i]) \in Int
  <2>1. /\ Len(legs) \in Nat
        /\ \A i \in 1 .. Len(legs) : all[i] = legs[i]
        /\ Rides(legs) \in SUBSET (1 .. Len(legs))
        /\ Rides(all) = Rides(legs)
    BY <1>6, RidesOfMore DEF all
  <2> QED BY <1>3, <2>1
<1>14. later[Len(more)] + (IF more # <<>> /\ IsRide(more[Len(more)])
                              /\ from.parent.kind = "board" THEN Buffer ELSE 0)
         <= from.time
  <2> HIDE DEF more
  <2>1. ~IsRide(more[Len(more)]) /\ later[Len(more)] = end
    BY <1>6, <1>9, <1>10, Zenon
  <2>2. end <= from.time
    BY <1>4, <1>5, LaterStill DEF end
  <2>3. end + 0 <= from.time
    BY <1>7, <2>2, WithoutWait
  <2> QED BY <2>1, <2>3, Zenon
<1> HIDE DEF more
<1>15. InTime(t, qu, all, a, from, to, more, later)
  BY <1>9, <1>10, <1>11, <1>12, <1>13, <1>14 DEF InTime, out
<1>16. BroughtTo(t, qu, all, a, from, to)
  BY <1>10, <1>15 DEF BroughtTo
<1> QED BY <1>16 DEF all, leg

-----------------------------------------------------------------------------
(* The walk to the destination, if there is one, goes behind all the rest. *)
LEMMA PacedByEgress ==
  ASSUME NEW t, NEW qu, NEW legs \in Seq(Legs), NEW s \in Stops, NEW d \in Nat,
         NEW start \in Int, NEW now \in Int, Paced(t, qu, legs, start, now),
         \A i \in Rides(legs) : AlightTime(t, legs[i]) \in Int
  PROVE  /\ legs \o WalkIfAny(s, d) \in Seq(Legs)
         /\ Rides(legs \o WalkIfAny(s, d)) = Rides(legs)
         /\ Paced(t, qu, legs \o WalkIfAny(s, d), start, now + d)
<1> DEFINE walk == WalkIfAny(s, d)
           leg  == Walk(s, d)
<1>1. leg \in Legs /\ ~IsRide(leg) /\ leg.duration = d
  BY DEF Walk, Legs, IsRide
<1> HIDE DEF leg
<1>2. CASE d = 0
  <2>1. walk = <<>>
    BY <1>2 DEF WalkIfAny
  <2>2. legs \o walk = legs
    BY <2>1, ConcatEmptySeq
  <2>3. now + d = now
    BY <1>2
  <2> HIDE DEF walk
  <2>4. /\ legs \o walk \in Seq(Legs)
        /\ Rides(legs \o walk) = Rides(legs)
        /\ Paced(t, qu, legs \o walk, start, now + d)
    BY <2>2, <2>3
  <2> QED BY <2>4 DEF walk
<1>3. CASE d # 0
  <2>1. walk = <<leg>>
    BY <1>3 DEF WalkIfAny, leg
  <2>2. legs \o walk = Append(legs, leg)
    BY <1>1, <2>1, AppendIsConcat
  <2> HIDE DEF walk
  <2>3. Append(legs, leg) \in Seq(Legs) /\ Rides(Append(legs, leg)) = Rides(legs)
    BY <1>1, RidesOfMore
  <2>4. Paced(t, qu, Append(legs, leg), start, now + leg.duration)
    BY <1>1, PacedOnFoot
  <2>5. /\ legs \o walk \in Seq(Legs)
        /\ Rides(legs \o walk) = Rides(legs)
        /\ Paced(t, qu, legs \o walk, start, now + d)
    BY <1>1, <2>2, <2>3, <2>4
  <2> QED BY <2>5 DEF walk
<1> QED BY <1>2, <1>3

LEMMA RidesInFront ==
  ASSUME NEW out \in Seq(Legs), NEW front \in Seq(Legs), Rides(out \o front) = {}
  PROVE  Rides(front) = {}
<1> DEFINE legs == out \o front
<1>1. /\ Len(out) \in Nat /\ Len(front) \in Nat
      /\ \A i \in 1 .. Len(front) : legs[Len(out) + i] = front[i]
      /\ Len(legs) = Len(out) + Len(front)
      /\ DOMAIN legs = 1 .. Len(legs) /\ DOMAIN front = 1 .. Len(front)
  OBVIOUS
<1>2. Rides(legs) = {}
  OBVIOUS
<1> HIDE DEF legs
<1>3. ASSUME NEW i \in 1 .. Len(front), IsRide(front[i]) PROVE FALSE
  <2>1. Len(out) + i \in 1 .. Len(legs)
    BY <1>1
  <2> QED BY <1>1, <1>2, <1>3, <2>1 DEF Rides
<1> QED BY <1>1, <1>3 DEF Rides

(* From the stop of an egress link, the journey can be travelled just in
   time, and is.                                                            *)
LEMMA BroughtHome ==
  ASSUME NEW t \in Timetables, NEW qu, qu.time \in Int, NEW legs \in Seq(Legs),
         NEW a \in StreetLink, NEW e \in StreetLink, NEW label,
         label.time = qu.time - e.duration,
         BroughtTo(t, qu, legs, a, label, e.stop)
  PROVE  LET all == legs \o WalkIfAny(e.stop, e.duration)
         IN  /\ all \in Seq(Legs)
             /\ Arriving(t, qu, all) \in Int
             /\ Arriving(t, qu, all) <= qu.time
             /\ Feasible(t, qu, all, a, e, Leaving(t, qu, all), Arriving(t, qu, all))
<1> DEFINE out == WalkIfAny(a.stop, a.duration)
           in  == WalkIfAny(e.stop, e.duration)
           all == legs \o in
<1>1. PICK front \in Seq(Legs) : \E times \in [0 .. Len(front) -> Int] :
        InTime(t, qu, legs, a, label, e.stop, front, times)
  BY DEF BroughtTo
<1>2. PICK times \in [0 .. Len(front) -> Int] :
        InTime(t, qu, legs, a, label, e.stop, front, times)
  BY <1>1
<1> DEFINE n     == Len(front)
           start == times[0] - a.duration
           end   == times[n] + e.duration
<1>3. /\ legs = out \o front
      /\ Timely(t, qu, front, a.stop, times)
      /\ LastPlace(t, front, a.stop) = e.stop
      /\ Paced(t, qu, legs, start, times[n])
      /\ \A i \in Rides(legs) : AlightTime(t, legs[i]) \in Int
  BY <1>2 DEF InTime
<1>4. n \in Nat /\ times[n] \in Int /\ times[0] \in Int
  <2>1. n \in Nat
    OBVIOUS
  <2>2. 0 \in 0 .. n /\ n \in 0 .. n
    BY <2>1
  <2> QED BY <2>1, <2>2
<1>5. /\ a.stop \in Stops /\ a.duration \in Nat
      /\ e.stop \in Stops /\ e.duration \in Nat
  BY DEF StreetLink
<1>6. start \in Int /\ end \in Int
  BY <1>4, <1>5
<1>7. end <= qu.time
  <2>1. times[n] <= label.time
    BY <1>2, <1>4, <1>5, BufferAssumption DEF InTime
  <2> QED BY <1>4, <1>5, <2>1
<1> HIDE DEF start
<1>8. /\ all \in Seq(Legs) /\ Rides(all) = Rides(legs)
      /\ Paced(t, qu, all, start, end)
  <2> DEFINE now == times[n]
  <2>1. /\ now \in Int /\ start \in Int /\ Paced(t, qu, legs, start, now)
        /\ \A i \in Rides(legs) : AlightTime(t, legs[i]) \in Int
    BY <1>3, <1>4, <1>6
  <2>2. end = now + e.duration
    OBVIOUS
  <2> HIDE DEF now, end
  <2>3. /\ legs \o WalkIfAny(e.stop, e.duration) \in Seq(Legs)
        /\ Rides(legs \o WalkIfAny(e.stop, e.duration)) = Rides(legs)
        /\ Paced(t, qu, legs \o WalkIfAny(e.stop, e.duration), start, now + e.duration)
    BY <1>5, <2>1, PacedByEgress
  <2> QED BY <2>2, <2>3
<1>9. all = out \o front \o in
  BY <1>3
<1> HIDE DEF end, all
<1>10. CASE Rides(all) # {}
  <2>1. start = Leaving(t, qu, all) /\ end = Arriving(t, qu, all)
    BY <1>8, <1>10 DEF Paced
  <2>2. Feasible(t, qu, out \o front \o in, a, e, start, end)
    <3>1. start + a.duration <= times[0] /\ times[n] + e.duration <= end
      BY <1>4, <1>5 DEF start, end
    <3> HIDE DEF out, in
    <3> QED BY <1>3, <1>6, <3>1, TimelyIsFeasible DEF out, in
  <2> QED BY <1>6, <1>7, <1>8, <1>9, <2>1, <2>2 DEF all
<1>11. CASE Rides(all) = {}
  <2> DEFINE by == qu.time - end
  <2>1. by \in Int
    BY <1>6
  <2>2. Rides(front) = {}
    <3>1. out \in Seq(Legs)
      BY <1>5, WalkIfAnyType
    <3> HIDE DEF out
    <3> QED BY <1>3, <1>8, <1>11, <3>1, RidesInFront
  <2> HIDE DEF by
  <2>3. TimelyAt(t, qu, front, a.stop, times, by)
    BY <1>3, <2>1, <2>2, WalksMayShift
  <2>4. PICK moved \in [0 .. Len(front) -> Int] :
          /\ \A i \in 0 .. Len(front) : moved[i] = times[i] + by
          /\ Timely(t, qu, front, a.stop, moved)
    BY <2>3 DEF TimelyAt
  <2>5. moved[0] = times[0] + by /\ moved[n] = times[n] + by
    BY <1>4, <2>4
  <2>6. Leaving(t, qu, all) = start + by /\ Arriving(t, qu, all) = qu.time
    <3>1. end = start + SumWalks(all) /\ SumWalks(all) \in Int
      BY <1>8, <1>11, SumOfWalks DEF Paced
    <3>2. Leaving(t, qu, all) = qu.time - SumWalks(all) /\ Arriving(t, qu, all) = qu.time
      BY <1>11 DEF Leaving, Arriving
    <3> QED BY <1>6, <3>1, <3>2 DEF by
  <2>7. Feasible(t, qu, out \o front \o in, a, e, start + by, qu.time)
    <3>1. start + by + a.duration <= moved[0]
      <4>1. /\ moved[0] = times[0] + by /\ times[0] \in Int
            /\ a.duration \in Int /\ by \in Int
        BY <1>4, <1>5, <2>1, <2>5
      <4> QED BY <4>1 DEF start
    <3>2. moved[n] + e.duration <= qu.time
      <4>1. /\ moved[n] = times[n] + by /\ times[n] \in Int
            /\ e.duration \in Int /\ qu.time \in Int
        BY <1>4, <1>5, <2>5
      <4>2. by = qu.time - (times[n] + e.duration)
        BY DEF by, end
      <4> QED BY <4>1, <4>2
    <3>3. start + by \in Int
      BY <1>6, <2>1
    <3> HIDE DEF out, in
    <3> QED BY <1>3, <2>4, <3>1, <3>2, <3>3, TimelyIsFeasible DEF out, in
  <2>8. Arriving(t, qu, all) \in Int /\ Arriving(t, qu, all) <= qu.time
    BY <2>6
  <2> QED BY <1>8, <1>9, <2>6, <2>7, <2>8 DEF all
<1> QED BY <1>10, <1>11

-----------------------------------------------------------------------------
(* Who leaves the origin at dep and takes the legs is at a label just when
   it says, until a ride.                                                   *)
LeftAt(t, qu, legs, label, dep) ==
  \E now \in Int : /\ Paced(t, qu, legs, dep, now)
                   /\ Rides(legs) = {} => now = label.time

LEMMA LeftByAccess ==
  ASSUME NEW t, NEW qu, NEW a \in StreetLink, NEW label, label.time \in Int
  PROVE  LeftAt(t, qu, WalkIfAny(a.stop, a.duration), label, label.time - a.duration)
<1>1. a.stop \in Stops /\ a.duration \in Nat
  BY DEF StreetLink
<1> DEFINE walk == WalkIfAny(a.stop, a.duration)
<1>2. walk \in Seq(Legs) /\ Rides(walk) = {} /\ SumWalks(walk) = a.duration
  BY <1>1, AccessWalk
<1> HIDE DEF walk
<1>3. Paced(t, qu, walk, label.time - a.duration, label.time)
  BY <1>1, <1>2 DEF Paced
<1> QED BY <1>3 DEF LeftAt, walk

LEMMA LeftByRide ==
  ASSUME NEW t, NEW qu, NEW legs \in Seq(Legs), NEW leg \in Legs, IsRide(leg),
         NEW label, NEW from, NEW dep \in Int, LeftAt(t, qu, legs, label, dep),
         AlightTime(t, leg) \in Int, BoardTime(t, leg) \in Int,
         BoardTime(t, leg) = label.time
  PROVE  LeftAt(t, qu, Append(legs, leg), from, dep)
<1>1. PICK now \in Int : /\ Paced(t, qu, legs, dep, now)
                         /\ Rides(legs) = {} => now = label.time
  BY DEF LeftAt
<1> DEFINE all == Append(legs, leg)
           begin == IF Rides(legs) = {} THEN BoardTime(t, leg) - (now - dep) ELSE dep
<1>2. Paced(t, qu, all, begin, AlightTime(t, leg))
  BY <1>1, PacedOnBoard
<1>3. begin = dep
  BY <1>1
<1>4. Rides(all) # {}
  BY LastRide
<1> HIDE DEF all, begin
<1>5. Paced(t, qu, all, dep, AlightTime(t, leg))
  BY <1>2, <1>3
<1> QED BY <1>4, <1>5 DEF LeftAt, all

LEMMA LeftByWalk ==
  ASSUME NEW t, NEW qu, NEW legs \in Seq(Legs), NEW leg \in Legs, ~IsRide(leg),
         NEW label, NEW from, NEW dep \in Int, LeftAt(t, qu, legs, label, dep),
         \A i \in Rides(legs) : AlightTime(t, legs[i]) \in Int,
         leg.duration \in Nat, from.time = label.time + leg.duration
  PROVE  LeftAt(t, qu, Append(legs, leg), from, dep)
<1>1. PICK now \in Int : /\ Paced(t, qu, legs, dep, now)
                         /\ Rides(legs) = {} => now = label.time
  BY DEF LeftAt
<1> DEFINE all == Append(legs, leg)
<1>2. Paced(t, qu, all, dep, now + leg.duration)
  BY <1>1, PacedOnFoot
<1>3. Rides(all) = Rides(legs)
  BY RidesOfMore
<1>4. now + leg.duration \in Int /\ (Rides(legs) = {} => now + leg.duration = from.time)
  BY <1>1
<1> HIDE DEF all
<1> QED BY <1>2, <1>3, <1>4 DEF LeftAt, all

LEMMA LeftForHome ==
  ASSUME NEW t, NEW qu, qu.time \in Int, NEW legs \in Seq(Legs), NEW e \in StreetLink,
         NEW label, label.time = qu.time - e.duration,
         NEW dep \in Int, LeftAt(t, qu, legs, label, dep),
         \A i \in Rides(legs) : AlightTime(t, legs[i]) \in Int
  PROVE  dep = Leaving(t, qu, legs \o WalkIfAny(e.stop, e.duration))
<1> DEFINE all == legs \o WalkIfAny(e.stop, e.duration)
<1>1. e.stop \in Stops /\ e.duration \in Nat
  BY DEF StreetLink
<1>2. PICK now \in Int : /\ Paced(t, qu, legs, dep, now)
                         /\ Rides(legs) = {} => now = label.time
  BY DEF LeftAt
<1>3. /\ all \in Seq(Legs) /\ Rides(all) = Rides(legs)
      /\ Paced(t, qu, all, dep, now + e.duration)
  BY <1>1, <1>2, PacedByEgress
<1> HIDE DEF all
<1>4. CASE Rides(all) # {}
  BY <1>3, <1>4 DEF Paced, all
<1>5. CASE Rides(all) = {}
  <2>1. now + e.duration = dep + SumWalks(all) /\ SumWalks(all) \in Int
    BY <1>3, <1>5, SumOfWalks DEF Paced
  <2>2. now + e.duration = qu.time
    BY <1>1, <1>2, <1>3, <1>5
  <2>3. Leaving(t, qu, all) = qu.time - SumWalks(all)
    BY <1>5 DEF Leaving
  <2>4. dep = Leaving(t, qu, all)
    BY <2>1, <2>2, <2>3
  <2> QED BY <2>4 DEF all
<1> QED BY <1>4, <1>5

-----------------------------------------------------------------------------
(***************************************************************************)
(* The search: the journey found so far while tracing, and those answered. *)
(***************************************************************************)

(* A journey of the answer.                                                *)
Answers == [legs : Seq(Legs), arrival : Int, transfers : Nat]

(* It can be travelled between two of the query's links, in time.          *)
Travelled(t, qu, journey) ==
  /\ journey.arrival <= qu.time
  /\ \E i \in DOMAIN qu.access, j \in DOMAIN qu.egress :
       Feasible(t, qu, journey.legs, qu.access[i], qu.egress[j],
                Leaving(t, qu, journey.legs), journey.arrival)

(* What a trace has found so far brings one to where it is, and leaves the
   origin when its round was collected for.                                *)
FrontInv ==
  pc = "trace" =>
    /\ \E i \in DOMAIN query.access :
         BroughtTo(tt, query, trace.legs, query.access[i],
                   rounds[trace.round][trace.stop], trace.stop)
    /\ WalksClosed(tt.walks) =>
         LeftAt(tt, query, trace.legs, rounds[trace.round][trace.stop], departure)

(* The journeys answered so far.                                           *)
AnswersInv ==
  /\ journeys \in Seq(Answers)
  /\ \A n \in DOMAIN journeys : Travelled(tt, query, journeys[n])

(* Where walks are closed each leaves later than the one before, and the
   last one when its round was collected for.                               *)
LaterInv ==
  WalksClosed(tt.walks) =>
    /\ \A n \in DOMAIN journeys :
         /\ Leaving(tt, query, journeys[n].legs) \in Int
         /\ Leaving(tt, query, journeys[n].legs) <= departure
         /\ pc = "trace" => Leaving(tt, query, journeys[n].legs) < departure
    /\ \A i, j \in DOMAIN journeys :
         i < j => Leaving(tt, query, journeys[i].legs)
                    < Leaving(tt, query, journeys[j].legs)

LEMMA StartTraceFront ==
  ASSUME SearchInv, StartTrace
  PROVE  FrontInv'
<1> DEFINE round == rounds[collecting]
           e     == BestAccess(round)
           link  == query.access[e]
           label == round[link.stop]
<1>1. /\ departure' = label.time - link.duration
      /\ trace' = [stop |-> link.stop, round |-> collecting,
                   legs |-> WalkIfAny(link.stop, link.duration)]
      /\ rounds' = rounds /\ query' = query /\ tt' = tt
  BY DEF StartTrace, DepartOrigin
<1>2. /\ e \in UsableAccess(round) /\ label.time \in Moments
  BY StartTraceFacts
<1>3. e \in DOMAIN query.access /\ link \in StreetLink /\ label.time \in Int
  <2>1. query \in Queries
    BY DEF SearchInv, TypeOK
  <2>2. query.access \in Seq(StreetLink) /\ e \in DOMAIN query.access
    BY <1>2, <2>1, QueryFacts DEF UsableAccess
  <2> HIDE DEF e
  <2> QED BY <1>2, <2>2 DEF Moments
<1> HIDE DEF link, e
<1> DEFINE walk == WalkIfAny(link.stop, link.duration)
<1>4. BroughtTo(tt, query, walk, link, label, link.stop)
  <2> HIDE DEF label
  <2> QED BY <1>3, BroughtByAccess
<1>5. LeftAt(tt, query, walk, label, departure')
  <2> HIDE DEF label
  <2>1. LeftAt(tt, query, walk, label, label.time - link.duration)
    BY <1>3, LeftByAccess
  <2> QED BY <1>1, <2>1
<1>6. /\ trace'.legs = walk /\ rounds'[trace'.round][trace'.stop] = label
      /\ trace'.stop = link.stop
  BY <1>1
<1> HIDE DEF walk, label
<1>7. /\ e \in DOMAIN query'.access
      /\ BroughtTo(tt', query', trace'.legs, query'.access[e],
                   rounds'[trace'.round][trace'.stop], trace'.stop)
      /\ LeftAt(tt', query', trace'.legs, rounds'[trace'.round][trace'.stop], departure')
  BY <1>1, <1>3, <1>4, <1>5, <1>6 DEF link
<1> QED BY <1>7 DEF FrontInv

(* The types of what a trace is at.                                        *)
LEMMA TraceTypes ==
  ASSUME SearchInv, pc = "trace"
  PROVE  /\ tt \in Timetables /\ query \in Queries
         /\ trace \in [stop : Nat, round : Nat, legs : Seq(Legs)]
         /\ trace.stop \in Stops /\ trace.round \in DOMAIN rounds
         /\ rounds[trace.round][trace.stop].time \in Int
         /\ departure \in Int
         /\ query.time \in Nat
         /\ \A i \in DOMAIN query.access : query.access[i] \in StreetLink
         /\ \A i \in DOMAIN query.egress : query.egress[i] \in StreetLink
<1>1. /\ tt \in Timetables /\ query \in Queries
      /\ trace \in [stop : Nat, round : Nat, legs : Seq(Legs)]
      /\ trace.stop \in Stops /\ trace.round \in DOMAIN rounds
      /\ departure \in Int
  BY DEF SearchInv, TypeOK, TraceInv
<1>2. rounds[trace.round][trace.stop].time \in Int
  BY <1>1, LabelTime DEF SearchInv
<1>3. /\ query.access \in Seq(StreetLink) /\ query.egress \in Seq(StreetLink)
      /\ query.time \in Nat
  BY <1>1, QueryFacts
<1> QED BY <1>1, <1>2, <1>3

LEMMA RidesArrive ==
  ASSUME NEW t, NEW qu, NEW legs, NEW a, NEW label, NEW s,
         BroughtTo(t, qu, legs, a, label, s)
  PROVE  \A i \in Rides(legs) : AlightTime(t, legs[i]) \in Int
BY DEF BroughtTo, InTime

LEMMA TraceRideFront ==
  ASSUME SearchInv, FrontInv, TraceRide
  PROVE  FrontInv'
<1> DEFINE label == rounds[trace.round][trace.stop]
           p     == TracedParent
           leg   == Ride(p.pattern, p.trip, p.board, p.alight)
           place == tt.patterns[p.pattern].stops[p.alight]
           from  == rounds[p.round][place]
<1>1. /\ pc = "trace" /\ p.kind = "board"
      /\ trace' = [trace EXCEPT !.stop = place, !.round = p.round,
                                !.legs = Append(@, leg)]
      /\ rounds' = rounds /\ query' = query /\ tt' = tt /\ departure' = departure
  BY DEF TraceRide
<1>2. PICK i \in DOMAIN query.access :
        BroughtTo(tt, query, trace.legs, query.access[i], label, trace.stop)
  BY <1>1 DEF FrontInv
<1>3. WalksClosed(tt.walks) => LeftAt(tt, query, trace.legs, label, departure)
  BY <1>1 DEF FrontInv
<1> DEFINE a == query.access[i]
<1>4. /\ p.pattern \in Nat /\ p.trip \in Nat
      /\ p.board \in Nat /\ p.alight \in Nat
      /\ p.round \in DOMAIN rounds
      /\ place \in Stops
  BY <1>1, TracedRide, Zenon
<1>5. /\ tt \in Timetables /\ trace.legs \in Seq(Legs) /\ label.time \in Int
      /\ departure \in Int /\ a \in StreetLink
      /\ trace \in [stop : Nat, round : Nat, legs : Seq(Legs)]
  BY <1>1, TraceTypes
<1>6. from.time \in Int
  BY <1>4, LabelTime DEF SearchInv
<1>7. RideSupports(tt, query, label.parent, trace.stop, label.time, from)
      /\ label.parent = p
  BY <1>1, TracedRideHolds, Zenon DEF TracedTime, TracedParent
<1>8. leg \in Legs /\ IsRide(leg)
      /\ leg.pattern = p.pattern /\ leg.trip = p.trip
      /\ leg.board = p.board /\ leg.alight = p.alight
  BY <1>4 DEF Ride, Legs, IsRide
<1>9. a.duration \in Nat /\ WalkIfAny(a.stop, a.duration) \in Seq(Legs)
  <2>1. a.duration \in Nat /\ a.stop \in Stops
    BY <1>5 DEF StreetLink
  <2> QED BY <2>1, WalkIfAnyType
<1>10. BoardTime(tt, leg) = label.time /\ BoardTime(tt, leg) \in Int
       /\ AlightTime(tt, leg) \in Int
  <2> HIDE DEF leg, from, p, label
  <2>1. BoardTime(tt, leg) = label.time /\ Allowed(tt, query, leg)
    BY <1>7, <1>8, Zenon DEF RideSupports, Allowed, BoardTime
  <2> QED BY <1>5, <2>1, RideTimes
<1> HIDE DEF p, label, from, a
<1>11. BroughtTo(tt, query, Append(trace.legs, leg), a, from, place)
  <2>1. label.parent.kind = "board"
    BY <1>1, <1>7
  <2>2. BroughtTo(tt, query, trace.legs, a, label, trace.stop)
    BY <1>2 DEF a
  <2>3. LET q    == label.parent
            ride == Ride(q.pattern, q.trip, q.board, q.alight)
        IN  BroughtTo(tt, query, Append(trace.legs, ride), a, from,
                      tt.patterns[q.pattern].stops[q.alight])
    BY <1>5, <1>6, <1>7, <1>9, <2>1, <2>2, BroughtByRide
  <2> QED BY <1>7, <2>3
<1> HIDE DEF leg, place
<1>12. WalksClosed(tt.walks) =>
         LeftAt(tt, query, Append(trace.legs, leg), from, departure)
  BY <1>3, <1>5, <1>8, <1>10, LeftByRide
<1>13. /\ trace'.stop = place /\ trace'.round = p.round
       /\ trace'.legs = Append(trace.legs, leg)
  BY <1>1, <1>5
<1>14. /\ i \in DOMAIN query'.access
       /\ BroughtTo(tt', query', trace'.legs, query'.access[i],
                    rounds'[trace'.round][trace'.stop], trace'.stop)
       /\ WalksClosed(tt'.walks) =>
            LeftAt(tt', query', trace'.legs, rounds'[trace'.round][trace'.stop], departure')
  BY <1>1, <1>11, <1>12, <1>13 DEF from, a
<1> QED BY <1>14 DEF FrontInv

LEMMA TraceWalkFront ==
  ASSUME SearchInv, PunctualInv, FrontInv, TraceWalk
  PROVE  FrontInv'
<1> DEFINE label == rounds[trace.round][trace.stop]
           p     == TracedParent
           leg   == Walk(p.from, p.duration)
           from  == rounds[trace.round][p.from]
<1>1. /\ pc = "trace" /\ p.kind = "transfer"
      /\ trace' = [trace EXCEPT !.stop = p.from,
                                !.legs = @ \o WalkIfAny(p.from, p.duration)]
      /\ rounds' = rounds /\ query' = query /\ tt' = tt /\ departure' = departure
  BY DEF TraceWalk
<1>2. PICK i \in DOMAIN query.access :
        BroughtTo(tt, query, trace.legs, query.access[i], label, trace.stop)
  BY <1>1 DEF FrontInv
<1>3. WalksClosed(tt.walks) => LeftAt(tt, query, trace.legs, label, departure)
  BY <1>1 DEF FrontInv
<1> DEFINE a == query.access[i]
<1>4. /\ <<p.from, trace.stop>> \in DOMAIN tt.walks
      /\ tt.walks[<<p.from, trace.stop>>] = p.duration
      /\ p.duration \in Nat
      /\ WalkIfAny(p.from, p.duration) = <<leg>>
      /\ from.time - p.duration >= label.time
      /\ p.from \in Stops
  BY <1>1, TracedWalkHolds, TracedWalk DEF WalkIfAny, TracedTime
<1>5. /\ tt \in Timetables /\ trace.legs \in Seq(Legs) /\ label.time \in Int
      /\ departure \in Int /\ a \in StreetLink
      /\ trace \in [stop : Nat, round : Nat, legs : Seq(Legs)]
      /\ trace.round \in DOMAIN rounds /\ trace.stop \in Stops
  BY <1>1, TraceTypes
<1>6. from.time \in Int
  BY <1>4, <1>5, LabelTime DEF SearchInv
<1>7. leg \in Legs /\ ~IsRide(leg) /\ leg.duration = p.duration
  BY <1>4 DEF Walk, Legs, IsRide
<1>8. a.duration \in Nat /\ WalkIfAny(a.stop, a.duration) \in Seq(Legs)
  <2>1. a.duration \in Nat /\ a.stop \in Stops
    BY <1>5 DEF StreetLink
  <2> QED BY <2>1, WalkIfAnyType
<1>9. /\ <<trace.stop, p.from>> \in DOMAIN tt.walks
      /\ tt.walks[<<trace.stop, p.from>>] = p.duration
  <2>1. WalksAreTransfers(tt.walks)
    BY <1>5, TimetablesAssumption DEF WellFormedTimetable
  <2>2. <<p.from, trace.stop>>[1] = p.from /\ <<p.from, trace.stop>>[2] = trace.stop
    OBVIOUS
  <2> HIDE DEF p
  <2> QED BY <1>4, <2>1, <2>2 DEF WalksAreTransfers
<1>10. WalksClosed(tt.walks) => from.time = label.time + p.duration
  <2> SUFFICES ASSUME WalksClosed(tt.walks) PROVE from.time = label.time + p.duration
    OBVIOUS
  <2>1. JustWalked(rounds[trace.round], trace.stop)
    BY <1>5 DEF PunctualInv
  <2>2. label.parent = p
    BY DEF TracedParent
  <2>3. label.time = from.time - p.duration
    BY <1>1, <2>1, <2>2 DEF JustWalked
  <2> HIDE DEF label, from, p
  <2> QED BY <1>4, <1>5, <1>6, <2>3
<1> HIDE DEF p, label, from, a
<1>11. BroughtTo(tt, query, trace.legs, a, label, trace.stop)
  BY <1>2 DEF a
<1>12. BroughtTo(tt, query, Append(trace.legs, leg), a, from, p.from)
  <2>1. label.time + p.duration <= from.time
    BY <1>4, <1>5, <1>6
  <2> QED BY <1>4, <1>5, <1>6, <1>8, <1>9, <1>11, <2>1, BroughtByWalk
<1> HIDE DEF leg
<1>13. WalksClosed(tt.walks) =>
         LeftAt(tt, query, Append(trace.legs, leg), from, departure)
  <2>1. \A x \in Rides(trace.legs) : AlightTime(tt, trace.legs[x]) \in Int
    BY <1>11, RidesArrive
  <2> SUFFICES ASSUME WalksClosed(tt.walks)
               PROVE  LeftAt(tt, query, Append(trace.legs, leg), from, departure)
    OBVIOUS
  <2>2. from.time = label.time + leg.duration /\ leg.duration \in Nat
    BY <1>4, <1>7, <1>10
  <2> QED BY <1>3, <1>5, <1>7, <2>1, <2>2, LeftByWalk
<1>14. /\ trace'.stop = p.from /\ trace'.round = trace.round
       /\ trace'.legs = Append(trace.legs, leg)
  <2>1. trace.legs \o <<leg>> = Append(trace.legs, leg)
    BY <1>5, <1>7, AppendIsConcat
  <2> QED BY <1>1, <1>4, <1>5, <2>1
<1>15. /\ i \in DOMAIN query'.access
       /\ BroughtTo(tt', query', trace'.legs, query'.access[i],
                    rounds'[trace'.round][trace'.stop], trace'.stop)
       /\ WalksClosed(tt'.walks) =>
            LeftAt(tt', query', trace'.legs, rounds'[trace'.round][trace'.stop], departure')
  BY <1>1, <1>12, <1>13, <1>14 DEF from, a
<1> QED BY <1>15 DEF FrontInv

-----------------------------------------------------------------------------
(* Where a trace ends, it ends at the one egress link of the stop.         *)
LEMMA EndTraceFacts ==
  ASSUME SearchInv, EndTrace
  PROVE  LET i == Min(LinksTo(query.egress, trace.stop))
         IN  /\ TracedParent.kind = "egress"
             /\ LinksTo(query.egress, trace.stop) # {}
             /\ i \in DOMAIN query.egress
             /\ query.egress[i].stop = trace.stop
             /\ TracedTime = query.time - query.egress[i].duration
<1> DEFINE label == rounds[trace.round][trace.stop]
           links == LinksTo(query.egress, trace.stop)
           i     == Min(links)
           D     == {query.egress[x].duration : x \in links}
<1>1. /\ label.time # Neg
      /\ label.parent.kind \notin {"board", "transfer"}
      /\ Supported(tt, query, rounds, trace.round, rounds[trace.round],
                   trace.stop)
      /\ trace.stop \in Stops
      /\ query \in Queries
  BY DEF SearchInv, TypeOK, TraceInv, LabelsSupported, EndTrace, TracedParent
<1>2. label = EgressLabels(query)[trace.stop]
  <2>1. label # Unreached
    BY <1>1 DEF Unreached, Label
  <2> HIDE DEF label
  <2> QED BY <1>1, <2>1, Zenon DEF Supported, label
<1>3. links # {} /\ label = Label(query.time - Min(D), Egress)
  BY <1>1, <1>2 DEF EgressLabels, Unreached, Label
<1>4. /\ links \in SUBSET Nat /\ links \subseteq DOMAIN query.egress
      /\ \A x \in links : query.egress[x].stop = trace.stop
  BY <1>1, QueryFacts DEF LinksTo
<1>5. i \in links
  <2> HIDE DEF links
  <2> QED BY <1>3, <1>4, MinOfNats
<1>6. \A x \in links : x = i
  BY <1>1, <1>4, <1>5, QueriesAssumption DEF WellFormedQuery
<1>7. D = {query.egress[i].duration} /\ query.egress[i].duration \in Nat
  <2>1. query.egress[i].duration \in Nat
    BY <1>1, <1>4, <1>5, QueryFacts
  <2> HIDE DEF links, i
  <2> QED BY <1>5, <1>6, <2>1
<1>8. Min(D) = query.egress[i].duration
  <2>1. D \in SUBSET Nat /\ D # {}
    BY <1>7
  <2> HIDE DEF D, i
  <2>2. Min(D) \in D
    BY <2>1, MinOfNats
  <2> QED BY <1>7, <2>2
<1> HIDE DEF D
<1>9. label.parent.kind = "egress" /\ label.time = query.time - query.egress[i].duration
  BY <1>3, <1>8 DEF Label, Egress
<1> QED BY <1>3, <1>4, <1>5, <1>9 DEF TracedParent, TracedTime

(* The journey a trace ends with.                                          *)
LEMMA EndTraceAnswers ==
  ASSUME SearchInv, FrontInv, EndTrace
  PROVE  \E journey \in Answers :
           /\ journeys' = Append(journeys, journey)
           /\ Travelled(tt, query, journey)
           /\ WalksClosed(tt.walks) => departure = Leaving(tt, query, journey.legs)
           /\ Rides(journey.legs) = Rides(trace.legs)
<1> DEFINE links == LinksTo(query.egress, trace.stop)
           j     == Min(links)
           e     == query.egress[j]
           label == rounds[trace.round][trace.stop]
           in    == WalkIfAny(e.stop, e.duration)
           all   == trace.legs \o in
<1>1. /\ TracedParent.kind = "egress" /\ links # {}
      /\ j \in DOMAIN query.egress
      /\ e.stop = trace.stop
      /\ label.time = query.time - e.duration
  BY EndTraceFacts DEF TracedTime
<1>2. /\ pc = "trace"
      /\ journeys' = Append(journeys, [legs |-> all, arrival |-> RealArrival(all),
                                       transfers |-> Transfers(all)])
  BY <1>1 DEF EndTrace
<1>3. PICK i \in DOMAIN query.access :
        BroughtTo(tt, query, trace.legs, query.access[i], label, trace.stop)
  BY <1>2 DEF FrontInv
<1>4. WalksClosed(tt.walks) => LeftAt(tt, query, trace.legs, label, departure)
  BY <1>2 DEF FrontInv
<1> DEFINE a == query.access[i]
<1>5. /\ tt \in Timetables /\ query \in Queries
      /\ trace.legs \in Seq(Legs) /\ label.time \in Int
      /\ departure \in Int /\ a \in StreetLink /\ query.time \in Int
      /\ e \in StreetLink
  <2> HIDE DEF j, label
  <2>1. e \in StreetLink
    BY <1>1, <1>2, TraceTypes
  <2> QED BY <1>2, <2>1, TraceTypes DEF label
<1> HIDE DEF j, links, label
<1>6. RealArrival(all) = Arriving(tt, query, all)
  BY LeavingArriving, Zenon
<1>7. BroughtTo(tt, query, trace.legs, a, label, e.stop)
  BY <1>1, <1>3
<1> HIDE DEF a, e
<1>8. /\ all \in Seq(Legs)
      /\ Arriving(tt, query, all) \in Int
      /\ Arriving(tt, query, all) <= query.time
      /\ Feasible(tt, query, all, a, e, Leaving(tt, query, all), Arriving(tt, query, all))
  BY <1>1, <1>5, <1>7, BroughtHome
<1>9. \A x \in Rides(trace.legs) : AlightTime(tt, trace.legs[x]) \in Int
  BY <1>7, RidesArrive
<1>10. WalksClosed(tt.walks) => departure = Leaving(tt, query, all)
  BY <1>1, <1>4, <1>5, <1>9, LeftForHome
<1>11. Rides(all) = Rides(trace.legs)
  <2>1. e.stop \in Stops /\ e.duration \in Nat
    BY <1>5 DEF StreetLink
  <2>2. in \in {<<>>, <<Walk(e.stop, e.duration)>>}
    BY DEF WalkIfAny
  <2>3. Walk(e.stop, e.duration) \in Legs /\ ~IsRide(Walk(e.stop, e.duration))
    BY <2>1 DEF Walk, Legs, IsRide
  <2> DEFINE leg == Walk(e.stop, e.duration)
  <2> HIDE DEF in, leg
  <2>4. CASE in = <<>>
    <3>1. all = trace.legs
      BY <1>5, <2>4, ConcatEmptySeq
    <3> QED BY <3>1
  <2>5. CASE in = <<leg>>
    <3>1. leg \in Legs /\ ~IsRide(leg)
      BY <2>3 DEF leg
    <3>2. all = Append(trace.legs, leg)
      BY <1>5, <2>5, <3>1, AppendIsConcat
    <3> QED BY <1>5, <3>1, <3>2, RidesOfMore
  <2> QED BY <2>2, <2>4, <2>5 DEF leg
<1> DEFINE journey == [legs |-> all, arrival |-> RealArrival(all),
                       transfers |-> Transfers(all)]
<1> HIDE DEF all
<1>12. /\ journey.legs = all /\ journey.arrival = Arriving(tt, query, all)
       /\ journeys' = Append(journeys, journey)
  BY <1>2, <1>6
<1>13. journey \in Answers
  <2>1. Transfers(all) \in Nat
    BY <1>8, RideCountType
  <2> QED BY <1>6, <1>8, <2>1 DEF Answers
<1> HIDE DEF journey
<1>14. Travelled(tt, query, journey)
  BY <1>1, <1>8, <1>12 DEF Travelled, a, e
<1>15. /\ WalksClosed(tt.walks) => departure = Leaving(tt, query, journey.legs)
       /\ Rides(journey.legs) = Rides(trace.legs)
  BY <1>10, <1>11, <1>12
<1> QED BY <1>12, <1>13, <1>14, <1>15

-----------------------------------------------------------------------------
(***************************************************************************)
(* Proof that each journey takes more rides than the one before, for all   *)
(* timetables in which whoever is first out is first in: a round writes    *)
(* labels only for the better and rests them on such labels of the round   *)
(* before, so that a trace takes one ride in each round.                   *)
(***************************************************************************)

(* The label of round k at s is not the one of the round before.           *)
Fresh(rs, k, s) == k = 1 \/ rs[k][s].time > rs[k - 1][s].time

(* The label at s, in round k, rests on a fresh one: it is a ride from one of
   the round before, or a walk from one of its own round.                   *)
RestsOnFresh(t, rs, k, labels, s) ==
  LET p == labels[s].parent
  IN  \/ /\ p.kind = "board"
         /\ p.round = k - 1
         /\ Fresh(rs, k - 1, t.patterns[p.pattern].stops[p.alight])
      \/ /\ p.kind = "transfer"
         /\ labels[p.from].time > rs[k - 1][p.from].time

(* A round writes a label only for the better, and rests it on fresh ones. *)
Written(t, rs, k, labels) ==
  \A s \in Stops :
    \/ labels[s] = rs[k - 1][s]
    \/ /\ labels[s].time > rs[k - 1][s].time
       /\ RestsOnFresh(t, rs, k, labels, s)

FreshInv ==
  /\ rounds[1] = EgressLabels(query)
  /\ pc \in {"patterns", "scan", "walks"} =>
       \A s \in nextMarked : cur[s].time > Prev[s].time
  /\ pc = "walks" => relaxing \subseteq nextMarked
  /\ FirstOutFirstIn(tt) =>
       /\ \A k \in 2 .. K : Written(tt, rounds, k, rounds[k])
       /\ pc \in {"patterns", "scan", "walks"} => Written(tt, rounds, K + 1, cur)

(* What is written stays written while labels get later.                 *)
LEMMA WrittenStays ==
  ASSUME NEW t, NEW rs, NEW k, Written(t, rs, k, cur),
         cur \in [Stops -> Labels],
         \A s \in Stops : /\ cur[s].time \in Int /\ cur'[s].time \in Int
                          /\ rs[k - 1][s].time \in Int
                          /\ cur'[s].time >= cur[s].time,
         \A s \in Stops : \/ cur'[s] = cur[s]
                          \/ /\ cur'[s].time > rs[k - 1][s].time
                             /\ RestsOnFresh(t, rs, k, cur', s)
  PROVE  Written(t, rs, k, cur')
<1> SUFFICES ASSUME NEW s \in Stops, cur'[s] # rs[k - 1][s], cur'[s] = cur[s]
             PROVE  /\ cur'[s].time > rs[k - 1][s].time
                    /\ RestsOnFresh(t, rs, k, cur', s)
  BY DEF Written
<1> DEFINE p == cur[s].parent
<1>1. cur[s].time > rs[k - 1][s].time /\ RestsOnFresh(t, rs, k, cur, s)
  BY DEF Written
<1>2. CASE p.kind = "board" /\ p.round = k - 1
             /\ Fresh(rs, k - 1, t.patterns[p.pattern].stops[p.alight])
  BY <1>1, <1>2, Zenon DEF RestsOnFresh
<1>3. CASE p.kind = "transfer" /\ cur[p.from].time > rs[k - 1][p.from].time
  <2>1. p.from \in Stops
    <3>1. p \in Parents
      BY DEF Labels
    <3> HIDE DEF p
    <3> QED BY <1>3, <3>1 DEF Parents, NoParent, Access, Egress
  <2> HIDE DEF p
  <2>2. cur'[p.from].time > rs[k - 1][p.from].time
    BY <1>3, <2>1
  <2> QED BY <1>1, <1>3, <2>2, Zenon DEF RestsOnFresh, p
<1> QED BY <1>1, <1>2, <1>3, Zenon DEF RestsOnFresh

LEMMA RoundBefore ==
  ASSUME NEW k \in Nat \ {0}, k # 1
  PROVE  k \in 2 .. k /\ k - 1 \in 1 .. k - 1 /\ (k - 1) + 1 = k
  OBVIOUS

(* A ride that improves a stop is left with a fresh label: an older one had
   the same ride a round ago.                                              *)
LEMMA BoardedFresh ==
  ASSUME SearchInv, RidesInv, FreshInv, FirstOutFirstIn(tt),
         pc = "scan", scan.trip # 0,
         LET pattern == tt.patterns[scan.pattern]
         IN  pattern.trips[scan.trip].departures[scan.pos]
               > cur[pattern.stops[scan.pos]].time
  PROVE  Fresh(rounds, K, tt.patterns[scan.pattern].stops[scan.from])
<1> DEFINE p       == scan.pattern
           pattern == tt.patterns[p]
           from    == pattern.stops[scan.from]
           stop    == pattern.stops[scan.pos]
           leaves  == pattern.trips[scan.trip].departures[scan.pos]
<1>1. TypeOK /\ LoopsInv /\ ScanInv
  BY DEF SearchInv
<1>2. /\ p \in DOMAIN tt.patterns /\ scan.pos \in DOMAIN pattern.stops
      /\ stop \in Stops /\ leaves \in Nat
  BY <1>1, ScanFacts
<1>3. OnBoard /\ PatternAllowed(pattern, query)
  BY <1>1 DEF ScanInv
<1>4. /\ scan.trip \in DOMAIN pattern.trips
      /\ scan.from \in DOMAIN pattern.stops /\ scan.from > scan.pos
      /\ Rideable(tt, query, Prev, p, scan.trip, scan.from)
  BY <1>3, Zenon DEF OnBoard, Rideable
<1>5. from \in Stops
  <2>1. pattern.stops \in Seq(Stops)
    <3>1. tt \in Timetables /\ p \in DOMAIN tt.patterns
      BY <1>1, <1>2 DEF TypeOK
    <3> HIDE DEF p
    <3> QED BY <3>1, PatternFacts, Zenon
  <2>2. scan.from \in DOMAIN pattern.stops
    BY <1>4
  <2> HIDE DEF pattern
  <2>3. pattern.stops[scan.from] \in Stops
    BY <2>1, <2>2
  <2> QED BY <2>3
<1>6. SUFFICES ASSUME ~Fresh(rounds, K, from)
               PROVE  FALSE
  OBVIOUS
<1>7. /\ K # 1 /\ ~(Prev[from].time > rounds[K - 1][from].time)
      /\ K \in 2 .. K /\ K - 1 \in 1 .. K - 1 /\ (K - 1) + 1 = K
  <2>1. K # 1 /\ ~(Prev[from].time > rounds[K - 1][from].time)
    BY <1>6, Zenon DEF Fresh, Prev
  <2>2. K \in Nat \ {0}
    BY RoundTimes
  <2> QED BY <2>1, <2>2, RoundBefore, Zenon
<1>8. Prev[from] = rounds[K - 1][from]
  BY <1>5, <1>7, Zenon DEF FreshInv, Written, Prev
<1>9. Rideable(tt, query, rounds[K - 1], p, scan.trip, scan.from)
  BY <1>4, <1>8, Zenon DEF Rideable
<1>10. PatternKept(tt, query, rounds[K - 1], Prev, p)
  BY <1>2, <1>7, Zenon DEF RidesInv, RoundsKept, Prev
<1>11. AsLate(tt, Prev, p, scan.trip, scan.pos)
  BY <1>2, <1>4, <1>9, <1>10, Zenon DEF PatternKept
<1>12. Prev[stop].time >= leaves /\ leaves > cur[stop].time
  BY <1>11, Zenon DEF AsLate
<1>13. cur[stop].time \in Int /\ Prev[stop].time \in Int /\ cur[stop].time >= Prev[stop].time
  BY <1>2, RoundTimes, Zenon
<1> HIDE DEF stop, leaves
<1> QED BY <1>2, <1>12, <1>13

LEMMA FreshInit == Init => FreshInv
<1> SUFFICES ASSUME Init PROVE FreshInv
  OBVIOUS
<1>1. rounds = <<EgressLabels(query)>> /\ pc = "round"
  BY DEF Init
<1>2. K = 1 /\ rounds[1] = EgressLabels(query)
  BY <1>1 DEF K
<1> QED BY <1>1, <1>2 DEF FreshInv

LEMMA FreshScan ==
  ASSUME SearchInv, RidesInv, FreshInv, ScanPosition
  PROVE  FreshInv'
<1> DEFINE pattern == tt.patterns[scan.pattern]
           stop    == pattern.stops[scan.pos]
           leaves  == pattern.trips[scan.trip].departures[scan.pos]
           parent  == Board(scan.pattern, scan.trip,
                                           scan.pos, scan.from, K)
           label   == Label(leaves, parent)
           improves == /\ scan.trip # 0
                       /\ leaves > best[stop]
                       /\ leaves > cur[stop].time
<1>1. /\ tt' = tt /\ query' = query /\ rounds' = rounds /\ K' = K /\ Prev' = Prev
      /\ pc = "scan" /\ pc' \in {"patterns", "scan"}
  BY ScanMoves, Zenon
<1>2. /\ cur' = IF improves THEN [cur EXCEPT ![stop] = label] ELSE cur
      /\ nextMarked' = IF improves THEN nextMarked \cup {stop} ELSE nextMarked
  BY Zenon DEF ScanPosition
<1>3. stop \in Stops /\ (scan.trip # 0 => leaves \in Nat)
  <2>1. TypeOK /\ LoopsInv /\ ScanInv
    BY DEF SearchInv
  <2> QED BY <1>1, <2>1, ScanFacts
<1>4. /\ \A s \in Stops :
           /\ cur[s].time \in Int /\ Prev[s].time \in Int
           /\ cur[s].time >= Prev[s].time
      /\ K \in Nat \ {0} /\ cur \in [Stops -> Labels] /\ nextMarked \subseteq Stops
  BY RoundTimes DEF SearchInv, TypeOK
<1>5. \A s \in Stops : cur'[s].time \in Int /\ cur'[s].time >= cur[s].time
  BY ScanWrites, Zenon
<1>6. label.time = leaves /\ label.parent = parent
  BY DEF Label
<1>7. /\ parent.kind = "board" /\ parent.round = K
      /\ parent.pattern = scan.pattern /\ parent.alight = scan.from
  BY DEF Board
<1> HIDE DEF label, parent, leaves
<1>8. ASSUME NEW s \in Stops
      PROVE  \/ cur'[s] = cur[s]
             \/ /\ s = stop /\ improves /\ cur'[s] = label
                /\ cur'[s].time > Prev[s].time
  <2> HIDE DEF stop
  <2>1. CASE improves /\ s = stop
    <3>1. cur'[s] = label
      BY <1>2, <1>3, <1>4, <2>1
    <3> QED BY <1>3, <1>4, <1>6, <2>1, <3>1
  <2>2. CASE ~(improves /\ s = stop)
    BY <1>2, <1>3, <1>4, <2>2
  <2> QED BY <2>1, <2>2
<1>9. \A s \in nextMarked' : cur'[s].time > Prev'[s].time
  <2>1. \A s \in nextMarked : cur[s].time > Prev[s].time /\ s \in Stops
    BY <1>1, <1>4 DEF FreshInv
  <2>2. \A s \in nextMarked : cur'[s].time > Prev[s].time
    BY <1>4, <1>5, <2>1
  <2>3. improves => cur'[stop].time > Prev[stop].time
    <3>1. improves => cur'[stop] = label
      BY <1>2, <1>3, <1>4
    <3> HIDE DEF stop
    <3> QED BY <1>3, <1>4, <1>6, <3>1
  <2> HIDE DEF stop
  <2> QED BY <1>1, <1>2, <2>2, <2>3
<1>10. ASSUME FirstOutFirstIn(tt)
       PROVE  Written(tt, rounds, K + 1, cur')
  <2>1. (K + 1) - 1 = K
    BY <1>4
  <2>2. improves => Fresh(rounds, K, pattern.stops[scan.from])
    BY <1>1, <1>10, BoardedFresh DEF leaves
  <2>3. ASSUME NEW s \in Stops
        PROVE  \/ cur'[s] = cur[s]
               \/ /\ cur'[s].time > rounds[(K + 1) - 1][s].time
                  /\ RestsOnFresh(tt, rounds, K + 1, cur', s)
    <3>1. SUFFICES ASSUME improves, cur'[s] = label, cur'[s].time > Prev[s].time
                   PROVE  RestsOnFresh(tt, rounds, K + 1, cur', s)
      BY <1>8, <2>1 DEF Prev
    <3>2. cur'[s].parent = parent
      BY <1>6, <3>1
    <3> QED BY <1>7, <2>1, <2>2, <3>1, <3>2 DEF RestsOnFresh
  <2>4. Written(tt, rounds, K + 1, cur)
    BY <1>1, <1>10 DEF FreshInv
  <2>5. \A s \in Stops : rounds[(K + 1) - 1][s].time \in Int
    BY <1>4, <2>1 DEF Prev
  <2> QED BY <1>4, <1>5, <2>3, <2>4, <2>5, WrittenStays
<1> QED BY <1>1, <1>9, <1>10 DEF FreshInv

LEMMA FreshRelaxWalks ==
  ASSUME SearchInv, FreshInv, RelaxWalks
  PROVE  FreshInv'
<1> DEFINE s      == Min(relaxing)
           w(r)   == tt.walks[<<s, r>>]
           new(r) == Label(cur[s].time - w(r), Transfer(s, w(r)))
<1>1. /\ tt' = tt /\ query' = query /\ rounds' = rounds /\ K' = K /\ Prev' = Prev
      /\ pc = "walks" /\ pc' = "walks" /\ nextMarked' = nextMarked
      /\ relaxing' = relaxing \ {s}
      /\ cur' = [r \in Stops |-> IF r \in WalkImproves(s) THEN new(r) ELSE cur[r]]
  BY DEF RelaxWalks, K, Prev
<1>2. s \in Stops /\ s \in relaxing /\ cur'[s] = cur[s]
  BY RelaxWrites, Zenon
<1>3. \A r \in Stops : cur'[r].time \in Int /\ cur'[r].time >= cur[r].time
  BY RelaxWrites, Zenon
<1>4. /\ \A r \in Stops :
           /\ cur[r].time \in Int /\ Prev[r].time \in Int
           /\ cur[r].time >= Prev[r].time
      /\ K \in Nat \ {0} /\ cur \in [Stops -> Labels] /\ nextMarked \subseteq Stops
  BY RoundTimes DEF SearchInv, TypeOK
<1>5. s \in nextMarked
  BY <1>1, <1>2 DEF FreshInv
<1>6. cur'[s].time > Prev[s].time
  BY <1>1, <1>2, <1>5 DEF FreshInv
<1>7. \A r \in nextMarked : cur'[r].time > Prev[r].time
  <2>1. \A r \in nextMarked : cur[r].time > Prev[r].time /\ r \in Stops
    BY <1>1, <1>4 DEF FreshInv
  <2> QED BY <1>3, <1>4, <2>1
<1>8. ASSUME FirstOutFirstIn(tt)
      PROVE  Written(tt, rounds, K + 1, cur')
  <2>1. (K + 1) - 1 = K
    BY <1>4
  <2>2. ASSUME NEW r \in Stops
        PROVE  \/ cur'[r] = cur[r]
               \/ /\ cur'[r].time > rounds[(K + 1) - 1][r].time
                  /\ RestsOnFresh(tt, rounds, K + 1, cur', r)
    <3>1. CASE r \in WalkImproves(s)
      <4>1. cur'[r] = new(r)
        BY <1>1, <3>1
      <4>2. /\ cur'[r].time = cur[s].time - w(r)
            /\ cur'[r].parent.kind = "transfer" /\ cur'[r].parent.from = s
        BY <4>1 DEF Label, Transfer
      <4>3. cur'[r].time > cur[r].time
        BY <3>1, <4>2, Zenon DEF WalkImproves
      <4>4. cur'[r].time > Prev[r].time
        BY <1>3, <1>4, <4>3
      <4>5. RestsOnFresh(tt, rounds, K + 1, cur', r)
        BY <1>6, <2>1, <4>2 DEF RestsOnFresh, Prev
      <4> QED BY <2>1, <4>4, <4>5 DEF Prev
    <3>2. CASE r \notin WalkImproves(s)
      BY <1>1, <3>2
    <3> QED BY <3>1, <3>2
  <2>3. Written(tt, rounds, K + 1, cur)
    BY <1>1, <1>8 DEF FreshInv
  <2>4. \A r \in Stops : rounds[(K + 1) - 1][r].time \in Int
    BY <1>4, <2>1 DEF Prev
  <2> QED BY <1>3, <1>4, <2>2, <2>3, <2>4, WrittenStays
<1> QED BY <1>1, <1>7, <1>8 DEF FreshInv

(* A round appended leaves what was written in those before as it was.     *)
LEMMA WrittenOnAppend ==
  ASSUME NEW t, NEW before, NEW after, NEW k \in Nat, k >= 2,
         \A i \in 1 .. (k - 1) : after[i] = before[i],
         NEW labels, Written(t, before, k, labels)
  PROVE  Written(t, after, k, labels)
<1>1. after[k - 1] = before[k - 1]
  OBVIOUS
<1>2. \A s : Fresh(before, k - 1, s) => Fresh(after, k - 1, s)
  <2>1. CASE k - 1 = 1
    BY <2>1 DEF Fresh
  <2>2. CASE k - 1 # 1
    <3>1. after[(k - 1) - 1] = before[(k - 1) - 1]
      BY <2>2
    <3> QED BY <1>1, <3>1 DEF Fresh
  <2> QED BY <2>1, <2>2
<1>3. \A s : RestsOnFresh(t, before, k, labels, s) => RestsOnFresh(t, after, k, labels, s)
  BY <1>1, <1>2 DEF RestsOnFresh
<1> QED BY <1>1, <1>3 DEF Written

LEMMA FreshEndRound ==
  ASSUME SearchInv, FreshInv, EndRound
  PROVE  FreshInv'
<1>1. /\ tt' = tt /\ query' = query /\ cur' = cur
      /\ pc = "walks" /\ pc' \in {"collect", "round"}
      /\ K \in Nat \ {0} /\ K' = K + 1
      /\ rounds'[K + 1] = cur
      /\ \A k \in 1 .. K : rounds'[k] = rounds[k]
  BY EndRoundMoves
<1>2. rounds'[1] = EgressLabels(query')
  BY <1>1 DEF FreshInv
<1>3. ASSUME FirstOutFirstIn(tt), NEW k \in 2 .. (K + 1)
      PROVE  Written(tt, rounds', k, rounds'[k])
  <2>1. k \in Nat /\ k >= 2 /\ \A i \in 1 .. (k - 1) : rounds'[i] = rounds[i]
    BY <1>1
  <2>2. CASE k = K + 1
    <3>1. Written(tt, rounds, k, cur)
      BY <1>1, <1>3, <2>2 DEF FreshInv
    <3> QED BY <1>1, <2>1, <2>2, <3>1, WrittenOnAppend
  <2>3. CASE k # K + 1
    <3>1. k \in 2 .. K /\ rounds'[k] = rounds[k]
      BY <1>1, <2>3
    <3>2. Written(tt, rounds, k, rounds[k])
      BY <1>3, <3>1 DEF FreshInv
    <3> QED BY <2>1, <3>1, <3>2, WrittenOnAppend
  <2> QED BY <2>2, <2>3
<1> QED BY <1>1, <1>2, <1>3 DEF FreshInv

LEMMA FreshStep ==
  ASSUME SearchInv, RidesInv, FreshInv, [Next]_vars
  PROVE  FreshInv'
<1>1. CASE StartRound
  <2>1. /\ tt' = tt /\ query' = query /\ rounds' = rounds /\ K' = K /\ Prev' = Prev
        /\ cur' = Prev /\ nextMarked' = {} /\ pc' = "patterns"
    BY <1>1 DEF StartRound, K, Prev
  <2>2. K \in Nat \ {0} /\ (K + 1) - 1 = K
    BY RoundTimes
  <2>3. Written(tt, rounds, K + 1, Prev)
    BY <2>2 DEF Written, Prev
  <2> QED BY <2>1, <2>3 DEF FreshInv
<1>2. CASE SkipPattern \/ StartPattern \/ StartWalks
  <2>1. /\ tt' = tt /\ query' = query /\ rounds' = rounds /\ K' = K /\ Prev' = Prev
        /\ cur' = cur /\ nextMarked' = nextMarked /\ pc \in {"patterns", "scan", "walks"}
        /\ pc' = "walks" => relaxing' = nextMarked
    BY <1>2 DEF SkipPattern, StartPattern, StartWalks, K, Prev
  <2> QED BY <2>1 DEF FreshInv
<1>3. CASE ScanPosition
  BY <1>3, FreshScan
<1>4. CASE RelaxWalks
  BY <1>4, FreshRelaxWalks
<1>5. CASE EndRound
  BY <1>5, FreshEndRound
<1>6. CASE LastRoundDone \/ SkipRound \/ StartTrace \/ TraceRide \/ TraceWalk
             \/ EndTrace \/ Answer
  <2>1. /\ tt' = tt /\ query' = query /\ rounds' = rounds /\ K' = K
        /\ pc' \notin {"patterns", "scan", "walks"}
    BY <1>6 DEF LastRoundDone, SkipRound, StartTrace, TraceRide, TraceWalk, EndTrace,
                Answer, K
  <2> QED BY <2>1 DEF FreshInv
<1>7. CASE UNCHANGED vars
  BY <1>7 DEF vars, FreshInv, K, Prev
<1> QED BY <1>1, <1>2, <1>3, <1>4, <1>5, <1>6, <1>7 DEF Next

-----------------------------------------------------------------------------
(* How many rounds have been read for journeys, the one traced included.   *)
Collected == IF pc = "trace" THEN collecting ELSE collecting - 1

(* No round read so far leaves the origin later than departure.            *)
EndsInv ==
  /\ pc \notin {"collect", "trace", "done"} => collecting = 1 /\ journeys = <<>>
  /\ \A k \in 1 .. Collected : \A i \in UsableAccess(rounds[k]) :
       DepartOrigin(rounds[k], query.access[i]) <= departure

(* Each takes as many rides as there were rounds before the one it was found
   in, which is what a trace has left to go.                                *)
RidesTaken ==
  /\ \A n \in DOMAIN journeys : RideCount(journeys[n].legs) + 2 <= collecting
  /\ \A i, j \in DOMAIN journeys :
       i < j => RideCount(journeys[i].legs) < RideCount(journeys[j].legs)
  /\ pc = "trace" =>
       /\ Fresh(rounds, trace.round, trace.stop)
       /\ RideCount(trace.legs) + trace.round = collecting

RidesTakenInv == FirstOutFirstIn(tt) => RidesTaken

LEMMA EndsInit == Init => EndsInv
<1> SUFFICES ASSUME Init PROVE EndsInv
  OBVIOUS
<1>1. collecting = 1 /\ journeys = <<>> /\ pc = "round"
  BY DEF Init
<1> QED BY <1>1 DEF EndsInv, Collected

LEMMA EndsStep ==
  ASSUME SearchInv, EndsInv, [Next]_vars
  PROVE  EndsInv'
<1>1. CASE StartRound \/ SkipPattern \/ StartPattern \/ ScanPosition \/ StartWalks
             \/ RelaxWalks \/ EndRound \/ LastRoundDone
  <2>1. /\ pc \notin {"collect", "trace", "done"} /\ pc' \notin {"trace", "done"}
        /\ collecting' = collecting /\ journeys' = journeys
    BY <1>1, Zenon DEF StartRound, SkipPattern, StartPattern, ScanPosition, StartWalks,
                RelaxWalks, EndRound, LastRoundDone
  <2>2. collecting = 1 /\ journeys = <<>>
    BY <2>1 DEF EndsInv
  <2> QED BY <2>1, <2>2 DEF EndsInv, Collected
<1>2. CASE SkipRound
  <2> DEFINE round == rounds[collecting]
             e     == BestAccess(round)
  <2>1. /\ tt' = tt /\ query' = query /\ rounds' = rounds /\ departure' = departure
        /\ pc = "collect" /\ pc' = "collect" /\ collecting' = collecting + 1
        /\ collecting <= Len(rounds) /\ ~Improvement(round)
    BY <1>2 DEF SkipRound
  <2>2. collecting \in 1 .. K /\ departure \in Int /\ K \in Nat
    BY <2>1, BestAccessIsLatest, RoundTimes, Zenon DEF SearchInv, TypeOK
  <2>3. ASSUME NEW i \in UsableAccess(round)
        PROVE  DepartOrigin(round, query.access[i]) <= departure
    <3>1. /\ e # 0 /\ e \in UsableAccess(round)
          /\ DepartOrigin(round, query.access[i]) <= DepartOrigin(round, query.access[e])
          /\ DepartOrigin(round, query.access[e]) \in Int
          /\ DepartOrigin(round, query.access[i]) \in Int
      BY <2>1, BestAccessIsLatest, Zenon DEF SearchInv
    <3>2. ~(DepartOrigin(round, query.access[e]) > departure)
      BY <2>1, <3>1 DEF Improvement
    <3> QED BY <2>2, <3>1, <3>2
  <2>4. Collected = collecting - 1 /\ Collected' = collecting
    BY <2>1, <2>2 DEF Collected
  <2> QED BY <2>1, <2>2, <2>3, <2>4 DEF EndsInv, UsableAccess, DepartOrigin
<1>3. CASE StartTrace
  <2> DEFINE round == rounds[collecting]
             e     == BestAccess(round)
  <2>1. /\ tt' = tt /\ query' = query /\ rounds' = rounds
        /\ departure' = DepartOrigin(round, query.access[e])
        /\ pc = "collect" /\ pc' = "trace" /\ collecting' = collecting
        /\ collecting <= Len(rounds) /\ e # 0 /\ departure' > departure
    BY <1>3 DEF StartTrace, Improvement
  <2>2. collecting \in 1 .. K /\ departure \in Int /\ K \in Nat /\ DOMAIN rounds = 1 .. K
    BY <2>1, BestAccessIsLatest, RoundTimes, Zenon DEF SearchInv, TypeOK
  <2>3. /\ e \in UsableAccess(round) /\ departure' \in Int
        /\ \A i \in UsableAccess(round) : DepartOrigin(round, query.access[i]) <= departure'
    BY <2>1, BestAccessIsLatest, Zenon DEF SearchInv
  <2>4. Collected = collecting - 1 /\ Collected' = collecting
    BY <2>1, <2>2 DEF Collected
  <2>5. ASSUME NEW k \in 1 .. (collecting - 1), NEW i \in UsableAccess(rounds[k])
        PROVE  DepartOrigin(rounds[k], query.access[i]) <= departure'
    <3>1. DepartOrigin(rounds[k], query.access[i]) <= departure
      BY <2>4 DEF EndsInv
    <3>2. DepartOrigin(rounds[k], query.access[i]) \in Int
      <4>1. query.access[i].stop \in Stops /\ query.access[i].duration \in Nat
        BY QueryFacts DEF UsableAccess, SearchInv, TypeOK
      <4>2. rounds[k][query.access[i].stop].time \in Int
        BY <2>2, <4>1, LabelTime DEF SearchInv
      <4> QED BY <4>1, <4>2 DEF DepartOrigin
    <3> QED BY <2>1, <2>2, <2>3, <3>1, <3>2
  <2>6. \A k \in 1 .. collecting : \A i \in UsableAccess(rounds[k]) :
          DepartOrigin(rounds[k], query.access[i]) <= departure'
    <3>1. \A k \in 1 .. collecting : k = collecting \/ k \in 1 .. (collecting - 1)
      BY <2>2
    <3> QED BY <2>3, <2>5, <3>1
  <2> QED BY <2>1, <2>4, <2>6, Zenon DEF EndsInv, UsableAccess, DepartOrigin
<1>4. CASE TraceRide \/ TraceWalk \/ EndTrace \/ Answer
  <2>1. /\ query' = query /\ rounds' = rounds /\ departure' = departure
        /\ pc \in {"collect", "trace"} /\ pc' \in {"collect", "trace", "done"}
        /\ Collected' = Collected
    BY <1>4 DEF TraceRide, TraceWalk, EndTrace, Answer, Collected, SearchInv, TypeOK
  <2> QED BY <2>1 DEF EndsInv, UsableAccess, DepartOrigin
<1>5. CASE UNCHANGED vars
  BY <1>5 DEF vars, EndsInv, UsableAccess, DepartOrigin, Collected
<1> QED BY <1>1, <1>2, <1>3, <1>4, <1>5 DEF Next

-----------------------------------------------------------------------------
(* A leg more is a ride more, or none.                                     *)
LEMMA OneMoreRide ==
  ASSUME NEW legs \in Seq(Legs), NEW leg \in Legs
  PROVE  RideCount(Append(legs, leg))
           = RideCount(legs) + (IF IsRide(leg) THEN 1 ELSE 0)
<1> DEFINE all == Append(legs, leg)
           n   == Len(legs)
<1>1. /\ n \in Nat /\ Rides(legs) \in SUBSET (1 .. n)
      /\ Rides(all) = IF IsRide(leg) THEN Rides(legs) \cup {n + 1} ELSE Rides(legs)
  BY RidesOfMore
<1>2. IsFiniteSet(Rides(legs)) /\ RideCount(legs) \in Nat
  BY RidesFinite
<1> HIDE DEF all, n
<1>3. CASE IsRide(leg)
  <2>1. n + 1 \notin Rides(legs)
    BY <1>1
  <2>2. Cardinality(Rides(legs) \cup {n + 1}) = Cardinality(Rides(legs)) + 1
    BY <1>2, <2>1, FS_AddElement
  <2>3. RideCount(all) = RideCount(legs) + 1
    BY <1>1, <1>3, <2>2 DEF RideCount
  <2> QED BY <1>3, <2>3 DEF all
<1>4. CASE ~IsRide(leg)
  <2>1. RideCount(all) = RideCount(legs)
    BY <1>1, <1>4 DEF RideCount
  <2> QED BY <1>2, <1>4, <2>1 DEF all
<1> QED BY <1>3, <1>4

LEMMA WalksAreNoRides ==
  ASSUME NEW s \in Stops, NEW d \in Nat
  PROVE  /\ RideCount(WalkIfAny(s, d)) = 0
         /\ \A legs \in Seq(Legs) : RideCount(legs \o WalkIfAny(s, d)) = RideCount(legs)
<1> DEFINE walk == Walk(s, d)
<1>1. walk \in Legs /\ ~IsRide(walk)
  BY DEF Walk, Legs, IsRide
<1>2. RideCount(<<>>) = 0
  BY FS_EmptySet DEF RideCount, Rides
<1>3. WalkIfAny(s, d) = IF d > 0 THEN <<walk>> ELSE <<>>
  BY DEF WalkIfAny
<1> HIDE DEF walk
<1>4. ASSUME NEW legs \in Seq(Legs)
      PROVE  RideCount(legs \o WalkIfAny(s, d)) = RideCount(legs)
  <2>1. legs \o <<walk>> = Append(legs, walk) /\ legs \o <<>> = legs
    BY <1>1, AppendIsConcat, ConcatEmptySeq
  <2>2. RideCount(Append(legs, walk)) = RideCount(legs)
    BY <1>1, OneMoreRide, RidesFinite
  <2> QED BY <1>3, <2>1, <2>2
<1>5. RideCount(WalkIfAny(s, d)) = 0
  <2>1. <<>> \in Seq(Legs)
    OBVIOUS
  <2>2. RideCount(<<>> \o WalkIfAny(s, d)) = 0
    BY <1>2, <1>4, <2>1
  <2>3. WalkIfAny(s, d) \in Seq(Legs)
    BY WalkIfAnyType
  <2>4. <<>> \o WalkIfAny(s, d) = WalkIfAny(s, d)
    BY <2>3, ConcatEmptySeq
  <2> QED BY <2>2, <2>4
<1> QED BY <1>4, <1>5

(* The journey answered comes after all others.                            *)
LEMMA JourneyTraced ==
  ASSUME SearchInv, FrontInv, AnswersInv, EndTrace
  PROVE  \E journey \in Answers :
           /\ Travelled(tt, query, journey)
           /\ WalksClosed(tt.walks) => departure = Leaving(tt, query, journey.legs)
           /\ RideCount(journey.legs) = RideCount(trace.legs)
           /\ Len(journeys) \in Nat /\ DOMAIN journeys = 1 .. Len(journeys)
           /\ journeys' \in Seq(Answers)
           /\ DOMAIN journeys' = 1 .. (Len(journeys) + 1)
           /\ \A n \in 1 .. Len(journeys) : journeys'[n] = journeys[n]
           /\ journeys'[Len(journeys) + 1] = journey
<1>1. PICK journey \in Answers :
        /\ journeys' = Append(journeys, journey)
        /\ Travelled(tt, query, journey)
        /\ WalksClosed(tt.walks) => departure = Leaving(tt, query, journey.legs)
        /\ Rides(journey.legs) = Rides(trace.legs)
  BY EndTraceAnswers, Zenon
<1>2. journeys \in Seq(Answers)
  BY DEF AnswersInv
<1>3. /\ Len(journeys) \in Nat /\ DOMAIN journeys = 1 .. Len(journeys)
      /\ journeys' \in Seq(Answers)
      /\ DOMAIN journeys' = 1 .. (Len(journeys) + 1)
      /\ \A n \in 1 .. Len(journeys) : journeys'[n] = journeys[n]
      /\ journeys'[Len(journeys) + 1] = journey
  BY <1>1, <1>2
<1>4. RideCount(journey.legs) = RideCount(trace.legs)
  BY <1>1, Zenon DEF RideCount
<1> QED BY <1>1, <1>3, <1>4, Zenon

-----------------------------------------------------------------------------
(* A label traced is one of the first round, or rests on a fresh one.      *)
LEMMA TracedIsFresh ==
  ASSUME SearchInv, FreshInv, FirstOutFirstIn(tt), pc = "trace",
         Fresh(rounds, trace.round, trace.stop)
  PROVE  \/ trace.round = 1 /\ TracedParent.kind \notin {"board", "transfer"}
         \/ /\ trace.round >= 2 /\ trace.round \in 2 .. K
            /\ RestsOnFresh(tt, rounds, trace.round, rounds[trace.round], trace.stop)
<1>1. trace.round \in 1 .. K /\ trace.stop \in Stops /\ K \in Nat
  BY RoundTimes DEF SearchInv, TraceInv
<1>2. CASE trace.round = 1
  <2>1. TracedParent = EgressLabels(query)[trace.stop].parent
    BY <1>2 DEF FreshInv, TracedParent
  <2>2. TracedParent.kind \notin {"board", "transfer"}
    BY <1>1, <2>1 DEF EgressLabels, Unreached, Label, NoParent, Egress
  <2> QED BY <1>2, <2>2
<1>3. CASE trace.round # 1
  <2>1. trace.round \in 2 .. K /\ trace.round >= 2
    BY <1>1, <1>3
  <2>2. rounds[trace.round][trace.stop].time > rounds[trace.round - 1][trace.stop].time
    BY <1>3 DEF Fresh
  <2>3. Written(tt, rounds, trace.round, rounds[trace.round])
    BY <2>1 DEF FreshInv
  <2>4. \A x \in Nat : ~(x < x)
    OBVIOUS
  <2>5. rounds[trace.round][trace.stop].time \in Int
    BY <1>1, RoundTimes, LabelTime DEF SearchInv
  <2>6. rounds[trace.round][trace.stop] # rounds[trace.round - 1][trace.stop]
    BY <2>2, <2>4, <2>5
  <2> QED BY <1>1, <2>1, <2>3, <2>6 DEF Written
<1> QED BY <1>2, <1>3

LEMMA RidesTakenInit == Init => RidesTakenInv
<1> SUFFICES ASSUME Init PROVE RidesTakenInv
  OBVIOUS
<1>1. journeys = <<>> /\ pc = "round"
  BY DEF Init
<1> QED BY <1>1 DEF RidesTakenInv, RidesTaken

LEMMA RideCounts ==
  ASSUME SearchInv, AnswersInv
  PROVE  /\ collecting \in Nat
         /\ journeys \in Seq(Answers)
         /\ \A n \in DOMAIN journeys : RideCount(journeys[n].legs) \in Nat
         /\ trace.legs \in Seq(Legs) /\ trace.round \in Nat
         /\ RideCount(trace.legs) \in Nat
<1>1. /\ journeys \in Seq(Answers) /\ collecting \in Nat
      /\ trace \in [stop : Nat, round : Nat, legs : Seq(Legs)]
  BY DEF SearchInv, TypeOK, AnswersInv
<1>2. \A n \in DOMAIN journeys : journeys[n].legs \in Seq(Legs)
  <2>1. \A n \in DOMAIN journeys : journeys[n] \in Answers
    BY <1>1
  <2> QED BY <2>1 DEF Answers
<1> QED BY <1>1, <1>2, RidesFinite

LEMMA RidesStartTrace ==
  ASSUME SearchInv, AnswersInv, EndsInv, RidesTaken, StartTrace
  PROVE  RidesTaken'
<1> DEFINE round == rounds[collecting]
           e     == BestAccess(round)
           link  == query.access[e]
<1>1. /\ journeys' = journeys /\ collecting' = collecting /\ rounds' = rounds
      /\ trace' = [stop |-> link.stop, round |-> collecting,
                   legs |-> WalkIfAny(link.stop, link.duration)]
      /\ pc = "collect" /\ collecting <= Len(rounds)
      /\ e # 0 /\ DepartOrigin(round, link) > departure
  BY DEF StartTrace, Improvement
<1>2. /\ collecting \in 1 .. K /\ e \in UsableAccess(round)
      /\ link.stop \in Stops /\ e \in DOMAIN query.access
  BY <1>1, BestAccessIsLatest, Zenon DEF SearchInv
<1>3. link.duration \in Nat
  BY <1>2, QueryFacts DEF SearchInv, TypeOK
<1>4. RideCount(trace'.legs) = 0
  BY <1>1, <1>2, <1>3, WalksAreNoRides
<1>5. Fresh(rounds, collecting, link.stop)
  <2> SUFFICES ASSUME collecting # 1,
                      ~(round[link.stop].time > rounds[collecting - 1][link.stop].time)
               PROVE  FALSE
    BY Zenon DEF Fresh
  <2> DEFINE before == rounds[collecting - 1]
  <2>1. K \in Nat /\ DOMAIN rounds = 1 .. K
    BY RoundTimes
  <2>2. collecting - 1 \in 1 .. K
    BY <1>2, <2>1
  <2>3. /\ round[link.stop].time \in Moments /\ before[link.stop].time \in Moments
    BY <1>2, <2>1, <2>2, RoundFacts DEF SearchInv
  <2>4. round[link.stop].time # Neg
    BY <1>2 DEF UsableAccess
  <2> HIDE DEF before, round, link
  <2>5. before[link.stop].time # Neg /\ before[link.stop].time >= round[link.stop].time
    BY <2>3, <2>4, NegAssumption DEF before, Moments
  <2>6. e \in UsableAccess(before)
    BY <1>2, <2>5 DEF UsableAccess, link
  <2>7. collecting - 1 \in 1 .. Collected
    BY <1>1, <1>2, <2>1, <2>2 DEF Collected
  <2>8. DepartOrigin(before, link) <= departure
    BY <2>6, <2>7 DEF EndsInv, before, link
  <2>9. DepartOrigin(before, link) >= DepartOrigin(round, link)
        /\ DepartOrigin(before, link) \in Int /\ DepartOrigin(round, link) \in Int
    BY <1>3, <2>3, <2>5, NegAssumption DEF DepartOrigin, Moments
  <2>10. departure \in Int
    BY DEF SearchInv, TypeOK
  <2> QED BY <1>1, <2>8, <2>9, <2>10 DEF round, link
<1>6. trace'.round = collecting /\ trace'.stop = link.stop
  BY <1>1
<1>7. collecting \in Nat
  BY RideCounts
<1> HIDE DEF link
<1> QED BY <1>1, <1>4, <1>5, <1>6, <1>7 DEF RidesTaken

LEMMA RidesTraceRide ==
  ASSUME SearchInv, AnswersInv, FreshInv, FirstOutFirstIn(tt), RidesTaken, TraceRide
  PROVE  RidesTaken'
<1> DEFINE p    == TracedParent
           from == tt.patterns[p.pattern].stops[p.alight]
           leg  == Ride(p.pattern, p.trip, p.board, p.alight)
<1>1. /\ journeys' = journeys /\ collecting' = collecting /\ rounds' = rounds
      /\ pc = "trace" /\ p.kind = "board"
      /\ trace' = [trace EXCEPT !.stop = from, !.round = p.round, !.legs = Append(@, leg)]
  BY DEF TraceRide
<1>2. Fresh(rounds, trace.round, trace.stop)
      /\ RideCount(trace.legs) + trace.round = collecting
  BY <1>1 DEF RidesTaken
<1>3. /\ p.round = trace.round - 1
      /\ Fresh(rounds, trace.round - 1, from)
  <2>1. RestsOnFresh(tt, rounds, trace.round, rounds[trace.round], trace.stop)
    BY <1>1, <1>2, TracedIsFresh
  <2> QED BY <1>1, <2>1, Zenon DEF RestsOnFresh, TracedParent
<1>4. leg \in Legs /\ IsRide(leg)
  <2>1. /\ p.pattern \in Nat /\ p.trip \in Nat /\ p.board \in Nat /\ p.alight \in Nat
    BY <1>1, TracedRide, Zenon
  <2> QED BY <2>1 DEF Ride, Legs, IsRide
<1> HIDE DEF p, leg, from
<1>5. trace \in [stop : Nat, round : Nat, legs : Seq(Legs)]
  BY DEF SearchInv, TypeOK
<1>6. /\ trace'.stop = from /\ trace'.round = p.round
      /\ trace'.legs = Append(trace.legs, leg)
  BY <1>1, <1>5
<1>7. RideCount(trace'.legs) = RideCount(trace.legs) + 1
  BY <1>4, <1>5, <1>6, OneMoreRide
<1>8. /\ collecting \in Nat /\ RideCount(trace.legs) \in Nat /\ trace.round \in Nat
  BY RideCounts
<1>9. RideCount(trace'.legs) + trace'.round = collecting
  BY <1>2, <1>3, <1>6, <1>7, <1>8
<1>10. Fresh(rounds, trace'.round, trace'.stop)
  BY <1>3, <1>6
<1> QED BY <1>1, <1>9, <1>10 DEF RidesTaken

LEMMA RidesTraceWalk ==
  ASSUME SearchInv, AnswersInv, FreshInv, FirstOutFirstIn(tt), RidesTaken, TraceWalk
  PROVE  RidesTaken'
<1> DEFINE p == TracedParent
<1>1. /\ journeys' = journeys /\ collecting' = collecting /\ rounds' = rounds
      /\ pc = "trace" /\ p.kind = "transfer"
      /\ trace' = [trace EXCEPT !.stop = p.from,
                                !.legs = @ \o WalkIfAny(p.from, p.duration)]
  BY DEF TraceWalk
<1>2. Fresh(rounds, trace.round, trace.stop)
      /\ RideCount(trace.legs) + trace.round = collecting
  BY <1>1 DEF RidesTaken
<1>3. Fresh(rounds, trace.round, p.from)
  <2>1. RestsOnFresh(tt, rounds, trace.round, rounds[trace.round], trace.stop)
    BY <1>1, <1>2, TracedIsFresh
  <2> QED BY <1>1, <2>1, Zenon DEF RestsOnFresh, TracedParent, Fresh
<1>4. p.from \in Stops /\ p.duration \in Nat /\ trace.stop \in Stops
  <2>1. p.from \in Stops /\ p.duration \in Nat
    BY <1>1, TracedWalk, Zenon
  <2> QED BY <1>1, <2>1 DEF SearchInv, TraceInv
<1> HIDE DEF p
<1>5. trace \in [stop : Nat, round : Nat, legs : Seq(Legs)]
  BY DEF SearchInv, TypeOK
<1>6. /\ trace'.stop = p.from /\ trace'.round = trace.round
      /\ trace'.legs = trace.legs \o WalkIfAny(p.from, p.duration)
  BY <1>1, <1>5
<1>7. RideCount(trace'.legs) = RideCount(trace.legs)
  BY <1>4, <1>5, <1>6, WalksAreNoRides
<1> QED BY <1>1, <1>2, <1>3, <1>6, <1>7 DEF RidesTaken

LEMMA RidesEndTrace ==
  ASSUME SearchInv, FreshInv, FrontInv, AnswersInv, FirstOutFirstIn(tt), RidesTaken,
         EndTrace
  PROVE  RidesTaken'
<1>1. /\ pc = "trace" /\ pc' = "collect" /\ collecting' = collecting + 1
      /\ TracedParent.kind \notin {"board", "transfer"}
  BY DEF EndTrace
<1>2. Fresh(rounds, trace.round, trace.stop)
      /\ RideCount(trace.legs) + trace.round = collecting
  BY <1>1 DEF RidesTaken
<1>3. trace.round = 1
  <2>1. ~RestsOnFresh(tt, rounds, trace.round, rounds[trace.round], trace.stop)
    BY <1>1, Zenon DEF RestsOnFresh, TracedParent
  <2> QED BY <1>1, <1>2, <2>1, TracedIsFresh
<1>4. PICK journey \in Answers :
        /\ RideCount(journey.legs) = RideCount(trace.legs)
        /\ Len(journeys) \in Nat /\ DOMAIN journeys = 1 .. Len(journeys)
        /\ DOMAIN journeys' = 1 .. (Len(journeys) + 1)
        /\ \A n \in 1 .. Len(journeys) : journeys'[n] = journeys[n]
        /\ journeys'[Len(journeys) + 1] = journey
  BY JourneyTraced, Zenon
<1>5. /\ collecting \in Nat /\ RideCount(trace.legs) \in Nat
      /\ \A n \in DOMAIN journeys : RideCount(journeys[n].legs) \in Nat
  BY RideCounts
<1>6. RideCount(journey.legs) + 1 = collecting /\ RideCount(journey.legs) \in Nat
  BY <1>2, <1>3, <1>4, <1>5
<1>7. \A n \in 1 .. Len(journeys) :
        /\ RideCount(journeys'[n].legs) \in Nat
        /\ RideCount(journeys'[n].legs) + 2 <= collecting
  BY <1>4, <1>5 DEF RidesTaken
<1>8. ASSUME NEW n \in DOMAIN journeys'
      PROVE  RideCount(journeys'[n].legs) + 2 <= collecting'
  <2>1. CASE n = Len(journeys) + 1
    <3>1. journeys'[n] = journey
      BY <1>4, <2>1
    <3> QED BY <1>1, <1>5, <1>6, <3>1
  <2>2. CASE n # Len(journeys) + 1
    <3>1. n \in 1 .. Len(journeys)
      BY <1>4, <2>2
    <3> QED BY <1>1, <1>5, <1>7, <3>1
  <2> QED BY <2>1, <2>2
<1>9. ASSUME NEW i \in DOMAIN journeys', NEW j \in DOMAIN journeys', i < j
      PROVE  RideCount(journeys'[i].legs) < RideCount(journeys'[j].legs)
  <2>1. i \in 1 .. Len(journeys) /\ journeys'[i] = journeys[i]
    BY <1>4, <1>9
  <2>2. CASE j = Len(journeys) + 1
    <3>1. journeys'[j] = journey
      BY <1>4, <2>2
    <3> QED BY <1>5, <1>6, <1>7, <2>1, <3>1
  <2>3. CASE j # Len(journeys) + 1
    BY <1>4, <1>9, <2>1, <2>3 DEF RidesTaken
  <2> QED BY <2>2, <2>3
<1> QED BY <1>1, <1>8, <1>9 DEF RidesTaken

LEMMA RidesTakenStep ==
  ASSUME SearchInv, FreshInv, FrontInv, AnswersInv, EndsInv, RidesTakenInv,
         [Next]_vars
  PROVE  RidesTakenInv'
<1> SUFFICES ASSUME FirstOutFirstIn(tt') PROVE RidesTaken'
  BY DEF RidesTakenInv
<1>1. tt' = tt
  <2>1. CASE StartRound \/ LastRoundDone \/ SkipPattern \/ StartPattern \/ StartWalks
               \/ RelaxWalks \/ EndRound
    BY <2>1 DEF StartRound, LastRoundDone, SkipPattern, StartPattern, StartWalks,
                RelaxWalks, EndRound
  <2>2. CASE ScanPosition
    BY <2>2, ScanMoves, Zenon
  <2>3. CASE SkipRound \/ StartTrace \/ TraceRide \/ TraceWalk \/ EndTrace \/ Answer
    BY <2>3 DEF SkipRound, StartTrace, TraceRide, TraceWalk, EndTrace, Answer
  <2>4. CASE UNCHANGED vars
    BY <2>4 DEF vars
  <2> QED BY <2>1, <2>2, <2>3, <2>4 DEF Next
<1>2. FirstOutFirstIn(tt) /\ RidesTaken
  BY <1>1 DEF RidesTakenInv
<1>3. CASE StartRound \/ SkipPattern \/ StartPattern \/ ScanPosition \/ StartWalks
             \/ RelaxWalks \/ EndRound \/ LastRoundDone \/ Answer
  <2>1. journeys' = journeys /\ collecting' = collecting /\ pc' # "trace"
    BY <1>3, Zenon DEF StartRound, SkipPattern, StartPattern, ScanPosition, StartWalks,
                RelaxWalks, EndRound, LastRoundDone, Answer
  <2> QED BY <1>2, <2>1 DEF RidesTaken
<1>4. CASE SkipRound
  <2>1. journeys' = journeys /\ collecting' = collecting + 1 /\ pc' = "collect"
    BY <1>4 DEF SkipRound
  <2>2. \A n \in DOMAIN journeys : RideCount(journeys[n].legs) + 2 <= collecting + 1
    BY <1>2, RideCounts DEF RidesTaken
  <2> QED BY <1>2, <2>1, <2>2 DEF RidesTaken
<1>5. CASE StartTrace
  BY <1>2, <1>5, RidesStartTrace
<1>6. CASE TraceRide
  BY <1>2, <1>6, RidesTraceRide
<1>7. CASE TraceWalk
  BY <1>2, <1>7, RidesTraceWalk
<1>8. CASE EndTrace
  BY <1>2, <1>8, RidesEndTrace
<1>9. CASE UNCHANGED vars
  BY <1>2, <1>9 DEF vars, RidesTaken
<1> QED BY <1>3, <1>4, <1>5, <1>6, <1>7, <1>8, <1>9 DEF Next

-----------------------------------------------------------------------------
(* All of it is kept by every step.                                        *)
LEMMA AnswersInit == Init => FrontInv /\ AnswersInv /\ LaterInv
<1> SUFFICES ASSUME Init PROVE FrontInv /\ AnswersInv /\ LaterInv
  OBVIOUS
<1>1. pc = "round" /\ journeys = <<>>
  BY DEF Init
<1> QED BY <1>1 DEF FrontInv, AnswersInv, LaterInv

LEMMA FrontStep ==
  ASSUME SearchInv, PunctualInv, FrontInv, [Next]_vars
  PROVE  FrontInv'
<1>1. CASE StartRound \/ SkipPattern \/ StartPattern \/ ScanPosition \/ StartWalks
             \/ RelaxWalks \/ EndRound \/ LastRoundDone \/ SkipRound \/ EndTrace \/ Answer
  <2>1. pc' # "trace"
    BY <1>1, Zenon DEF StartRound, SkipPattern, StartPattern, ScanPosition, StartWalks,
                RelaxWalks, EndRound, LastRoundDone, SkipRound, EndTrace, Answer
  <2> QED BY <2>1 DEF FrontInv
<1>2. CASE StartTrace
  BY <1>2, StartTraceFront
<1>3. CASE TraceRide
  BY <1>3, TraceRideFront
<1>4. CASE TraceWalk
  BY <1>4, TraceWalkFront
<1>5. CASE UNCHANGED vars
  BY <1>5, Zenon DEF vars, FrontInv
<1> QED BY <1>1, <1>2, <1>3, <1>4, <1>5 DEF Next

LEMMA AnswersStep ==
  ASSUME SearchInv, FrontInv, AnswersInv, [Next]_vars
  PROVE  AnswersInv'
<1>1. CASE StartRound \/ SkipPattern \/ StartPattern \/ ScanPosition \/ StartWalks
             \/ RelaxWalks \/ EndRound \/ LastRoundDone \/ SkipRound \/ StartTrace
             \/ TraceRide \/ TraceWalk \/ Answer \/ UNCHANGED vars
  <2>1. journeys' = journeys /\ tt' = tt /\ query' = query
    BY <1>1, Zenon DEF StartRound, SkipPattern, StartPattern, ScanPosition, StartWalks,
                RelaxWalks, EndRound, LastRoundDone, SkipRound, StartTrace, TraceRide,
                TraceWalk, Answer, vars
  <2> QED BY <2>1, Zenon DEF AnswersInv
<1>2. CASE EndTrace
  <2>1. tt' = tt /\ query' = query
    BY <1>2, Zenon DEF EndTrace
  <2>2. PICK journey \in Answers :
          /\ Travelled(tt, query, journey)
          /\ Len(journeys) \in Nat /\ DOMAIN journeys = 1 .. Len(journeys)
          /\ journeys' \in Seq(Answers)
          /\ DOMAIN journeys' = 1 .. (Len(journeys) + 1)
          /\ \A n \in 1 .. Len(journeys) : journeys'[n] = journeys[n]
          /\ journeys'[Len(journeys) + 1] = journey
    BY <1>2, JourneyTraced, Zenon
  <2>3. ASSUME NEW n \in DOMAIN journeys'
        PROVE  Travelled(tt, query, journeys'[n])
    <3>1. CASE n = Len(journeys) + 1
      BY <2>2, <3>1
    <3>2. CASE n # Len(journeys) + 1
      <4>1. n \in DOMAIN journeys /\ journeys'[n] = journeys[n]
        BY <2>2, <3>2
      <4> QED BY <4>1, Zenon DEF AnswersInv
    <3> QED BY <3>1, <3>2
  <2> QED BY <2>1, <2>2, <2>3, Zenon DEF AnswersInv
<1> QED BY <1>1, <1>2 DEF Next

LEMMA LaterStep ==
  ASSUME SearchInv, FrontInv, AnswersInv, LaterInv, [Next]_vars
  PROVE  LaterInv'
<1>1. CASE StartRound \/ SkipPattern \/ StartPattern \/ ScanPosition \/ StartWalks
             \/ RelaxWalks \/ EndRound \/ LastRoundDone \/ SkipRound \/ Answer
             \/ TraceRide \/ TraceWalk \/ UNCHANGED vars
  <2>1. /\ journeys' = journeys /\ departure' = departure /\ tt' = tt /\ query' = query
        /\ pc' = "trace" => pc = "trace"
    BY <1>1, Zenon DEF StartRound, SkipPattern, StartPattern, ScanPosition, StartWalks,
                RelaxWalks, EndRound, LastRoundDone, SkipRound, Answer, TraceRide,
                TraceWalk, vars
  <2> QED BY <2>1, Zenon DEF LaterInv
<1>2. SUFFICES ASSUME StartTrace \/ EndTrace, WalksClosed(tt'.walks)
               PROVE  /\ \A n \in DOMAIN journeys' :
                           /\ Leaving(tt', query', journeys'[n].legs) \in Int
                           /\ Leaving(tt', query', journeys'[n].legs) <= departure'
                           /\ pc' = "trace" =>
                                Leaving(tt', query', journeys'[n].legs) < departure'
                      /\ \A i, j \in DOMAIN journeys' :
                           i < j => Leaving(tt', query', journeys'[i].legs)
                                      < Leaving(tt', query', journeys'[j].legs)
  BY <1>1, Zenon DEF Next, LaterInv
<1>3. tt' = tt /\ query' = query
  BY <1>2, Zenon DEF StartTrace, EndTrace
<1> DEFINE leaves(n) == Leaving(tt, query, journeys[n].legs)
<1>4. /\ \A n \in DOMAIN journeys :
           /\ leaves(n) \in Int /\ leaves(n) <= departure
           /\ pc = "trace" => leaves(n) < departure
      /\ \A i, j \in DOMAIN journeys : i < j => leaves(i) < leaves(j)
  BY <1>2, <1>3, Zenon DEF LaterInv
<1>5. departure \in Int
  BY DEF SearchInv, TypeOK
<1>6. CASE StartTrace
  <2>1. journeys' = journeys /\ departure' > departure
    BY <1>6 DEF StartTrace, Improvement
  <2>2. departure' \in Int
    BY <1>6, StartTraceStep DEF SearchInv, TypeOK
  <2> HIDE DEF leaves
  <2>3. \A n \in DOMAIN journeys :
          leaves(n) \in Int /\ leaves(n) <= departure' /\ leaves(n) < departure'
    BY <1>4, <1>5, <2>1, <2>2
  <2> QED BY <1>3, <1>4, <2>1, <2>3 DEF leaves
<1>7. CASE EndTrace
  <2>1. pc = "trace" /\ pc' = "collect" /\ departure' = departure
    BY <1>7 DEF EndTrace
  <2>2. PICK journey \in Answers :
          /\ WalksClosed(tt.walks) => departure = Leaving(tt, query, journey.legs)
          /\ Len(journeys) \in Nat /\ DOMAIN journeys = 1 .. Len(journeys)
          /\ DOMAIN journeys' = 1 .. (Len(journeys) + 1)
          /\ \A n \in 1 .. Len(journeys) : journeys'[n] = journeys[n]
          /\ journeys'[Len(journeys) + 1] = journey
    BY <1>7, JourneyTraced, Zenon
  <2> DEFINE after(n) == Leaving(tt, query, journeys'[n].legs)
             last     == Len(journeys) + 1
  <2>3. after(last) = departure
    BY <1>2, <1>3, <2>2, Zenon
  <2>4. \A n \in 1 .. Len(journeys) : after(n) = leaves(n)
    BY <2>2, Zenon
  <2>5. \A n \in 1 .. Len(journeys) : leaves(n) \in Int /\ leaves(n) < departure
    BY <1>4, <2>1, <2>2, Zenon
  <2> HIDE DEF after, leaves
  <2>6. \A n \in DOMAIN journeys' : after(n) \in Int /\ after(n) <= departure
    <3> SUFFICES ASSUME NEW n \in DOMAIN journeys'
                 PROVE  after(n) \in Int /\ after(n) <= departure
      OBVIOUS
    <3>1. n \in 1 .. Len(journeys) \/ n = last
      BY <2>2
    <3>2. CASE n \in 1 .. Len(journeys)
      BY <1>5, <2>4, <2>5, <3>2
    <3>3. CASE n = last
      BY <1>5, <2>3, <3>3
    <3> QED BY <3>1, <3>2, <3>3
  <2>7. ASSUME NEW i \in DOMAIN journeys', NEW j \in DOMAIN journeys', i < j
        PROVE  after(i) < after(j)
    <3>1. i \in 1 .. Len(journeys)
      BY <2>2, <2>7
    <3>2. CASE j = last
      BY <2>3, <2>4, <2>5, <3>1, <3>2
    <3>3. CASE j # last
      <4>1. j \in 1 .. Len(journeys)
        BY <2>2, <2>7, <3>3
      <4> QED BY <1>4, <2>2, <2>4, <2>7, <3>1, <4>1
    <3> QED BY <3>2, <3>3
  <2> QED BY <1>3, <2>1, <2>6, <2>7 DEF after
<1> QED BY <1>2, <1>6, <1>7

(* What the proof needs to be inductive.                                   *)
JourneyInv ==
  KeptInv /\ PunctualInv /\ FrontInv /\ AnswersInv /\ LaterInv
          /\ FreshInv /\ EndsInv /\ RidesTakenInv

LEMMA JourneyInvariance == Spec => []JourneyInv
<1>1. Init => JourneyInv
  BY InitInv, MarksInit, RidesInit, WalksInit, PunctualInit, AnswersInit, FreshInit,
     EndsInit, RidesTakenInit DEF JourneyInv, KeptInv
<1>2. JourneyInv /\ [Next]_vars => JourneyInv'
  BY NextInv, MarksStep, RidesStep, WalksStep, PunctualStep, FrontStep, AnswersStep,
     LaterStep, FreshStep, EndsStep, RidesTakenStep DEF JourneyInv, KeptInv
<1> QED BY <1>1, <1>2, PTL DEF Spec

(* Every journey of an arrive-by search can be travelled from an access link
   to an egress link when it leaves just in time, arrives when its arrival_s
   says and by the deadline.  Each takes more rides than the one before where
   trips keep their order, and leaves later where walks are closed.          *)
THEOREM JourneysAreJustInTime == Spec => []JourneysMeetDeadline
<1>1. JourneyInv => JourneysMeetDeadline
  <2> SUFFICES ASSUME JourneyInv PROVE JourneysMeetDeadline
    OBVIOUS
  <2>1. \A n \in DOMAIN journeys :
          LeavesAt(journeys[n].legs) = Leaving(tt, query, journeys[n].legs)
    BY LeavingArriving, Zenon
  <2>2. \A n \in DOMAIN journeys : Travelled(tt, query, journeys[n])
    BY Zenon DEF JourneyInv, AnswersInv
  <2>3. ASSUME NEW n \in DOMAIN journeys
        PROVE  /\ journeys[n].arrival <= query.time
               /\ \E i \in DOMAIN query.access, j \in DOMAIN query.egress :
                    Feasible(tt, query, journeys[n].legs, query.access[i],
                             query.egress[j], LeavesAt(journeys[n].legs),
                             journeys[n].arrival)
    BY <2>1, <2>2, Zenon DEF Travelled
  <2>4. ASSUME NEW i \in DOMAIN journeys, NEW j \in DOMAIN journeys, i < j,
               WalksClosed(tt.walks)
        PROVE  LeavesAt(journeys[i].legs) < LeavesAt(journeys[j].legs)
    BY <2>1, <2>4, Zenon DEF JourneyInv, LaterInv
  <2>5. ASSUME NEW i \in DOMAIN journeys, NEW j \in DOMAIN journeys, i < j,
               FirstOutFirstIn(tt)
        PROVE  RideCount(journeys[i].legs) < RideCount(journeys[j].legs)
    BY <2>5, Zenon DEF JourneyInv, RidesTakenInv, RidesTaken
  <2> QED BY <2>3, <2>4, <2>5, Zenon DEF JourneysMeetDeadline
<1> QED BY <1>1, JourneyInvariance, PTL

-----------------------------------------------------------------------------
(***************************************************************************)
(* Proof that the answer leaves exactly as late as one can, for every      *)
(* number of rides, in all timetables without walks between stops in which *)
(* whoever is first out is first in.  Going forwards from any moment to be *)
(* in time, the last round that takes no more rides is at an access stop   *)
(* no earlier; and a journey answered is itself such a way forwards.       *)
(***************************************************************************)

(* Once the rounds are over, the last one is as far as the query goes or has
   whatever can be ridden to it.                                            *)
ClosedInv ==
  FirstOutFirstIn(tt) /\ pc \in {"collect", "trace", "done"} =>
    \/ K > query.maxRounds
    \/ \A p \in DOMAIN tt.patterns :
         PatternKept(tt, query, rounds[K], rounds[K], p)

LEMMA ClosedInit == Init => ClosedInv
BY DEF Init, ClosedInv

LEMMA ClosedStep ==
  ASSUME KeptInv, ClosedInv, [Next]_vars
  PROVE  ClosedInv'
<1>1. CASE StartRound \/ SkipPattern \/ StartPattern \/ ScanPosition \/ StartWalks
             \/ RelaxWalks
  <2>1. pc' \notin {"collect", "trace", "done"}
    BY <1>1, Zenon DEF StartRound, SkipPattern, StartPattern, ScanPosition, StartWalks,
                RelaxWalks
  <2> QED BY <2>1 DEF ClosedInv
<1>2. CASE LastRoundDone
  <2>1. K' > query'.maxRounds
    BY <1>2 DEF LastRoundDone, K
  <2> QED BY <2>1 DEF ClosedInv
<1>3. CASE EndRound
  <2> SUFFICES ASSUME FirstOutFirstIn(tt'), pc' = "collect"
               PROVE  \A p \in DOMAIN tt'.patterns :
                        PatternKept(tt', query', rounds'[K'], rounds'[K'], p)
    <3>1. pc' \in {"collect", "round"}
      BY <1>3, EndRoundMoves DEF KeptInv
    <3> QED BY <3>1 DEF ClosedInv
  <2>1. /\ tt' = tt /\ query' = query /\ pc = "walks" /\ touched = {}
        /\ K' = K + 1 /\ rounds'[K + 1] = cur
    BY <1>3, EndRoundMoves DEF KeptInv
  <2>2. nextMarked \cup walked = {}
    <3> DEFINE improved == nextMarked \cup walked
    <3>1. pc' = IF improved = {} THEN "collect" ELSE "round"
      BY <1>3 DEF EndRound
    <3> HIDE DEF improved
    <3>2. improved = {}
      BY <3>1
    <3> QED BY <3>2 DEF improved
  <2>3. cur = Prev
    <3>1. \A s \in Stops : cur[s] = Prev[s]
      BY <2>1, <2>2 DEF KeptInv, MarksInv
    <3>2. cur \in [Stops -> Labels] /\ Prev \in [Stops -> Labels]
      BY RoundFacts DEF KeptInv, SearchInv, TypeOK
    <3> HIDE DEF Prev
    <3> QED BY <3>1, <3>2
  <2>4. \A p \in DOMAIN tt.patterns : PatternKept(tt, query, Prev, cur, p)
    BY <2>1 DEF KeptInv, RidesInv, PatternsKept
  <2> QED BY <2>1, <2>3, <2>4
<1>4. CASE SkipRound \/ StartTrace \/ TraceRide \/ TraceWalk \/ EndTrace \/ Answer
  <2>1. /\ tt' = tt /\ query' = query /\ rounds' = rounds /\ K' = K
        /\ pc \in {"collect", "trace", "done"}
    BY <1>4 DEF SkipRound, StartTrace, TraceRide, TraceWalk, EndTrace, Answer, K
  <2> QED BY <2>1 DEF ClosedInv
<1>5. CASE UNCHANGED vars
  BY <1>5 DEF vars, ClosedInv, K
<1> QED BY <1>1, <1>2, <1>3, <1>4, <1>5 DEF Next

(* Whatever the rounds read so far have at the origin, a journey of no more
   rides leaves as late, if that is after Neg; and all leave after Neg.     *)
OfferInv ==
  WalksClosed(tt.walks) =>
    /\ departure >= Neg
    /\ pc = "trace" => departure > Neg /\ collecting <= K
    /\ \A n \in DOMAIN journeys : Leaving(tt, query, journeys[n].legs) > Neg
    /\ \/ departure = Neg
       \/ pc = "trace"
       \/ \E n \in DOMAIN journeys : Leaving(tt, query, journeys[n].legs) = departure
    /\ pc = "done" => collecting > K
    /\ FirstOutFirstIn(tt) =>
         \A k \in 1 .. (collecting - 1) : \A i \in UsableAccess(rounds[k]) :
           \/ DepartOrigin(rounds[k], query.access[i]) <= Neg
           \/ \E n \in DOMAIN journeys :
                /\ RideCount(journeys[n].legs) < k
                /\ Leaving(tt, query, journeys[n].legs)
                     >= DepartOrigin(rounds[k], query.access[i])

LEMMA OfferInit == Init => OfferInv
BY NegAssumption DEF Init, OfferInv

LEMMA OfferStep ==
  ASSUME JourneyInv, OfferInv, [Next]_vars
  PROVE  OfferInv'
<1>0. SearchInv /\ EndsInv /\ RidesTakenInv /\ LaterInv /\ AnswersInv /\ FrontInv
      /\ departure \in Int /\ Neg \in Int
  BY NegAssumption DEF JourneyInv, KeptInv, SearchInv, TypeOK
<1>1. CASE StartRound \/ SkipPattern \/ StartPattern \/ ScanPosition \/ StartWalks
             \/ RelaxWalks \/ EndRound \/ LastRoundDone
  <2>1. /\ pc \notin {"collect", "trace", "done"} /\ pc' \notin {"trace", "done"}
        /\ collecting' = collecting /\ journeys' = journeys /\ departure' = departure
        /\ tt' = tt /\ query' = query
    BY <1>1, Zenon DEF StartRound, SkipPattern, StartPattern, ScanPosition, StartWalks,
                RelaxWalks, EndRound, LastRoundDone
  <2>2. collecting' = 1
    BY <1>0, <2>1 DEF EndsInv
  <2> QED BY <2>1, <2>2 DEF OfferInv
<1>2. CASE SkipRound
  <2> DEFINE round == rounds[collecting]
             leaves(n) == Leaving(tt, query, journeys[n].legs)
  <2>1. /\ tt' = tt /\ query' = query /\ rounds' = rounds /\ departure' = departure
        /\ pc = "collect" /\ pc' = "collect" /\ collecting' = collecting + 1
        /\ journeys' = journeys /\ collecting <= Len(rounds)
    BY <1>2 DEF SkipRound
  <2>2. collecting \in Nat \ {0}
    BY <1>0 DEF SearchInv, TypeOK, LoopsInv
  <2> SUFFICES ASSUME WalksClosed(tt.walks) PROVE OfferInv'
    BY <2>1 DEF OfferInv
  <2>3. EndsInv'
    BY <1>0, <1>2, EndsStep DEF Next
  <2>4. \A i \in UsableAccess(round) : DepartOrigin(round, query.access[i]) <= departure
    <3>1. collecting \in 1 .. Collected'
      BY <2>1, <2>2 DEF Collected
    <3> QED BY <2>1, <2>3, <3>1 DEF EndsInv, DepartOrigin, UsableAccess
  <2>5. \A i \in UsableAccess(round) : DepartOrigin(round, query.access[i]) \in Int
    BY <1>0, <2>1, BestAccessIsLatest DEF SearchInv
  <2>6. departure = Neg \/ \E n \in DOMAIN journeys : leaves(n) = departure
    BY <2>1 DEF OfferInv
  <2>7. FirstOutFirstIn(tt) =>
          \A n \in DOMAIN journeys : RideCount(journeys[n].legs) < collecting
    <3>1. \A n \in DOMAIN journeys : RideCount(journeys[n].legs) \in Nat
      BY <1>0, RideCounts
    <3> QED BY <1>0, <2>2, <3>1 DEF RidesTakenInv, RidesTaken
  <2>8. ASSUME FirstOutFirstIn(tt), NEW k \in 1 .. collecting,
               NEW i \in UsableAccess(rounds[k])
        PROVE  \/ DepartOrigin(rounds[k], query.access[i]) <= Neg
               \/ \E n \in DOMAIN journeys :
                    /\ RideCount(journeys[n].legs) < k
                    /\ leaves(n) >= DepartOrigin(rounds[k], query.access[i])
    <3>1. CASE k = collecting
      <4> DEFINE by == DepartOrigin(round, query.access[i])
      <4>1. by <= departure /\ by \in Int
        BY <2>4, <2>5, <2>8, <3>1
      <4> HIDE DEF by, leaves
      <4>2. by <= Neg \/ \E n \in DOMAIN journeys : leaves(n) >= by
        BY <1>0, <2>6, <4>1
      <4> QED BY <2>7, <2>8, <3>1, <4>2 DEF by
    <3>2. CASE k # collecting
      <4>1. k \in 1 .. (collecting - 1)
        BY <2>2, <3>2
      <4> QED BY <2>8, <4>1 DEF OfferInv
    <3> QED BY <3>1, <3>2
  <2>9. collecting' - 1 = collecting
    BY <2>1, <2>2
  <2> QED BY <2>1, <2>6, <2>8, <2>9 DEF OfferInv, UsableAccess, DepartOrigin
<1>3. CASE StartTrace \/ TraceRide \/ TraceWalk
  <2>1. /\ tt' = tt /\ query' = query /\ rounds' = rounds /\ pc' = "trace"
        /\ collecting' = collecting /\ journeys' = journeys
        /\ \/ departure' = departure /\ pc = "trace"
           \/ departure' > departure /\ collecting <= K
    BY <1>3 DEF StartTrace, TraceRide, TraceWalk, Improvement, K
  <2>2. departure' \in Int
    BY <1>0, <1>3, StartTraceStep, TraceRideStep, TraceWalkStep DEF SearchInv, TypeOK
  <2>3. WalksClosed(tt.walks) => departure' > Neg /\ collecting <= K
    BY <1>0, <2>1, <2>2 DEF OfferInv
  <2>4. WalksClosed(tt.walks) => departure' >= Neg
    BY <1>0, <2>2, <2>3
  <2> QED BY <2>1, <2>3, <2>4 DEF OfferInv, UsableAccess, DepartOrigin, K
<1>4. CASE EndTrace
  <2> DEFINE round == rounds[collecting]
             leaves(n) == Leaving(tt, query, journeys[n].legs)
             after(n) == Leaving(tt, query, journeys'[n].legs)
  <2>1. /\ tt' = tt /\ query' = query /\ rounds' = rounds /\ departure' = departure
        /\ pc = "trace" /\ pc' = "collect" /\ collecting' = collecting + 1
        /\ TracedParent.kind \notin {"board", "transfer"}
    BY <1>4 DEF EndTrace
  <2> SUFFICES ASSUME WalksClosed(tt.walks) PROVE OfferInv'
    BY <2>1 DEF OfferInv
  <2>2. collecting \in Nat \ {0}
    BY <1>0 DEF SearchInv, TypeOK, LoopsInv
  <2>3. PICK journey \in Answers :
          /\ WalksClosed(tt.walks) => departure = Leaving(tt, query, journey.legs)
          /\ RideCount(journey.legs) = RideCount(trace.legs)
          /\ Len(journeys) \in Nat /\ DOMAIN journeys = 1 .. Len(journeys)
          /\ DOMAIN journeys' = 1 .. (Len(journeys) + 1)
          /\ \A n \in 1 .. Len(journeys) : journeys'[n] = journeys[n]
          /\ journeys'[Len(journeys) + 1] = journey
    BY <1>0, <1>4, JourneyTraced, Zenon
  <2>4. \A i \in UsableAccess(round) : DepartOrigin(round, query.access[i]) <= departure
    <3>1. collecting \in 1 .. Collected
      BY <2>1, <2>2 DEF Collected
    <3> QED BY <1>0, <3>1 DEF EndsInv
  <2>5. FirstOutFirstIn(tt) => RideCount(journey.legs) < collecting
    <3> SUFFICES ASSUME FirstOutFirstIn(tt)
                 PROVE  RideCount(journey.legs) < collecting
      OBVIOUS
    <3>1. RideCount(trace.legs) + trace.round = collecting
      BY <1>0, <2>1 DEF RidesTakenInv, RidesTaken
    <3>2. trace.round \in Nat \ {0} /\ RideCount(trace.legs) \in Nat
      BY <1>0, <2>1, RideCounts, RoundFacts DEF SearchInv, TraceInv
    <3> QED BY <2>2, <2>3, <3>1, <3>2
  <2> DEFINE last == Len(journeys) + 1
  <2>6. /\ last \in DOMAIN journeys' /\ journeys'[last] = journey
        /\ \A n \in DOMAIN journeys : n \in DOMAIN journeys' /\ journeys'[n] = journeys[n]
        /\ \A n \in DOMAIN journeys' : n \in DOMAIN journeys \/ n = last
    BY <2>3
  <2> HIDE DEF last
  <2>7. after(last) = departure /\ \A n \in DOMAIN journeys : after(n) = leaves(n)
    BY <2>3, <2>6, Zenon
  <2>8. ASSUME FirstOutFirstIn(tt), NEW k \in 1 .. collecting,
               NEW i \in UsableAccess(rounds[k])
        PROVE  \/ DepartOrigin(rounds[k], query.access[i]) <= Neg
               \/ \E n \in DOMAIN journeys' :
                    /\ RideCount(journeys'[n].legs) < k
                    /\ after(n) >= DepartOrigin(rounds[k], query.access[i])
    <3>1. CASE k = collecting
      <4> DEFINE by == DepartOrigin(round, query.access[i])
      <4>1. by <= departure
        BY <2>4, <2>8, <3>1
      <4>2. by \in Int
        <5>1. k \in 1 .. Collected
          BY <2>1, <2>2, <3>1 DEF Collected
        <5>2. /\ query.access[i].stop \in Stops /\ query.access[i].duration \in Nat
          BY <1>0, QueryFacts DEF UsableAccess, SearchInv, TypeOK
        <5>3. collecting \in 1 .. K /\ DOMAIN rounds = 1 .. K
          <6>1. K \in Nat /\ DOMAIN rounds = 1 .. K
            BY <1>0, RoundTimes
          <6> QED BY <2>1, <2>2, <6>1 DEF OfferInv
        <5>4. round[query.access[i].stop].time \in Int
          BY <1>0, <5>2, <5>3, LabelTime DEF SearchInv
        <5> HIDE DEF round
        <5> QED BY <5>2, <5>4 DEF DepartOrigin
      <4>3. after(last) >= by
        <5> HIDE DEF by, after
        <5> QED BY <1>0, <2>7, <4>1, <4>2
      <4>4. RideCount(journeys'[last].legs) < k
        BY <2>5, <2>6, <2>8, <3>1
      <4> QED BY <2>6, <3>1, <4>3, <4>4
    <3>2. CASE k # collecting
      <4>1. k \in 1 .. (collecting - 1)
        BY <2>2, <3>2
      <4>2. \/ DepartOrigin(rounds[k], query.access[i]) <= Neg
            \/ \E n \in DOMAIN journeys :
                 /\ RideCount(journeys[n].legs) < k
                 /\ leaves(n) >= DepartOrigin(rounds[k], query.access[i])
        BY <2>8, <4>1 DEF OfferInv
      <4> HIDE DEF leaves, after
      <4> QED BY <2>6, <2>7, <4>2
    <3> QED BY <3>1, <3>2
  <2>9. collecting' - 1 = collecting
    BY <2>1, <2>2
  <2>10. \A n \in DOMAIN journeys' : after(n) > Neg
    <3>1. departure > Neg /\ \A n \in DOMAIN journeys : leaves(n) > Neg
      BY <2>1 DEF OfferInv
    <3> HIDE DEF leaves, after
    <3> QED BY <2>6, <2>7, <3>1
  <2>11. departure >= Neg
    BY DEF OfferInv
  <2> HIDE DEF leaves
  <2> QED BY <2>1, <2>6, <2>7, <2>8, <2>9, <2>10, <2>11 DEF OfferInv, UsableAccess, DepartOrigin
<1>5. CASE Answer
  <2>1. /\ tt' = tt /\ query' = query /\ rounds' = rounds /\ departure' = departure
        /\ pc = "collect" /\ pc' = "done" /\ collecting' = collecting
        /\ journeys' = journeys /\ K' = K /\ collecting > K
    BY <1>5 DEF Answer, K
  <2> QED BY <2>1 DEF OfferInv, UsableAccess, DepartOrigin
<1>6. CASE UNCHANGED vars
  BY <1>6 DEF vars, OfferInv, UsableAccess, DepartOrigin, K
<1> QED BY <1>1, <1>2, <1>3, <1>4, <1>5, <1>6 DEF Next

-----------------------------------------------------------------------------
(* No label gets earlier from one round to the next.                       *)
LEMMA RoundsRise ==
  ASSUME JourneyInv, FirstOutFirstIn(tt), NEW j \in 1 .. K, NEW k \in 1 .. K, j <= k,
         NEW s \in Stops
  PROVE  rounds[k][s].time >= rounds[j][s].time
<1> DEFINE sooner == {m \in j .. k : ~(rounds[m][s].time >= rounds[j][s].time)}
<1>1. K \in Nat /\ \A m \in 1 .. K : rounds[m][s].time \in Int
  BY RoundFacts, LabelTime DEF JourneyInv, KeptInv, SearchInv
<1> SUFFICES ASSUME sooner # {} PROVE FALSE
  BY <1>1
<1>2. sooner \in SUBSET Nat
  BY <1>1
<1> DEFINE m == Min(sooner)
<1>3. m \in sooner /\ \A y \in sooner : m <= y
  <2> HIDE DEF sooner
  <2> QED BY <1>2, MinOfNats
<1>4. m \in j .. k /\ ~(rounds[m][s].time >= rounds[j][s].time)
  BY <1>3
<1> HIDE DEF m
<1>5. m # j /\ m \in 2 .. K /\ m - 1 \in j .. k /\ m - 1 \in 1 .. K
  BY <1>1, <1>4
<1>6. rounds[m - 1][s].time >= rounds[j][s].time
  <2>1. m - 1 \notin sooner
    <3> HIDE DEF sooner
    <3> QED BY <1>1, <1>3, <1>5
  <2> QED BY <1>5, <2>1
<1>7. rounds[m][s].time >= rounds[m - 1][s].time
  <2>1. Written(tt, rounds, m, rounds[m])
    BY <1>5 DEF JourneyInv, FreshInv
  <2>2. rounds[m][s].time \in Int /\ rounds[m - 1][s].time \in Int /\ m \in 1 .. K
    BY <1>1, <1>5
  <2> QED BY <2>1, <2>2 DEF Written
<1> QED BY <1>1, <1>4, <1>5, <1>6, <1>7

(* The round that holds the departures of up to n rides.                   *)
Level(n) == IF n + 1 <= K THEN n + 1 ELSE K

LEMMA LevelKept ==
  ASSUME JourneyInv, ClosedInv, FirstOutFirstIn(tt), pc = "done",
         NEW n \in 1 .. query.maxRounds
  PROVE  /\ Level(n - 1) \in 1 .. K /\ Level(n) \in 1 .. K /\ Level(n - 1) <= Level(n)
         /\ \A p \in DOMAIN tt.patterns :
              PatternKept(tt, query, rounds[Level(n - 1)], rounds[Level(n)], p)
<1>1. K \in Nat \ {0} /\ query.maxRounds \in Nat
  BY RoundTimes, QueriesAssumption
     DEF JourneyInv, KeptInv, SearchInv, TypeOK, WellFormedQuery, RaptorQuery
<1>2. CASE n + 1 <= K
  <2>1. Level(n - 1) = n /\ Level(n) = n + 1 /\ n \in 1 .. K - 1
    BY <1>1, <1>2 DEF Level
  <2> QED BY <1>1, <2>1 DEF JourneyInv, KeptInv, RidesInv, RoundsKept
<1>3. CASE ~(n + 1 <= K)
  <2>1. Level(n - 1) = K /\ Level(n) = K /\ ~(K > query.maxRounds)
    BY <1>1, <1>3 DEF Level
  <2> QED BY <1>1, <2>1 DEF ClosedInv
<1> QED BY <1>2, <1>3

(* Whoever is here can be at the destination in time with n more rides: by an
   egress link, or since a round is here no earlier.                        *)
Homebound(a, n) ==
  \/ \E j \in DOMAIN query.egress :
       /\ a.stop = query.egress[j].stop
       /\ a.time + query.egress[j].duration <= query.time
  \/ /\ rounds[Level(n)][a.stop].time \in Nat
     /\ rounds[Level(n)][a.stop].time >= ReadyAt(a)

(* A round that has a trip's alighting has its boarding a round later.      *)
LEMMA TakenHome ==
  ASSUME JourneyInv, NEW k \in 1 .. K, NEW m \in 1 .. K,
         \A p \in DOMAIN tt.patterns : PatternKept(tt, query, rounds[k], rounds[m], p),
         NEW d, NEW a, NEW r \in RidesFrom(tt, [query EXCEPT !.time = d], a),
         ReadyAt(a) \in Int, r.stop \in Stops,
         rounds[k][r.stop].time # Neg, AlightReady(rounds[k][r.stop]) >= r.time
  PROVE  /\ rounds[m][a.stop].time \in Nat
         /\ rounds[m][a.stop].time >= ReadyAt(a)
<1> DEFINE early == [query EXCEPT !.time = d]
<1>1. PICK p \in DOMAIN tt.patterns :
        LET stops == tt.patterns[p].stops
            trips == tt.patterns[p].trips
        IN  /\ PatternAllowed(tt.patterns[p], early)
            /\ \E i \in DOMAIN trips, b, c \in DOMAIN stops :
                 /\ Boardable(trips[i], early)
                 /\ stops[b] = a.stop
                 /\ trips[i].departures[b] >= ReadyAt(a)
                 /\ b < c
                 /\ r.stop = stops[c] /\ r.time = trips[i].arrivals[c]
  BY RideFromFacts
<1>2. PICK i \in DOMAIN tt.patterns[p].trips, b \in DOMAIN tt.patterns[p].stops,
           c \in DOMAIN tt.patterns[p].stops :
        /\ Boardable(tt.patterns[p].trips[i], early)
        /\ tt.patterns[p].stops[b] = a.stop
        /\ tt.patterns[p].trips[i].departures[b] >= ReadyAt(a)
        /\ b < c
        /\ r.stop = tt.patterns[p].stops[c]
        /\ r.time = tt.patterns[p].trips[i].arrivals[c]
  BY <1>1, Zenon
<1>3. tt \in Timetables /\ DOMAIN rounds = 1 .. K /\ K \in Nat /\ query \in Queries
  BY RoundTimes DEF JourneyInv, KeptInv, SearchInv, TypeOK
<1>4. PatternAllowed(tt.patterns[p], query) /\ Boardable(tt.patterns[p].trips[i], query)
  <2>1. query \in RaptorQuery
    BY <1>3, QueriesAssumption DEF WellFormedQuery
  <2>2. early.date = query.date /\ early.wheelchair = query.wheelchair
        /\ early.railOnly = query.railOnly
    BY <2>1 DEF RaptorQuery
  <2> HIDE DEF early
  <2> QED BY <1>1, <1>2, <2>2, Zenon DEF PatternAllowed, Boardable
<1>5. /\ tt.patterns[p].trips[i].departures[b] \in Nat /\ r.time \in Nat
  BY <1>2, <1>3, TripFacts, Zenon
<1>6. AlightReady(rounds[k][r.stop]) \in Int /\ rounds[m][a.stop].time \in Int
  <2>1. a.stop \in Stops
    BY <1>2, <1>3, PatternFacts
  <2>2. rounds[k][r.stop].time \in Int /\ rounds[m][a.stop].time \in Int
    BY <1>3, <2>1, LabelTime DEF JourneyInv, KeptInv, SearchInv
  <2> QED BY <2>2, BufferAssumption DEF AlightReady
<1>7. Rideable(tt, query, rounds[k], p, i, c)
  <2>1. tt.patterns[p].trips[i].arrivals[c] <= AlightReady(rounds[k][r.stop])
    BY <1>2, <1>5, <1>6
  <2> QED BY <1>2, <1>4, <2>1 DEF Rideable
<1>8. AsLate(tt, rounds[m], p, i, b)
  BY <1>2, <1>7 DEF PatternKept
<1>9. rounds[m][a.stop].time >= tt.patterns[p].trips[i].departures[b]
  BY <1>2, <1>8 DEF AsLate
<1> HIDE DEF early
<1> QED BY <1>2, <1>5, <1>6, <1>9

(* A round one is to egress from holds any egress link in time.            *)
LEMMA EgressHeld ==
  ASSUME JourneyInv, NEW j \in DOMAIN query.egress
  PROVE  LET s     == query.egress[j].stop
             label == rounds[1][s]
         IN  /\ s \in Stops /\ label.time \in Int
             /\ label.time >= query.time - query.egress[j].duration
             /\ AlightReady(label) = label.time /\ label.time # Neg
<1>1. query \in Queries /\ rounds[1] = EgressLabels(query)
  BY DEF JourneyInv, FreshInv, KeptInv, SearchInv, TypeOK
<1> DEFINE s == query.egress[j].stop
           links == LinksTo(query.egress, s)
           D == {query.egress[x].duration : x \in links}
<1>2. /\ s \in Stops /\ query.egress[j].duration \in Nat /\ query.time \in Nat
      /\ \A x \in DOMAIN query.egress : query.egress[x].duration \in Nat
  BY <1>1, QueryFacts
<1>3. j \in links /\ links \subseteq DOMAIN query.egress
  BY DEF LinksTo
<1>4. D \in SUBSET Nat /\ query.egress[j].duration \in D
  BY <1>2, <1>3
<1>5. Min(D) \in D /\ Min(D) <= query.egress[j].duration
  <2> HIDE DEF D
  <2> QED BY <1>4, MinOfNats
<1>6. Min(D) \in Nat /\ Neg < query.time - Min(D)
  <2>1. PICK x \in links : Min(D) = query.egress[x].duration
    BY <1>5
  <2> QED BY <1>1, <1>2, <1>3, <2>1, NegAssumption
<1>7. rounds[1][s] = Label(query.time - Min(D), Egress)
  BY <1>1, <1>2, <1>3 DEF EgressLabels
<1> HIDE DEF D, links
<1>8. /\ rounds[1][s].time = query.time - Min(D)
      /\ AlightReady(rounds[1][s]) = query.time - Min(D) - 0
  <2> HIDE DEF s
  <2> QED BY <1>7 DEF Label, Egress, AlightReady
<1>9. ASSUME NEW x \in Int, x = query.time - Min(D)
      PROVE  x # Neg /\ x >= query.time - query.egress[j].duration /\ x - 0 = x
  BY <1>2, <1>5, <1>6, <1>9, NegAssumption
<1>10. query.time - Min(D) \in Int
  BY <1>2, <1>6
<1> HIDE DEF s
<1> QED BY <1>2, <1>8, <1>9, <1>10 DEF s

(* One ride before, home is one ride farther.                              *)
LEMMA HomeboundBefore ==
  ASSUME JourneyInv, ClosedInv, FirstOutFirstIn(tt), pc = "done",
         NEW n \in 1 .. query.maxRounds,
         NEW d, NEW a, NEW r \in RidesFrom(tt, [query EXCEPT !.time = d], a),
         a.stop \in Stops, a.time \in Int, r.stop \in Stops, r.time \in Int,
         Homebound(r, n - 1)
  PROVE  Homebound(a, n)
<1>1. K \in Nat \ {0} /\ query.maxRounds \in Nat /\ DOMAIN rounds = 1 .. K
      /\ query.time \in Nat /\ query \in Queries
  BY RoundTimes, QueriesAssumption
     DEF JourneyInv, KeptInv, SearchInv, TypeOK, WellFormedQuery, RaptorQuery
<1>2. ReadyAt(a) \in Int /\ ReadyAt(r) = r.time + Buffer
  <2>1. r.kind = "ride"
    BY RideKind
  <2> QED BY <2>1, BufferAssumption DEF ReadyAt
<1>3. CASE \E j \in DOMAIN query.egress :
             /\ r.stop = query.egress[j].stop
             /\ r.time + query.egress[j].duration <= query.time
  <2>1. PICK j \in DOMAIN query.egress :
          /\ r.stop = query.egress[j].stop
          /\ r.time + query.egress[j].duration <= query.time
    BY <1>3
  <2>2. /\ rounds[1][r.stop].time \in Int
        /\ rounds[1][r.stop].time >= query.time - query.egress[j].duration
        /\ AlightReady(rounds[1][r.stop]) = rounds[1][r.stop].time
        /\ rounds[1][r.stop].time # Neg
    BY <2>1, EgressHeld
  <2>3. query.egress[j].duration \in Nat
    BY <1>1, QueryFacts
  <2>4. AlightReady(rounds[1][r.stop]) >= r.time
    BY <1>1, <2>1, <2>2, <2>3
  <2>5. /\ Level(0) = 1 /\ Level(1) \in 1 .. K
        /\ \A p \in DOMAIN tt.patterns :
             PatternKept(tt, query, rounds[Level(0)], rounds[Level(1)], p)
    <3>1. 1 \in 1 .. query.maxRounds /\ 1 - 1 = 0 /\ Level(0) = 1
      BY <1>1 DEF Level
    <3> QED BY <3>1, LevelKept
  <2>6. /\ rounds[Level(1)][a.stop].time \in Nat
        /\ rounds[Level(1)][a.stop].time >= ReadyAt(a)
    <3>1. 1 \in 1 .. K
      BY <1>1
    <3> QED BY <1>2, <2>2, <2>4, <2>5, <3>1, TakenHome
  <2>7. Level(1) <= Level(n) /\ Level(n) \in 1 .. K
    BY <1>1 DEF Level
  <2>8. rounds[Level(n)][a.stop].time >= rounds[Level(1)][a.stop].time
    BY <2>5, <2>7, RoundsRise
  <2>9. rounds[Level(n)][a.stop].time \in Int
    BY <1>1, <2>7, LabelTime DEF JourneyInv, KeptInv, SearchInv
  <2>10. /\ rounds[Level(n)][a.stop].time \in Nat
         /\ rounds[Level(n)][a.stop].time >= ReadyAt(a)
    BY <1>2, <2>6, <2>8, <2>9
  <2> QED BY <2>10 DEF Homebound
<1>4. CASE /\ rounds[Level(n - 1)][r.stop].time \in Nat
           /\ rounds[Level(n - 1)][r.stop].time >= ReadyAt(r)
  <2>1. /\ Level(n - 1) \in 1 .. K /\ Level(n) \in 1 .. K
        /\ \A p \in DOMAIN tt.patterns :
             PatternKept(tt, query, rounds[Level(n - 1)], rounds[Level(n)], p)
    BY LevelKept
  <2> DEFINE label == rounds[Level(n - 1)][r.stop]
  <2>2. AlightReady(label) >= r.time
    <3>1. AlightReady(label) >= label.time - Buffer /\ AlightReady(label) \in Int
      BY <1>4, BufferAssumption DEF AlightReady
    <3>2. label.time \in Int /\ label.time >= r.time + Buffer
      BY <1>2, <1>4
    <3> HIDE DEF label
    <3> QED BY <3>1, <3>2, BufferAssumption
  <2>3. label.time # Neg
    BY <1>4, NegAssumption
  <2>4. /\ rounds[Level(n)][a.stop].time \in Nat
        /\ rounds[Level(n)][a.stop].time >= ReadyAt(a)
    BY <1>2, <2>1, <2>2, <2>3, TakenHome
  <2> QED BY <2>4 DEF Homebound
<1> QED BY <1>3, <1>4 DEF Homebound

-----------------------------------------------------------------------------
(* Without walks between stops, what one reaches is the access, or a ride.  *)
LEMMA ReachSteps ==
  ASSUME JourneyInv, DOMAIN tt.walks = {}, NEW d \in Int, NEW n \in 0 .. query.maxRounds
  PROVE  LET early == [query EXCEPT !.time = d]
             reach == Reach(tt, early)
         IN  /\ reach[0] = AccessArrivals(early)
             /\ n # 0 => reach[n] = reach[n - 1]
                           \cup UNION {RidesFrom(tt, early, a) : a \in reach[n - 1]}
<1> DEFINE early == [query EXCEPT !.time = d]
           reach == Reach(tt, early)
<1>1. query \in RaptorQuery
  BY QueriesAssumption DEF JourneyInv, KeptInv, SearchInv, TypeOK, WellFormedQuery
<1>2. early.maxRounds = query.maxRounds /\ query.maxRounds \in Nat
  BY <1>1 DEF RaptorQuery
<1> HIDE DEF early
<1>3. /\ reach[0] = AccessArrivals(early)
      /\ \A m \in 1 .. query.maxRounds :
           reach[m] = RideFurther(tt, early, reach[m - 1])
  BY <1>2, ReachFacts
<1> HIDE DEF reach
<1>4. \A a : WalksFrom(tt, a) = {}
  BY DEF WalksFrom
<1>5. ASSUME n # 0
      PROVE  reach[n] = reach[n - 1] \cup UNION {RidesFrom(tt, early, a) : a \in reach[n - 1]}
  <2> DEFINE rides == UNION {RidesFrom(tt, early, a) : a \in reach[n - 1]}
  <2>1. n \in 1 .. query.maxRounds
    BY <1>2, <1>5
  <2>2. reach[n] = reach[n - 1] \cup rides \cup UNION {WalksFrom(tt, a) : a \in rides}
    BY <1>3, <2>1 DEF RideFurther
  <2> HIDE DEF rides
  <2>3. reach[n] = reach[n - 1] \cup rides
    BY <1>4, <2>2
  <2> QED BY <2>3 DEF rides
<1> QED BY <1>3, <1>5 DEF reach, early

(* What one reaches is at a stop, no earlier than one left.                 *)
Timed(a, low) == a.stop \in Stops /\ a.time \in Int /\ a.time >= low

LEMMA AccessTimed ==
  ASSUME NEW qu \in Queries, NEW d \in Int, NEW low \in Int, low <= d,
         NEW a \in AccessArrivals([qu EXCEPT !.time = d])
  PROVE  /\ Timed(a, low) /\ a.kind = "access"
         /\ \E i \in DOMAIN qu.access : /\ a.stop = qu.access[i].stop
                                        /\ a.time = d + qu.access[i].duration
<1>1. qu \in RaptorQuery
  BY QueriesAssumption DEF WellFormedQuery
<1> DEFINE early == [qu EXCEPT !.time = d]
<1>2. early.access = qu.access /\ early.time = d
  BY <1>1 DEF RaptorQuery
<1> HIDE DEF early
<1>3. PICK i \in DOMAIN qu.access :
        a = Arrival(qu.access[i].stop, d + qu.access[i].duration, "access", 0)
  BY <1>2 DEF AccessArrivals, early
<1>4. qu.access[i].stop \in Stops /\ qu.access[i].duration \in Nat
  BY QueryFacts
<1>5. /\ a.stop = qu.access[i].stop /\ a.time = d + qu.access[i].duration
      /\ a.kind = "access"
  BY <1>3 DEF Arrival
<1>6. a.time \in Int /\ a.time >= low
  BY <1>4, <1>5
<1> QED BY <1>4, <1>5, <1>6 DEF Timed

LEMMA RideTimed ==
  ASSUME NEW t \in Timetables, NEW qu, NEW a, NEW r \in RidesFrom(t, qu, a),
         NEW low \in Int, low <= 0
  PROVE  Timed(r, low)
<1>1. PICK p \in DOMAIN t.patterns :
        \E i \in DOMAIN t.patterns[p].trips, c \in DOMAIN t.patterns[p].stops :
          /\ r.stop = t.patterns[p].stops[c]
          /\ r.time = t.patterns[p].trips[i].arrivals[c]
  BY RideFromFacts
<1>2. PICK i \in DOMAIN t.patterns[p].trips, c \in DOMAIN t.patterns[p].stops :
        /\ r.stop = t.patterns[p].stops[c]
        /\ r.time = t.patterns[p].trips[i].arrivals[c]
  BY <1>1
<1>3. r.stop \in Stops
  BY <1>2, PatternFacts
<1>4. r.time \in Nat
  BY <1>2, TripFacts, Zenon
<1> QED BY <1>3, <1>4 DEF Timed

LEMMA ReachTimed ==
  ASSUME JourneyInv, DOMAIN tt.walks = {}, NEW d \in Int, NEW n \in 0 .. query.maxRounds,
         NEW low \in Int, low <= 0, low <= d
  PROVE  \A a \in Reach(tt, [query EXCEPT !.time = d])[n] : Timed(a, low)
<1> DEFINE early == [query EXCEPT !.time = d]
           reach == Reach(tt, early)
           N     == query.maxRounds
           lost  == {m \in 0 .. N : ~ \A a \in reach[m] : Timed(a, low)}
<1>1. N \in Nat /\ query \in Queries /\ tt \in Timetables
  BY QueriesAssumption
     DEF JourneyInv, KeptInv, SearchInv, TypeOK, WellFormedQuery, RaptorQuery
<1>2. /\ reach[0] = AccessArrivals(early)
      /\ \A m \in 1 .. N :
           reach[m] = reach[m - 1] \cup UNION {RidesFrom(tt, early, a) : a \in reach[m - 1]}
  <2>1. 0 \in 0 .. N /\ \A m \in 1 .. N : m \in 0 .. N /\ m # 0
    BY <1>1
  <2> QED BY <2>1, ReachSteps
<1>3. \A a \in AccessArrivals(early) : Timed(a, low)
  BY <1>1, AccessTimed
<1>4. \A a : \A r \in RidesFrom(tt, early, a) : Timed(r, low)
  BY <1>1, RideTimed
<1> HIDE DEF reach, early, N
<1> SUFFICES ASSUME lost # {} PROVE FALSE
  BY DEF reach, early, N
<1>5. lost \in SUBSET Nat
  BY <1>1
<1> DEFINE m == Min(lost)
<1>6. m \in lost /\ \A y \in lost : m <= y
  <2> HIDE DEF lost
  <2> QED BY <1>5, MinOfNats
<1>7. m \in 0 .. N /\ ~ \A a \in reach[m] : Timed(a, low)
  BY <1>6
<1> HIDE DEF m
<1>8. m # 0
  BY <1>2, <1>3, <1>7
<1>9. m - 1 \in 0 .. N /\ m - 1 \notin lost /\ m \in 1 .. N
  <2> HIDE DEF lost
  <2> QED BY <1>1, <1>5, <1>6, <1>7, <1>8
<1>10. \A a \in reach[m - 1] : Timed(a, low)
  BY <1>9
<1> HIDE DEF lost
<1>11. reach[m] = reach[m - 1] \cup UNION {RidesFrom(tt, early, a) : a \in reach[m - 1]}
  BY <1>2, <1>9
<1>12. ASSUME NEW a \in reach[m] PROVE Timed(a, low)
  <2>1. CASE a \in reach[m - 1]
    BY <1>10, <2>1
  <2>2. CASE a \notin reach[m - 1]
    <3>1. \E b \in reach[m - 1] : a \in RidesFrom(tt, early, b)
      BY <1>11, <1>12, <2>2
    <3> QED BY <1>4, <3>1
  <2> QED BY <2>1, <2>2
<1> QED BY <1>7, <1>12

(* From what is home within n rides, one can go back to the access.        *)
LEMMA HomeFromAccess ==
  ASSUME JourneyInv, ClosedInv, FirstOutFirstIn(tt), DOMAIN tt.walks = {}, pc = "done",
         NEW d \in Int, NEW n \in 0 .. query.maxRounds,
         NEW x \in Reach(tt, [query EXCEPT !.time = d])[n], Homebound(x, 0)
  PROVE  \E a \in AccessArrivals([query EXCEPT !.time = d]) : Homebound(a, n)
<1> DEFINE early == [query EXCEPT !.time = d]
           reach == Reach(tt, early)
           back  == {m \in 0 .. n : \E a \in reach[m] : Homebound(a, n - m)}
           low   == IF d <= 0 THEN d ELSE 0
<1>1. query.maxRounds \in Nat /\ n \in Nat
  BY QueriesAssumption
     DEF JourneyInv, KeptInv, SearchInv, TypeOK, WellFormedQuery, RaptorQuery
<1>2. /\ reach[0] = AccessArrivals(early)
      /\ \A m \in 1 .. n :
           reach[m] = reach[m - 1] \cup UNION {RidesFrom(tt, early, a) : a \in reach[m - 1]}
  <2>1. /\ 0 \in 0 .. query.maxRounds
        /\ \A m \in 1 .. n : m \in 0 .. query.maxRounds /\ m # 0
    BY <1>1
  <2> QED BY <2>1, ReachSteps
<1>3. \A m \in 0 .. n : \A a \in reach[m] : a.stop \in Stops /\ a.time \in Int
  <2>1. low \in Int /\ low <= 0 /\ low <= d
    OBVIOUS
  <2> HIDE DEF low
  <2>2. \A m \in 0 .. n : m \in 0 .. query.maxRounds
    BY <1>1
  <2>3. \A m \in 0 .. n : \A a \in reach[m] : Timed(a, low)
    BY <2>1, <2>2, ReachTimed
  <2> QED BY <2>3 DEF Timed
<1>4. x \in reach[n]
  OBVIOUS
<1>5. ASSUME NEW m \in 1 .. n, NEW a \in reach[m - 1], NEW r \in RidesFrom(tt, early, a),
             Homebound(r, n - m)
      PROVE  Homebound(a, n - (m - 1))
  <2>1. n - (m - 1) \in 1 .. query.maxRounds /\ (n - (m - 1)) - 1 = n - m
        /\ m - 1 \in 0 .. n /\ m \in 0 .. n
    BY <1>1
  <2>2. a.stop \in Stops /\ a.time \in Int
    BY <1>3, <2>1
  <2>3. r.stop \in Stops /\ r.time \in Int
    <3>1. r \in reach[m]
      BY <1>2
    <3> QED BY <1>3, <2>1, <3>1
  <2> DEFINE k == n - (m - 1)
  <2>4. k \in 1 .. query.maxRounds /\ Homebound(r, k - 1)
    BY <1>5, <2>1
  <2> HIDE DEF k
  <2>5. Homebound(a, k)
    BY <2>2, <2>3, <2>4, HomeboundBefore
  <2> QED BY <2>5 DEF k
<1>6. ASSUME NEW m \in 1 .. n, NEW a \in reach[m - 1], Homebound(a, n - m)
      PROVE  Homebound(a, n - (m - 1))
  <2>1. CASE \E j \in DOMAIN query.egress :
               /\ a.stop = query.egress[j].stop
               /\ a.time + query.egress[j].duration <= query.time
    BY <2>1 DEF Homebound
  <2>2. CASE /\ rounds[Level(n - m)][a.stop].time \in Nat
             /\ rounds[Level(n - m)][a.stop].time >= ReadyAt(a)
    <3>1. K \in Nat \ {0} /\ DOMAIN rounds = 1 .. K
      BY RoundTimes DEF JourneyInv, KeptInv
    <3>2. /\ Level(n - m) \in 1 .. K /\ Level(n - (m - 1)) \in 1 .. K
          /\ Level(n - m) <= Level(n - (m - 1))
      BY <1>1, <3>1 DEF Level
    <3>3. a.stop \in Stops /\ a.time \in Int
      <4>1. m - 1 \in 0 .. n
        BY <1>1
      <4> QED BY <1>3, <4>1
    <3>4. /\ rounds[Level(n - (m - 1))][a.stop].time >= rounds[Level(n - m)][a.stop].time
          /\ rounds[Level(n - (m - 1))][a.stop].time \in Int
      BY <3>1, <3>2, <3>3, RoundsRise, LabelTime DEF JourneyInv, KeptInv, SearchInv
    <3>5. ReadyAt(a) \in Int
      BY <3>3, BufferAssumption DEF ReadyAt
    <3> HIDE DEF early
    <3>6. /\ rounds[Level(n - (m - 1))][a.stop].time \in Nat
          /\ rounds[Level(n - (m - 1))][a.stop].time >= ReadyAt(a)
      BY <2>2, <3>4, <3>5
    <3> QED BY <3>6 DEF Homebound
  <2> QED BY <1>6, <2>1, <2>2 DEF Homebound
<1> HIDE DEF reach
<1>7. back # {} /\ back \in SUBSET Nat
  <2>1. n \in 0 .. n /\ n - n = 0
    BY <1>1
  <2>2. n \in back
    BY <1>4, <2>1
  <2> QED BY <1>1, <2>2
<1> DEFINE m == Min(back)
<1>8. m \in back /\ \A y \in back : m <= y
  <2> HIDE DEF back
  <2> QED BY <1>7, MinOfNats
<1>9. m \in 0 .. n /\ \E a \in reach[m] : Homebound(a, n - m)
  BY <1>8
<1>10. CASE m = 0
  <2>1. n - 0 = n
    BY <1>1
  <2> QED BY <1>2, <1>9, <1>10, <2>1
<1>11. CASE m # 0
  <2>1. m \in 1 .. n /\ m - 1 \in 0 .. n
    BY <1>9, <1>11
  <2> HIDE DEF m
  <2>2. PICK a \in reach[m] : Homebound(a, n - m)
    BY <1>9
  <2>3. \E b \in reach[m - 1] : Homebound(b, n - (m - 1))
    <3>1. CASE a \in reach[m - 1]
      BY <1>6, <2>1, <2>2, <3>1
    <3>2. CASE a \notin reach[m - 1]
      <4>1. PICK b \in reach[m - 1] : a \in RidesFrom(tt, early, b)
        BY <1>2, <2>1, <2>2, <3>2
      <4> QED BY <1>5, <2>1, <2>2, <4>1
    <3> QED BY <3>1, <3>2
  <2>4. m - 1 \in back
    BY <2>1, <2>3
  <2> HIDE DEF back
  <2> QED BY <1>8, <2>1, <2>4 DEF m
<1> QED BY <1>10, <1>11

(* Who is home from an access link is let in by the last round of no more
   rides, no later than it leaves.                                          *)
LEMMA RoundLeaves ==
  ASSUME JourneyInv, ClosedInv, FirstOutFirstIn(tt), DOMAIN tt.walks = {}, pc = "done",
         NEW d \in Int, NEW n \in 0 .. query.maxRounds,
         NEW a \in AccessArrivals([query EXCEPT !.time = d]), Homebound(a, n)
  PROVE  /\ Level(n) \in 1 .. K
         /\ \E i \in UsableAccess(rounds[Level(n)]) :
              DepartOrigin(rounds[Level(n)], query.access[i]) >= d
<1>1. K \in Nat \ {0} /\ query.maxRounds \in Nat /\ DOMAIN rounds = 1 .. K
      /\ query.time \in Nat /\ query \in Queries
  BY RoundTimes, QueriesAssumption
     DEF JourneyInv, KeptInv, SearchInv, TypeOK, WellFormedQuery, RaptorQuery
<1>2. Level(n) \in 1 .. K /\ 1 \in 1 .. K /\ 1 <= Level(n)
  BY <1>1 DEF Level
<1>3. PICK i \in DOMAIN query.access : /\ a.stop = query.access[i].stop
                                       /\ a.time = d + query.access[i].duration
  BY <1>1, AccessTimed
<1>4. a.kind = "access" /\ ReadyAt(a) = a.time + 0
  <2>1. a.kind = "access"
    BY <1>1, AccessTimed
  <2> QED BY <2>1 DEF ReadyAt
<1>5. /\ a.stop \in Stops /\ query.access[i].duration \in Nat /\ a.time \in Int
  BY <1>1, <1>3, QueryFacts
<1> DEFINE label == rounds[Level(n)][a.stop]
<1>6. label.time \in Int /\ rounds[1][a.stop].time \in Int
  BY <1>1, <1>2, <1>5, LabelTime DEF JourneyInv, KeptInv, SearchInv
<1>7. label.time # Neg /\ label.time >= a.time
  <2>1. CASE \E j \in DOMAIN query.egress :
               /\ a.stop = query.egress[j].stop
               /\ a.time + query.egress[j].duration <= query.time
    <3>1. PICK j \in DOMAIN query.egress :
            /\ a.stop = query.egress[j].stop
            /\ a.time + query.egress[j].duration <= query.time
      BY <2>1
    <3>2. rounds[1][a.stop].time >= query.time - query.egress[j].duration
      BY <3>1, EgressHeld
    <3>3. query.egress[j].duration \in Nat /\ Neg < query.time - query.egress[j].duration
          /\ Neg \in Int
      BY <1>1, QueryFacts, NegAssumption
    <3>4. label.time >= rounds[1][a.stop].time
      BY <1>2, <1>5, RoundsRise
    <3> HIDE DEF label
    <3>5. ASSUME NEW r \in Int, NEW e \in Nat, NEW q \in Nat, NEW l \in Int, NEW t \in Int,
                 t + e <= q, r >= q - e, Neg \in Int, Neg < q - e, l >= r
          PROVE  l # Neg /\ l >= t
      BY <3>5
    <3> QED BY <1>1, <1>5, <1>6, <3>1, <3>2, <3>3, <3>4, <3>5
  <2>2. CASE label.time \in Nat /\ label.time >= ReadyAt(a)
    <3> HIDE DEF label
    <3> QED BY <1>4, <1>5, <2>2, NegAssumption
  <2> QED BY <2>1, <2>2 DEF Homebound
<1>8. i \in UsableAccess(rounds[Level(n)])
  BY <1>3, <1>7 DEF UsableAccess
<1>9. DepartOrigin(rounds[Level(n)], query.access[i]) >= d
  <2> HIDE DEF label
  <2>1. label.time - query.access[i].duration >= d
    BY <1>3, <1>5, <1>6, <1>7
  <2> QED BY <1>3, <2>1 DEF DepartOrigin, label
<1> QED BY <1>2, <1>8, <1>9

-----------------------------------------------------------------------------
(* Least and greatest of sets of integers.                                  *)
LEMMA LeastOfBounded ==
  ASSUME NEW low \in Int, NEW S \in SUBSET Int, S # {}, \A y \in S : low <= y
  PROVE  Min(S) \in S /\ \A y \in S : Min(S) <= y
<1> DEFINE T == {y - low : y \in S}
<1>1. T \in SUBSET Nat /\ T # {}
  <2>1. \A y \in S : y - low \in Nat
    <3> SUFFICES ASSUME NEW y \in S PROVE y - low \in Nat
      OBVIOUS
    <3>1. y \in Int /\ low <= y
      OBVIOUS
    <3> QED BY <3>1
  <2>2. T # {}
    OBVIOUS
  <2> QED BY <2>1, <2>2
<1>2. Min(T) \in T /\ \A z \in T : Min(T) <= z
  <2> HIDE DEF T
  <2> QED BY <1>1, MinOfNats
<1>3. PICK x \in S : Min(T) = x - low
  BY <1>2
<1>4. \A y \in S : x - low <= y - low
  BY <1>2, <1>3
<1>5. \A y \in S : x <= y
  BY <1>4
<1> QED BY <1>5 DEF Min

LEMMA GreatestIn ==
  ASSUME NEW low \in Int, NEW high \in Int, NEW S \in SUBSET (low .. high), S # {}
  PROVE  \E m \in S : \A y \in S : y <= m
<1> DEFINE f == [y \in S |-> y]
<1>1. IsFiniteSet(S)
  <2>1. IsFiniteSet(low .. high)
    BY FS_Interval
  <2> QED BY <2>1, FS_Subset
<1>2. f \in [S -> Int]
  OBVIOUS
<1>3. \E i \in S : \A j \in S : f[j] <= f[i]
  <2> HIDE DEF f
  <2> QED BY <1>1, <1>2, GreatestValue
<1> QED BY <1>3

LEMMA MaxIs ==
  ASSUME NEW S \in SUBSET Int, NEW m \in S, \A y \in S : y <= m
  PROVE  Max(S) = m
<1>1. \A y \in S : m >= y
  OBVIOUS
<1>2. Max(S) \in S /\ \A y \in S : Max(S) >= y
  BY <1>1 DEF Max
<1>3. Max(S) \in Int /\ m \in Int /\ Max(S) >= m /\ m >= Max(S)
  BY <1>1, <1>2
<1> QED BY <1>3

(* The earliest arrival is in time when some arrival and egress link are.   *)
Within(qu, arrivals) ==
  \E x \in arrivals, j \in DOMAIN qu.egress :
    x.stop = qu.egress[j].stop /\ x.time + qu.egress[j].duration <= qu.time

LEMMA EarliestWithin ==
  ASSUME NEW qu \in Queries, NEW early, early.egress = qu.egress,
         NEW low \in Int, NEW arrivals, \A a \in arrivals : Timed(a, low)
  PROVE  Earliest(early, arrivals, qu.time + 1) <= qu.time <=> Within(qu, arrivals)
<1> DEFINE E == qu.egress
           ends == {y[1].time + early.egress[y[2]].duration :
                      y \in {x \in arrivals \X DOMAIN early.egress :
                               x[1].stop = early.egress[x[2]].stop}}
           T == qu.time
           earliest == Earliest(early, arrivals, T + 1)
<1>1. T \in Nat /\ \A j \in DOMAIN E : E[j].duration \in Nat
  BY QueryFacts
<1>2. \A v : v \in ends <=> \E x \in arrivals, j \in DOMAIN E :
                              x.stop = E[j].stop /\ v = x.time + E[j].duration
  <2> SUFFICES ASSUME NEW v
               PROVE  v \in ends <=> \E x \in arrivals, j \in DOMAIN E :
                              x.stop = E[j].stop /\ v = x.time + E[j].duration
    OBVIOUS
  <2>1. ASSUME v \in ends
        PROVE  \E x \in arrivals, j \in DOMAIN E :
                              x.stop = E[j].stop /\ v = x.time + E[j].duration
    <3>1. PICK y \in {x \in arrivals \X DOMAIN early.egress :
                               x[1].stop = early.egress[x[2]].stop} :
             v = y[1].time + early.egress[y[2]].duration
      BY <2>1
    <3>2. /\ y[1] \in arrivals /\ y[2] \in DOMAIN E
          /\ y[1].stop = E[y[2]].stop /\ v = y[1].time + E[y[2]].duration
      BY <3>1
    <3> QED BY <3>2
  <2>2. ASSUME NEW x \in arrivals, NEW j \in DOMAIN E,
               x.stop = E[j].stop, v = x.time + E[j].duration
        PROVE  v \in ends
    <3>1. <<x, j>> \in {y \in arrivals \X DOMAIN early.egress :
                               y[1].stop = early.egress[y[2]].stop}
      BY <2>2
    <3>2. v = <<x, j>>[1].time + early.egress[<<x, j>>[2]].duration
      BY <2>2
    <3> QED BY <3>1, <3>2
  <2> QED BY <2>1, <2>2
<1>3. earliest = IF ends = {} THEN T + 1 ELSE Min(ends)
  BY DEF Earliest
<1> HIDE DEF ends
<1>4. ends \in SUBSET Int /\ \A v \in ends : low <= v
  <2> SUFFICES ASSUME NEW v \in ends PROVE v \in Int /\ low <= v
    OBVIOUS
  <2>1. PICK x \in arrivals, j \in DOMAIN E : v = x.time + E[j].duration
    BY <1>2
  <2>2. x.time \in Int /\ x.time >= low /\ E[j].duration \in Nat
    BY <1>1 DEF Timed
  <2> QED BY <2>1, <2>2
<1>5. Within(qu, arrivals) <=> \E v \in ends : v <= T
  BY <1>2 DEF Within
<1> HIDE DEF earliest, T, E
<1>6. CASE ends = {}
  BY <1>1, <1>3, <1>5, <1>6 DEF earliest, T
<1>7. CASE ends # {}
  <2>1. Min(ends) \in ends /\ \A v \in ends : Min(ends) <= v
    BY <1>4, <1>7, LeastOfBounded
  <2>2. earliest <= T <=> \E v \in ends : v <= T
    BY <1>1, <1>3, <1>4, <1>7, <2>1
  <2> QED BY <1>5, <2>2 DEF earliest, T
<1> QED BY <1>6, <1>7

(* A round that lets one in from an access link does so after Neg.         *)
LEMMA LeavesAfterNeg ==
  ASSUME JourneyInv, DOMAIN tt.walks = {}, NEW k \in 1 .. K,
         NEW i \in UsableAccess(rounds[k])
  PROVE  /\ DepartOrigin(rounds[k], query.access[i]) \in Int
         /\ DepartOrigin(rounds[k], query.access[i]) > Neg
<1> DEFINE s == query.access[i].stop
           w == query.access[i].duration
           label == rounds[k][s]
           links == LinksTo(query.egress, s)
           D == {query.egress[x].duration : x \in links}
<1>1. /\ K \in Nat \ {0} /\ DOMAIN rounds = 1 .. K /\ query \in Queries /\ tt \in Timetables
      /\ SearchInv /\ TypeOK /\ LoopsInv
  BY RoundTimes DEF JourneyInv, KeptInv, SearchInv, TypeOK
<1>2. /\ i \in DOMAIN query.access /\ label.time # Neg
      /\ s \in Stops /\ w \in Nat /\ query.time \in Nat
  BY <1>1, QueryFacts DEF UsableAccess
<1>3. label.time \in Int
  BY <1>1, <1>2, LabelTime
<1>4. Supported(tt, query, rounds, k, rounds[k], s)
  BY <1>1, <1>2 DEF SearchInv, LabelsSupported
<1>5. Neg \in Int /\ Neg < 0 - w
      /\ \A j \in DOMAIN query.egress : Neg < query.time - query.egress[j].duration - w
  BY <1>1, <1>2, NegAssumption
<1>6. label.time - w > Neg
  <2>1. label # Unreached
    BY <1>2 DEF Unreached, Label
  <2>2. CASE label = EgressLabels(query)[s]
    <3>1. links # {}
      <4>1. label = Unreached \/ links # {}
        BY <1>2, <2>2 DEF EgressLabels
      <4> QED BY <2>1, <4>1
    <3>2. label.time = query.time - Min(D)
      <4>1. label = Label(query.time - Min(D), Egress)
        BY <1>2, <2>2, <3>1 DEF EgressLabels
      <4> HIDE DEF label, D
      <4> QED BY <4>1 DEF Label
    <3>3. D \in SUBSET Nat /\ D # {}
      <4>1. links \subseteq DOMAIN query.egress
        BY DEF LinksTo
      <4>2. \A x \in DOMAIN query.egress : query.egress[x].duration \in Nat
        BY <1>1, QueryFacts
      <4> QED BY <3>1, <4>1, <4>2
    <3>4. PICK j \in DOMAIN query.egress : Min(D) = query.egress[j].duration
      <4>1. Min(D) \in D
        <5> HIDE DEF D
        <5> QED BY <3>3, MinOfNats
      <4>2. links \subseteq DOMAIN query.egress
        BY DEF LinksTo
      <4> QED BY <4>1, <4>2
    <3> HIDE DEF D, label, w
    <3> QED BY <1>5, <3>2, <3>4
  <2>3. CASE label.parent.kind = "board" /\ label.time \in Nat
    <3> HIDE DEF label, w
    <3> QED BY <1>2, <1>5, <2>3
  <2>4. CASE label # EgressLabels(query)[s]
    <3>1. label.parent.kind # "transfer" \/ <<label.parent.from, s>> \notin DOMAIN tt.walks
      OBVIOUS
    <3>2. /\ label.parent.kind = "board"
          /\ RideSupports(tt, query, label.parent, s, label.time,
               rounds[label.parent.round]
                 [tt.patterns[label.parent.pattern].stops[label.parent.alight]])
      <4> HIDE DEF label, s
      <4>1. Supported(tt, query, rounds, k, rounds[k], s) /\ label = rounds[k][s]
        BY <1>4 DEF label, s
      <4> QED BY <2>1, <2>4, <3>1, <4>1, Zenon DEF Supported
    <3> DEFINE p == label.parent
    <3>3. /\ p.pattern \in DOMAIN tt.patterns
          /\ p.trip \in DOMAIN tt.patterns[p.pattern].trips
          /\ p.board \in DOMAIN tt.patterns[p.pattern].stops
          /\ tt.patterns[p.pattern].trips[p.trip].departures[p.board] = label.time
      <4> HIDE DEF label, s
      <4> QED BY <3>2, Zenon DEF RideSupports
    <3>4. label.time \in Nat
      <4> HIDE DEF p
      <4>1. tt.patterns[p.pattern].trips[p.trip].departures[p.board] \in Nat
        BY <1>1, <3>3, TripFacts
      <4> QED BY <3>3, <4>1
    <3> QED BY <2>3, <3>2, <3>4
  <2> QED BY <2>2, <2>4
<1>7. DepartOrigin(rounds[k], query.access[i]) = label.time - w
  BY DEF DepartOrigin
<1> HIDE DEF label, w
<1> QED BY <1>2, <1>3, <1>6, <1>7

(* Whenever one is in time with n rides, a journey of no more leaves as late. *)
LEMMA OneIsAsLate ==
  ASSUME JourneyInv, ClosedInv, OfferInv, FirstOutFirstIn(tt), DOMAIN tt.walks = {},
         pc = "done", NEW n \in 0 .. query.maxRounds, NEW d \in Int,
         Within(query, Reach(tt, [query EXCEPT !.time = d])[n])
  PROVE  \E m \in DOMAIN journeys : /\ RideCount(journeys[m].legs) <= n
                                    /\ Leaving(tt, query, journeys[m].legs) >= d
<1> DEFINE early == [query EXCEPT !.time = d]
           reach == Reach(tt, early)
<1>1. PICK x \in reach[n] : Homebound(x, 0)
  <2> HIDE DEF reach
  <2> QED BY DEF Within, Homebound, reach
<1>2. PICK a \in AccessArrivals(early) : Homebound(a, n)
  BY <1>1, HomeFromAccess
<1>3. /\ Level(n) \in 1 .. K
      /\ \E i \in UsableAccess(rounds[Level(n)]) :
           DepartOrigin(rounds[Level(n)], query.access[i]) >= d
  BY <1>2, RoundLeaves
<1>4. PICK i \in UsableAccess(rounds[Level(n)]) :
        DepartOrigin(rounds[Level(n)], query.access[i]) >= d
  BY <1>3
<1> DEFINE leaves == DepartOrigin(rounds[Level(n)], query.access[i])
<1>5. leaves \in Int /\ leaves > Neg /\ Neg \in Int
  BY <1>3, LeavesAfterNeg, NegAssumption
<1>6. Level(n) \in 1 .. (collecting - 1) /\ Level(n) <= n + 1 /\ query.maxRounds \in Nat
  <2>1. WalksClosed(tt.walks)
    BY DEF WalksClosed
  <2>2. collecting > K /\ collecting \in Nat /\ K \in Nat
    BY <2>1, RoundTimes DEF OfferInv, JourneyInv, KeptInv, SearchInv, TypeOK
  <2>3. query.maxRounds \in Nat
    BY QueriesAssumption
       DEF JourneyInv, KeptInv, SearchInv, TypeOK, WellFormedQuery, RaptorQuery
  <2> QED BY <1>3, <2>2, <2>3 DEF Level
<1>7. WalksClosed(tt.walks)
  BY DEF WalksClosed
<1>8. PICK m \in DOMAIN journeys :
        /\ RideCount(journeys[m].legs) < Level(n)
        /\ Leaving(tt, query, journeys[m].legs) >= leaves
  <2>1. ~(leaves <= Neg)
    <3> HIDE DEF leaves
    <3> QED BY <1>5
  <2> QED BY <1>4, <1>6, <1>7, <2>1 DEF OfferInv
<1>9. /\ RideCount(journeys[m].legs) \in Nat
      /\ Leaving(tt, query, journeys[m].legs) \in Int
  BY <1>7, RideCounts DEF JourneyInv, KeptInv, LaterInv
<1>10. RideCount(journeys[m].legs) <= n
  BY <1>6, <1>8, <1>9
<1>11. Leaving(tt, query, journeys[m].legs) >= d
  <2> HIDE DEF leaves
  <2>1. leaves >= d
    BY <1>4 DEF leaves
  <2> QED BY <1>5, <1>8, <1>9, <2>1
<1> QED BY <1>10, <1>11

-----------------------------------------------------------------------------
(* Riding a trip of the timetable is a ride of the reference.              *)
RideOn(t, qu, a, ride) ==
  Arrival(t.patterns[ride.pattern].stops[ride.alight], AlightTime(t, ride), "ride",
          a.rides + 1)

LEMMA FromARide ==
  ASSUME NEW t, NEW qu, NEW a, NEW ride, Allowed(t, qu, ride),
         t.patterns[ride.pattern].stops[ride.board] = a.stop,
         BoardTime(t, ride) >= ReadyAt(a)
  PROVE  RideOn(t, qu, a, ride) \in RidesFrom(t, qu, a)
<1> DEFINE stops(p) == t.patterns[p].stops
           trips(p) == t.patterns[p].trips
           found(p) == {y \in (DOMAIN trips(p)) \X (DOMAIN stops(p)) \X (DOMAIN stops(p)) :
                         /\ Boardable(trips(p)[y[1]], qu)
                         /\ stops(p)[y[2]] = a.stop
                         /\ trips(p)[y[1]].departures[y[2]] >= ReadyAt(a)
                         /\ y[2] < y[3]}
           rides(p) == {Arrival(stops(p)[x[3]], trips(p)[x[1]].arrivals[x[3]],
                                "ride", a.rides + 1) : x \in found(p)}
           q == ride.pattern
           x == <<ride.trip, ride.board, ride.alight>>
<1>1. q \in {r \in DOMAIN t.patterns : PatternAllowed(t.patterns[r], qu)}
  BY DEF Allowed
<1>2. x \in found(q)
  <2>1. /\ ride.trip \in DOMAIN trips(q) /\ ride.board \in DOMAIN stops(q)
        /\ ride.alight \in DOMAIN stops(q)
        /\ Boardable(trips(q)[ride.trip], qu) /\ ride.board < ride.alight
        /\ stops(q)[ride.board] = a.stop
        /\ trips(q)[ride.trip].departures[ride.board] >= ReadyAt(a)
    BY Zenon DEF Allowed, BoardTime
  <2> HIDE DEF stops, trips, q
  <2> QED BY <2>1
<1>3. RideOn(t, qu, a, ride)
        = Arrival(stops(q)[x[3]], trips(q)[x[1]].arrivals[x[3]], "ride", a.rides + 1)
  BY DEF RideOn, AlightTime
<1>4. RideOn(t, qu, a, ride) \in rides(q)
  <2> HIDE DEF found, x
  <2> QED BY <1>2, <1>3
<1>5. RidesFrom(t, qu, a)
        = UNION {rides(p) : p \in {r \in DOMAIN t.patterns : PatternAllowed(t.patterns[r], qu)}}
  BY Zenon DEF RidesFrom
<1> HIDE DEF rides, q
<1> QED BY <1>1, <1>4, <1>5

(* With more rides one reaches no less.                                    *)
LEMMA ReachGrows ==
  ASSUME JourneyInv, DOMAIN tt.walks = {}, NEW d \in Int, NEW n \in 0 .. query.maxRounds,
         NEW m \in 0 .. n, NEW x \in Reach(tt, [query EXCEPT !.time = d])[m]
  PROVE  x \in Reach(tt, [query EXCEPT !.time = d])[n]
<1> DEFINE reach == Reach(tt, [query EXCEPT !.time = d])
           lost  == {k \in m .. n : x \notin reach[k]}
<1>1. query.maxRounds \in Nat
  BY QueriesAssumption
     DEF JourneyInv, KeptInv, SearchInv, TypeOK, WellFormedQuery, RaptorQuery
<1>2. \A k \in 1 .. n : reach[k - 1] \subseteq reach[k]
  <2> SUFFICES ASSUME NEW k \in 1 .. n PROVE reach[k - 1] \subseteq reach[k]
    OBVIOUS
  <2>1. k \in 0 .. query.maxRounds /\ k # 0
    BY <1>1
  <2> QED BY <2>1, ReachSteps
<1>3. x \in reach[m]
  OBVIOUS
<1> HIDE DEF reach
<1> SUFFICES ASSUME lost # {} PROVE FALSE
  BY <1>1 DEF reach
<1>4. lost \in SUBSET Nat
  BY <1>1
<1> DEFINE k == Min(lost)
<1>5. k \in lost /\ \A y \in lost : k <= y
  <2> HIDE DEF lost
  <2> QED BY <1>4, MinOfNats
<1>6. k \in m .. n /\ x \notin reach[k]
  BY <1>5
<1> HIDE DEF k
<1>7. k # m /\ k \in 1 .. n /\ k - 1 \in m .. n
  BY <1>1, <1>3, <1>6
<1>8. x \in reach[k - 1]
  <2>1. k - 1 \notin lost
    <3> HIDE DEF lost
    <3> QED BY <1>1, <1>4, <1>5, <1>7
  <2> QED BY <1>7, <2>1
<1> QED BY <1>2, <1>6, <1>7, <1>8

(* A journey's legs between its walks on the streets.                      *)
Middle(legs, a, e) ==
  SubSeq(legs, Len(WalkIfAny(a.stop, a.duration)) + 1,
         Len(legs) - Len(WalkIfAny(e.stop, e.duration)))

LEMMA MiddleIsSome ==
  ASSUME NEW legs \in Seq(Legs), NEW a \in StreetLink, NEW e \in StreetLink,
         LET out == WalkIfAny(a.stop, a.duration)
             in  == WalkIfAny(e.stop, e.duration)
         IN  legs = out \o Middle(legs, a, e) \o in
  PROVE  /\ Middle(legs, a, e) \in Seq(Legs)
         /\ (\A i \in DOMAIN Middle(legs, a, e) : IsRide(Middle(legs, a, e)[i]))
              => Len(Middle(legs, a, e)) <= RideCount(legs)
<1> DEFINE out == WalkIfAny(a.stop, a.duration)
           in  == WalkIfAny(e.stop, e.duration)
           middle == Middle(legs, a, e)
<1>1. /\ a.stop \in Stops /\ a.duration \in Nat
      /\ e.stop \in Stops /\ e.duration \in Nat
  BY DEF StreetLink
<1>2. out \in Seq(Legs) /\ in \in Seq(Legs)
  BY <1>1, WalkIfAnyType
<1>3. Len(out) \in 0 .. 1 /\ Len(in) \in 0 .. 1
  BY <1>1 DEF WalkIfAny
<1> DEFINE m == Len(out) + 1
           n == Len(legs) - Len(in)
<1>4. middle = SubSeq(legs, m, n) /\ m \in 1 .. 2 /\ n \in Int /\ n <= Len(legs)
      /\ Len(legs) \in Nat
  <2>1. middle = SubSeq(legs, m, n)
    BY DEF Middle
  <2>2. Len(legs) \in Nat
    BY LenProperties
  <2>3. ASSUME NEW x \in 0 .. 1, NEW y \in 0 .. 1, NEW l \in Nat
        PROVE  x + 1 \in 1 .. 2 /\ l - y \in Int /\ l - y <= l
    OBVIOUS
  <2>4. m \in 1 .. 2 /\ n \in Int /\ n <= Len(legs)
    <3> HIDE DEF out, in
    <3> QED BY <1>3, <2>2, <2>3
  <2> QED BY <2>1, <2>2, <2>4
<1>5. /\ middle \in Seq(Legs)
      /\ Len(middle) = IF m <= n THEN n - m + 1 ELSE 0
      /\ \A i \in 1 .. n - m + 1 : middle[i] = legs[m + i - 1]
  <2> HIDE DEF m, n, middle
  <2>1. \A i \in m .. n : legs[i] \in Legs
    <3>1. \A i \in m .. n : i \in 1 .. Len(legs)
      BY <1>4
    <3> QED BY <3>1
  <2> QED BY <1>4, <2>1, SubSeqProperties
<1>6. ASSUME \A i \in DOMAIN middle : IsRide(middle[i])
      PROVE  Len(middle) <= RideCount(legs)
  <2> HIDE DEF m, n, middle
  <2>1. RideCount(legs) \in Nat /\ IsFiniteSet(Rides(legs))
    BY RidesFinite
  <2>2. CASE ~(m <= n)
    BY <1>5, <2>1, <2>2
  <2>3. CASE m <= n
    <3>1. Len(middle) = n - m + 1 /\ DOMAIN middle = 1 .. n - m + 1
      <4>1. Len(middle) = n - m + 1
        BY <1>5, <2>3
      <4> QED BY <1>5, <4>1, LenProperties
    <3>2. m .. n \subseteq Rides(legs)
      <4> SUFFICES ASSUME NEW k \in m .. n PROVE k \in Rides(legs)
        OBVIOUS
      <4>1. k - m + 1 \in 1 .. n - m + 1 /\ m + (k - m + 1) - 1 = k /\ k \in 1 .. Len(legs)
        BY <1>4
      <4>2. middle[k - m + 1] = legs[k]
        BY <1>5, <4>1
      <4>3. IsRide(legs[k])
        BY <1>6, <3>1, <4>1, <4>2
      <4> QED BY <4>1, <4>3 DEF Rides
    <3>3. Cardinality(m .. n) = n - m + 1
      BY <1>4, <2>3, FS_Interval
    <3>4. Cardinality(m .. n) <= Cardinality(Rides(legs))
      BY <2>1, <3>2, FS_Subset
    <3> QED BY <3>1, <3>3, <3>4 DEF RideCount
  <2> QED BY <2>2, <2>3
<1> QED BY <1>5, <1>6

-----------------------------------------------------------------------------
(* What is travelled by a date is travelled by the same query of any time.  *)
LEMMA EarlyAllows ==
  ASSUME NEW qu \in Queries, NEW d, NEW ride
  PROVE  LET early == [qu EXCEPT !.time = d]
         IN  /\ early.egress = qu.egress /\ early.access = qu.access
             /\ early.maxRounds = qu.maxRounds
             /\ \A t : Allowed(t, qu, ride) => Allowed(t, early, ride)
<1> DEFINE early == [qu EXCEPT !.time = d]
<1>1. qu \in RaptorQuery
  BY QueriesAssumption DEF WellFormedQuery
<1>2. /\ early.egress = qu.egress /\ early.access = qu.access
      /\ early.maxRounds = qu.maxRounds /\ early.date = qu.date
      /\ early.railOnly = qu.railOnly /\ early.wheelchair = qu.wheelchair
  BY <1>1 DEF RaptorQuery
<1> HIDE DEF early
<1>3. \A pattern : PatternAllowed(pattern, early) <=> PatternAllowed(pattern, qu)
  BY <1>2, Zenon DEF PatternAllowed
<1>4. \A trip : Boardable(trip, early) <=> Boardable(trip, qu)
  BY <1>2, Zenon DEF Boardable
<1>5. ASSUME NEW t, Allowed(t, qu, ride) PROVE Allowed(t, early, ride)
  BY <1>3, <1>4, <1>5, Zenon DEF Allowed
<1> QED BY <1>2, <1>5 DEF early

(* Where, when and how one is after so many of the legs.                    *)
Arrives(t, legs, from, clock, i, x) ==
  /\ x.stop = (IF i = 0 THEN from ELSE LegEnd(t, legs[i]))
  /\ x.time = clock[i]
  /\ x.kind = (IF i = 0 THEN "access" ELSE "ride")

(* Whoever travels by rides only gets on, one ride after the other.         *)
LEMMA RidesAreReached ==
  ASSUME JourneyInv, DOMAIN tt.walks = {}, NEW d \in Int,
         NEW a \in DOMAIN query.access, NEW legs \in Seq(Legs),
         Len(legs) <= query.maxRounds,
         LET clock == Clock(tt, legs, d + query.access[a].duration)
         IN  \A i \in DOMAIN legs :
               CanTravel(tt, query, legs, i, query.access[a].stop, clock)
  PROVE  LET clock == Clock(tt, legs, d + query.access[a].duration)
             reach == Reach(tt, [query EXCEPT !.time = d])
         IN  /\ clock[Len(legs)] \in Int /\ clock[Len(legs)] >= d
             /\ \E x \in reach[Len(legs)] :
                  Arrives(tt, legs, query.access[a].stop, clock, Len(legs), x)
             /\ \A i \in DOMAIN legs : IsRide(legs[i])
<1> DEFINE early == [query EXCEPT !.time = d]
           reach == Reach(tt, early)
           from  == query.access[a].stop
           w     == query.access[a].duration
           clock == Clock(tt, legs, d + w)
           N     == Len(legs)
           There(i) == /\ clock[i] >= d
                       /\ \E x \in reach[i] : Arrives(tt, legs, from, clock, i, x)
           lost  == {i \in 0 .. N : ~There(i)}
<1>1. /\ query \in Queries /\ tt \in Timetables /\ query.maxRounds \in Nat
      /\ N \in Nat /\ DOMAIN legs = 1 .. N
      /\ from \in Stops /\ w \in Nat
  BY QueryFacts, LenProperties, QueriesAssumption
     DEF JourneyInv, KeptInv, SearchInv, TypeOK, WellFormedQuery, RaptorQuery
<1>2. \A i \in DOMAIN legs : CanTravel(tt, query, legs, i, from, clock)
  OBVIOUS
<1>3. \A i \in DOMAIN legs : IsRide(legs[i])
  <2> HIDE DEF clock
  <2> SUFFICES ASSUME NEW i \in DOMAIN legs, ~IsRide(legs[i]) PROVE FALSE
    OBVIOUS
  <2>1. \E e : e \in DOMAIN tt.walks
    BY <1>2 DEF CanTravel
  <2> QED BY <2>1
<1>4. ASSUME NEW i \in DOMAIN legs
      PROVE  /\ Allowed(tt, query, legs[i])
             /\ tt.patterns[legs[i].pattern].stops[legs[i].board]
                  = PlaceBefore(tt, legs, from, i)
             /\ BoardTime(tt, legs[i]) >= clock[i - 1] + PauseBefore(legs, i)
  <2>1. IsRide(legs[i])
    BY <1>3
  <2> HIDE DEF clock
  <2>2. CanTravel(tt, query, legs, i, from, clock)
    BY <1>2
  <2> QED BY <2>1, <2>2 DEF CanTravel, Allowed, PlaceBefore, PauseBefore
<1>5. \A i \in DOMAIN legs : AlightTime(tt, legs[i]) \in Int
  BY <1>1, <1>4, RideTimes
<1>6. IsClock(tt, legs, d + w, clock)
  <2>1. d + w \in Int
    BY <1>1
  <2>2. \A i \in DOMAIN legs : ~IsRide(legs[i]) => legs[i].duration \in Nat
    BY <1>3
  <2> QED BY <1>5, <2>1, <2>2, ClockFacts
<1> HIDE DEF clock
<1>7. /\ clock \in [0 .. N -> Int] /\ clock[0] = d + w
      /\ \A i \in 1 .. N : clock[i] = AlightTime(tt, legs[i])
  BY <1>1, <1>3, <1>6 DEF IsClock
<1>8. early.access = query.access
  BY <1>1, EarlyAllows, Zenon
<1>9. There(0)
  <2> DEFINE x == Arrival(from, d + w, "access", 0)
  <2>1. early.time = d
    <3>1. query \in RaptorQuery
      BY <1>1, QueriesAssumption DEF WellFormedQuery
    <3> QED BY <3>1 DEF RaptorQuery
  <2>2. x \in AccessArrivals(early)
    <3> HIDE DEF early
    <3> QED BY <1>8, <2>1 DEF AccessArrivals
  <2>3. reach[0] = AccessArrivals(early)
    <3>1. 0 \in 0 .. query.maxRounds
      BY <1>1
    <3> QED BY <3>1, ReachSteps
  <2>4. Arrives(tt, legs, from, clock, 0, x)
    <3> HIDE DEF from, w
    <3> QED BY <1>7 DEF Arrives, Arrival
  <2>5. clock[0] >= d
    <3> HIDE DEF w
    <3> QED BY <1>1, <1>7
  <2> HIDE DEF x, reach
  <2> QED BY <2>2, <2>3, <2>4, <2>5
<1>10. ASSUME NEW i \in 1 .. N, There(i - 1)
       PROVE  There(i)
  <2>1. PICK b \in reach[i - 1] : Arrives(tt, legs, from, clock, i - 1, b)
    <3> HIDE DEF reach
    <3> QED BY <1>10
  <2>2. /\ i \in DOMAIN legs /\ i - 1 \in 0 .. N
        /\ clock[i - 1] \in Int /\ clock[i] \in Int /\ clock[i - 1] >= d
    BY <1>1, <1>7, <1>10
  <2>3. b.stop = PlaceBefore(tt, legs, from, i)
    <3>1. i - 1 = 0 <=> i = 1
      OBVIOUS
    <3> HIDE DEF from
    <3> QED BY <2>1, <3>1 DEF Arrives, PlaceBefore
  <2>4. ReadyAt(b) = clock[i - 1] + PauseBefore(legs, i)
    <3>1. b.time = clock[i - 1] /\ (b.kind = "ride" <=> i > 1)
      BY <2>1 DEF Arrives
    <3>2. i > 1 => IsRide(legs[i - 1])
      <4>1. i > 1 => i - 1 \in DOMAIN legs
        BY <1>1
      <4> QED BY <1>3, <4>1
    <3> QED BY <3>1, <3>2 DEF ReadyAt, PauseBefore
  <2> DEFINE r == RideOn(tt, early, b, legs[i])
  <2>5. r \in RidesFrom(tt, early, b)
    <3>1. Allowed(tt, early, legs[i])
      BY <1>1, <1>4, <2>2, EarlyAllows, Zenon
    <3>2. tt.patterns[legs[i].pattern].stops[legs[i].board] = b.stop
      BY <1>4, <2>2, <2>3
    <3>3. BoardTime(tt, legs[i]) >= ReadyAt(b)
      BY <1>4, <2>2, <2>4
    <3> HIDE DEF early
    <3> QED BY <3>1, <3>2, <3>3, FromARide, Zenon
  <2>6. r \in reach[i]
    <3>1. i \in 0 .. query.maxRounds /\ i # 0
      BY <1>1
    <3>2. reach[i] = reach[i - 1] \cup UNION {RidesFrom(tt, early, x) : x \in reach[i - 1]}
      BY <3>1, ReachSteps
    <3> HIDE DEF reach, r, early
    <3> QED BY <2>1, <2>5, <3>2
  <2>7. Arrives(tt, legs, from, clock, i, r)
    <3>1. /\ r.time = AlightTime(tt, legs[i]) /\ r.kind = "ride"
          /\ r.stop = LegEnd(tt, legs[i])
      BY <1>3, <2>2 DEF RideOn, Arrival, LegEnd
    <3>2. clock[i] = AlightTime(tt, legs[i]) /\ i # 0
      BY <1>7
    <3> HIDE DEF r, from
    <3> QED BY <3>1, <3>2 DEF Arrives
  <2>8. clock[i] >= d
    <3>1. /\ Allowed(tt, query, legs[i])
          /\ BoardTime(tt, legs[i]) >= clock[i - 1] + PauseBefore(legs, i)
          /\ clock[i] = AlightTime(tt, legs[i])
      BY <1>4, <1>7, <2>2
    <3>2. BoardTime(tt, legs[i]) \in Nat /\ AlightTime(tt, legs[i]) \in Nat
      BY <1>1, <3>1, RideTimes
    <3>3. BoardTime(tt, legs[i]) <= AlightTime(tt, legs[i])
      BY <1>1, <3>1, TripFacts DEF Allowed, BoardTime, AlightTime
    <3>4. PauseBefore(legs, i) \in Nat
      BY BufferAssumption DEF PauseBefore
    <3> QED BY <2>2, <3>1, <3>2, <3>3, <3>4
  <2> HIDE DEF r, reach
  <2> QED BY <2>6, <2>7, <2>8
<1> HIDE DEF There
<1>11. There(N)
  <2> SUFFICES ASSUME lost # {} PROVE FALSE
    BY <1>1
  <2>1. lost \in SUBSET Nat
    BY <1>1
  <2> DEFINE m == Min(lost)
  <2>2. m \in lost /\ \A y \in lost : m <= y
    <3> HIDE DEF lost
    <3> QED BY <2>1, MinOfNats
  <2>3. m \in 0 .. N /\ ~There(m)
    BY <2>2
  <2> HIDE DEF m
  <2>4. m # 0
    BY <1>9, <2>3
  <2>5. m \in 1 .. N /\ m - 1 \in 0 .. N
    BY <1>1, <2>3, <2>4
  <2>6. There(m - 1)
    <3>1. m - 1 \notin lost
      <4> HIDE DEF lost
      <4> QED BY <1>1, <2>1, <2>2, <2>5
    <3> QED BY <2>5, <3>1
  <2> QED BY <1>10, <2>3, <2>5, <2>6
<1>12. clock[N] \in Int
  BY <1>1, <1>7
<1> HIDE DEF reach, from
<1> QED BY <1>3, <1>11, <1>12 DEF There, clock, reach, from

-----------------------------------------------------------------------------
(* When a journey leaves, one can be in time with as many rides.            *)
LEMMA JourneyIsInTime ==
  ASSUME JourneyInv, OfferInv, DOMAIN tt.walks = {}, NEW n \in 0 .. query.maxRounds,
         NEW m \in DOMAIN journeys, RideCount(journeys[m].legs) <= n
  PROVE  LET d == Leaving(tt, query, journeys[m].legs)
         IN  /\ d \in Neg .. query.time
             /\ Within(query, Reach(tt, [query EXCEPT !.time = d])[n])
<1> DEFINE legs == journeys[m].legs
           d    == Leaving(tt, query, legs)
<1>1. /\ query \in Queries /\ tt \in Timetables /\ query.maxRounds \in Nat
      /\ query.time \in Nat /\ Neg \in Int
  BY QueryFacts, QueriesAssumption, NegAssumption
     DEF JourneyInv, KeptInv, SearchInv, TypeOK, WellFormedQuery, RaptorQuery
<1>2. WalksClosed(tt.walks)
  BY DEF WalksClosed
<1>3. d \in Int /\ d > Neg
  BY <1>2 DEF JourneyInv, LaterInv, OfferInv
<1>4. /\ journeys[m].legs \in Seq(Legs) /\ journeys[m].arrival \in Int
      /\ Travelled(tt, query, journeys[m])
  <2>1. journeys[m] \in Answers /\ Travelled(tt, query, journeys[m])
    BY DEF JourneyInv, AnswersInv
  <2> QED BY <2>1 DEF Answers
<1>5. /\ journeys[m].arrival <= query.time
      /\ \E i \in DOMAIN query.access, j \in DOMAIN query.egress :
           Feasible(tt, query, legs, query.access[i], query.egress[j], d,
                    journeys[m].arrival)
  BY <1>4, Zenon DEF Travelled
<1>6. PICK i \in DOMAIN query.access, j \in DOMAIN query.egress :
        Feasible(tt, query, legs, query.access[i], query.egress[j], d, journeys[m].arrival)
  BY <1>5
<1> DEFINE a == query.access[i]
           e == query.egress[j]
           middle == Middle(legs, a, e)
           clock  == Clock(tt, middle, d + a.duration)
           reach  == Reach(tt, [query EXCEPT !.time = d])
           L      == Len(middle)
<1>7. /\ a \in StreetLink /\ e \in StreetLink /\ a.stop \in Stops /\ a.duration \in Nat
      /\ e.stop \in Stops /\ e.duration \in Nat
  BY <1>1, QueryFacts
<1>8. /\ legs = WalkIfAny(a.stop, a.duration) \o middle \o WalkIfAny(e.stop, e.duration)
      /\ \A x \in DOMAIN middle : CanTravel(tt, query, middle, x, a.stop, clock)
      /\ LastPlace(tt, middle, a.stop) = e.stop
      /\ clock[L] + e.duration <= journeys[m].arrival
  BY <1>6, Zenon DEF Feasible, Middle, LastPlace
<1> HIDE DEF d
<1>9. /\ middle \in Seq(Legs)
      /\ (\A x \in DOMAIN middle : IsRide(middle[x])) => L <= RideCount(legs)
  <2> HIDE DEF legs, a, e
  <2> QED BY <1>4, <1>7, <1>8, MiddleIsSome DEF legs
<1>10. /\ RideCount(legs) \in Nat /\ L \in Nat /\ DOMAIN middle = 1 .. L
  BY <1>4, <1>9, RidesFinite, LenProperties
<1> HIDE DEF middle, legs
<1>11. L <= RideCount(legs)
  <2>1. ASSUME NEW x \in DOMAIN middle PROVE IsRide(middle[x])
    <3> HIDE DEF clock, a
    <3>1. CanTravel(tt, query, middle, x, a.stop, clock)
      BY <1>8
    <3>2. \A y : y \notin DOMAIN tt.walks
      OBVIOUS
    <3> QED BY <3>1, <3>2 DEF CanTravel
  <2> QED BY <1>9, <2>1
<1>12. L <= n /\ L <= query.maxRounds
  BY <1>1, <1>10, <1>11 DEF legs
<1>13. /\ clock[L] \in Int /\ clock[L] >= d
       /\ \E x \in reach[L] : Arrives(tt, middle, a.stop, clock, L, x)
  BY <1>3, <1>8, <1>9, <1>12, RidesAreReached
<1> HIDE DEF clock
<1>14. PICK x \in reach[L] : Arrives(tt, middle, a.stop, clock, L, x)
  BY <1>13
<1>15. x \in reach[n]
  <2>1. L \in 0 .. n
    BY <1>10, <1>12
  <2> QED BY <1>3, <1>14, <2>1, ReachGrows
<1>16. x.stop = e.stop /\ x.time = clock[L]
  <2>1. middle = <<>> <=> L = 0
    BY <1>9
  <2> HIDE DEF a, e
  <2>2. x.time = clock[L] /\ x.stop = (IF L = 0 THEN a.stop ELSE LegEnd(tt, middle[L]))
    BY <1>14 DEF Arrives
  <2>3. e.stop = (IF middle = <<>> THEN a.stop ELSE LegEnd(tt, middle[L]))
    BY <1>8 DEF LastPlace
  <2> QED BY <2>1, <2>2, <2>3
<1>17. x.time + e.duration <= query.time
  <2> HIDE DEF e
  <2> QED BY <1>1, <1>4, <1>5, <1>7, <1>8, <1>13, <1>16
<1>18. d <= query.time
  <2> HIDE DEF e
  <2> QED BY <1>1, <1>3, <1>7, <1>13, <1>16, <1>17
<1>19. Within(query, reach[n])
  <2> HIDE DEF reach
  <2> QED BY <1>15, <1>16, <1>17 DEF Within
<1>20. d \in Neg .. query.time
  BY <1>1, <1>3, <1>18
<1> QED BY <1>19, <1>20 DEF d, legs

LateInv == JourneyInv /\ ClosedInv /\ OfferInv

LEMMA LateInvariance == Spec => []LateInv
<1>1. Init => LateInv
  BY InitInv, MarksInit, RidesInit, WalksInit, PunctualInit, AnswersInit, FreshInit,
     EndsInit, RidesTakenInit, ClosedInit, OfferInit DEF LateInv, JourneyInv, KeptInv
<1>2. LateInv /\ [Next]_vars => LateInv'
  <2>1. JourneyInv /\ [Next]_vars => JourneyInv'
    BY NextInv, MarksStep, RidesStep, WalksStep, PunctualStep, FrontStep, AnswersStep,
       LaterStep, FreshStep, EndsStep, RidesTakenStep DEF JourneyInv, KeptInv
  <2>2. JourneyInv /\ ClosedInv /\ [Next]_vars => ClosedInv'
    BY ClosedStep DEF JourneyInv
  <2>3. JourneyInv /\ OfferInv /\ [Next]_vars => OfferInv'
    BY OfferStep
  <2> QED BY <2>1, <2>2, <2>3 DEF LateInv
<1> QED BY <1>1, <1>2, PTL DEF Spec

(* With at most n rides an arrive-by search leaves exactly at the latest
   moment from which the brute force, going forwards by any trip, is at the
   destination by the deadline, and answers with nothing just when there is
   none: for every number of rounds and every query, in all timetables
   without walks between stops whose trips keep their order.                *)
THEOREM LeavesAsLateAsOneCan == Spec => []LatestWithoutWalks
<1>1. LateInv => LatestWithoutWalks
  <2> SUFFICES ASSUME LateInv, DOMAIN tt.walks = {}, FirstOutFirstIn(tt), pc = "done"
               PROVE  LatestDeparture
    BY DEF LatestWithoutWalks, LatestDeparture
  <2> DEFINE leaves(m) == Leaving(tt, query, journeys[m].legs)
             can(n, d) == Within(query, Reach(tt, [query EXCEPT !.time = d])[n])
             few(n) == {m \in DOMAIN journeys : RideCount(journeys[m].legs) <= n}
             offered(n) == {LeavesAt(journeys[m].legs) : m \in few(n)}
             early(d)  == [query EXCEPT !.time = d]
             inTime(n) == {d \in Neg .. query.time :
                             Earliest(early(d), Reach(tt, early(d))[n], query.time + 1)
                               <= query.time}
  <2>1. JourneyInv /\ ClosedInv /\ OfferInv
    BY DEF LateInv
  <2>2. /\ query \in Queries /\ query.maxRounds \in Nat /\ query.time \in Nat /\ Neg \in Int
    BY <2>1, QueryFacts, QueriesAssumption, NegAssumption
       DEF JourneyInv, KeptInv, SearchInv, TypeOK, WellFormedQuery, RaptorQuery
  <2>3. ASSUME NEW n \in 0 .. query.maxRounds
        PROVE  /\ (offered(n) = {}) = (inTime(n) = {})
               /\ offered(n) # {} => Max(offered(n)) = Max(inTime(n))
    <3>1. ASSUME NEW d \in Neg .. query.time
          PROVE  d \in inTime(n) <=> can(n, d)
      <4> DEFINE low == IF d <= 0 THEN d ELSE 0
      <4>1. d \in Int /\ low \in Int /\ low <= 0 /\ low <= d
        BY <2>2
      <4> HIDE DEF low
      <4>2. \A a \in Reach(tt, early(d))[n] : Timed(a, low)
        BY <2>1, <4>1, ReachTimed
      <4>3. early(d).egress = query.egress
        BY <2>2, EarlyAllows, Zenon
      <4> HIDE DEF early
      <4>4. Earliest(early(d), Reach(tt, early(d))[n], query.time + 1) <= query.time
              <=> Within(query, Reach(tt, early(d))[n])
        BY <2>2, <4>1, <4>2, <4>3, EarliestWithin
      <4> QED BY <4>4 DEF early
    <3> HIDE DEF inTime
    <3>2. inTime(n) \subseteq Neg .. query.time
      BY DEF inTime
    <3>3. \A m \in few(n) : leaves(m) \in inTime(n)
      <4> SUFFICES ASSUME NEW m \in few(n) PROVE leaves(m) \in inTime(n)
        OBVIOUS
      <4>1. leaves(m) \in Neg .. query.time /\ can(n, leaves(m))
        BY <2>1, JourneyIsInTime
      <4> HIDE DEF leaves, can
      <4> QED BY <3>1, <4>1
    <3>4. \A m \in DOMAIN journeys : LeavesAt(journeys[m].legs) = leaves(m)
      BY LeavingArriving, Zenon
    <3>5. offered(n) \subseteq inTime(n)
      <4> HIDE DEF leaves
      <4> QED BY <3>3, <3>4
    <3>6. ASSUME NEW d \in inTime(n)
          PROVE  \E o \in offered(n) : o >= d
      <4>1. d \in Int /\ can(n, d)
        <5> HIDE DEF can
        <5> QED BY <2>2, <3>1, <3>2
      <4>2. PICK m \in DOMAIN journeys : RideCount(journeys[m].legs) <= n /\ leaves(m) >= d
        BY <2>1, <4>1, OneIsAsLate
      <4>3. LeavesAt(journeys[m].legs) \in offered(n)
        BY <4>2
      <4> HIDE DEF offered, leaves
      <4> QED BY <3>4, <4>2, <4>3
    <3> HIDE DEF offered, can, leaves, few
    <3>7. offered(n) = {} <=> inTime(n) = {}
      BY <3>5, <3>6
    <3>8. ASSUME offered(n) # {} PROVE Max(offered(n)) = Max(inTime(n))
      <4>1. PICK o \in offered(n) : \A y \in offered(n) : y <= o
        <5>1. offered(n) \in SUBSET (Neg .. query.time)
          BY <3>2, <3>5
        <5>2. query.time \in Int /\ Neg \in Int
          BY <2>2
        <5>3. \E m \in offered(n) : \A y \in offered(n) : y <= m
          BY <3>8, <5>1, <5>2, GreatestIn, Zenon
        <5> QED BY <5>3
      <4>2. offered(n) \in SUBSET Int /\ inTime(n) \in SUBSET Int
        BY <3>2, <3>5
      <4>3. o \in inTime(n) /\ \A y \in inTime(n) : y <= o
        <5>1. ASSUME NEW y \in inTime(n) PROVE y <= o
          <6>1. PICK x \in offered(n) : x >= y
            BY <3>6
          <6> QED BY <4>1, <4>2, <6>1
        <5> QED BY <3>5, <5>1
      <4>4. Max(offered(n)) = o
        BY <4>1, <4>2, MaxIs
      <4>5. Max(inTime(n)) = o
        BY <4>2, <4>3, MaxIs
      <4> QED BY <4>4, <4>5
    <3> QED BY <3>7, <3>8
  <2>4. LatestDeparture <=>
          \A n \in 0 .. query.maxRounds :
            /\ (offered(n) = {}) = (inTime(n) = {})
            /\ offered(n) # {} => Max(offered(n)) = Max(inTime(n))
    BY Zenon DEF LatestDeparture
  <2> HIDE DEF offered, inTime
  <2> QED BY <2>3, <2>4
<1> QED BY <1>1, LateInvariance, PTL
=============================================================================
