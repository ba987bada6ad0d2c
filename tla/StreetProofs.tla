----------------------------- MODULE StreetProofs -----------------------------
(***************************************************************************)
(* Proofs about the street graph and its searches, for all documents,      *)
(* queries and profiles that are well formed, and any size of the grid.    *)
(***************************************************************************)
EXTENDS StreetProperties, FiniteSetTheorems, SequenceTheorems, TLAPS

Facts == INSTANCE JourneyFacts
           WITH Stops <- {}, Buffer <- 1, Timetables <- {}, Queries <- {}

(* The least and the greatest of a set of numbers.                         *)
LEMMA LeastOf ==
  ASSUME NEW S \in SUBSET Nat, S # {}
  PROVE  Min(S) \in S /\ \A y \in S : Min(S) <= y
BY Facts!MinOfNats DEF Min, Facts!Min

LEMMA GreatestOf ==
  ASSUME NEW n \in Nat, NEW S \in SUBSET (1 .. n), S # {}
  PROVE  Max(S) \in S /\ \A y \in S : y <= Max(S)
<1>1. Facts!Max(S) \in S /\ \A y \in S : y <= Facts!Max(S)
  BY Facts!MaxOfBounded
<1>2. Facts!Max(S) = Max(S)
  BY Zenon DEF Max, Facts!Max
<1> QED BY <1>1, <1>2

(* Induction up to a number, and what is defined by it.                     *)
LEMMA Upwards ==
  ASSUME NEW n \in Nat, NEW S, 0 \in S, \A k \in 1 .. n : k - 1 \in S => k \in S
  PROVE  \A k \in 0 .. n : k \in S
<1> DEFINE bad == {k \in 0 .. n : k \notin S}
           m   == Min(bad)
<1> SUFFICES ASSUME bad # {} PROVE FALSE
  OBVIOUS
<1>1. bad \in SUBSET Nat
  OBVIOUS
<1>2. m \in bad /\ \A y \in bad : m <= y
  <2> HIDE DEF bad
  <2> QED BY <1>1, LeastOf
<1> HIDE DEF m
<1>3. m \in 1 .. n
  BY <1>2
<1>4. m - 1 \in 0 .. n /\ m - 1 \notin bad
  BY <1>2, <1>3
<1> QED BY <1>2, <1>3, <1>4

Iterates(n, b, step, f) == f[0] = b /\ \A k \in 1 .. n : f[k] = step[<<k, f[k - 1]>>]

LEMMA Iterate ==
  ASSUME NEW n \in Nat, NEW V, NEW b \in V, NEW step \in [(1 .. n) \X V -> V]
  PROVE  \E f \in [0 .. n -> V] : Iterates(n, b, step, f)
<1> DEFINE Upto(k, f) == f[0] = b /\ \A j \in 1 .. k : f[j] = step[<<j, f[j - 1]>>]
           S == {k \in 0 .. n : \E f \in [0 .. k -> V] : Upto(k, f)}
<1>1. 0 \in S
  <2> DEFINE f == [j \in 0 .. 0 |-> b]
  <2>1. f \in [0 .. 0 -> V] /\ f[0] = b
    OBVIOUS
  <2>2. \A j \in 1 .. 0 : f[j] = step[<<j, f[j - 1]>>]
    OBVIOUS
  <2> HIDE DEF f
  <2> QED BY <2>1, <2>2
<1>2. ASSUME NEW k \in 1 .. n, k - 1 \in S
      PROVE  k \in S
  <2>1. PICK f \in [0 .. k - 1 -> V] : Upto(k - 1, f)
    BY <1>2
  <2> DEFINE next == step[<<k, f[k - 1]>>]
             h    == [j \in 0 .. k |-> IF j = k THEN next ELSE f[j]]
  <2>2. f[k - 1] \in V /\ next \in V
    OBVIOUS
  <2> HIDE DEF next
  <2>3. h \in [0 .. k -> V]
    BY <2>2
  <2>4. \A j \in 0 .. k - 1 : h[j] = f[j]
    OBVIOUS
  <2>5. h[k] = next
    OBVIOUS
  <2>6. h[0] = b
    BY <2>1, <2>4
  <2> HIDE DEF h
  <2>7. \A j \in 1 .. k : h[j] = step[<<j, h[j - 1]>>]
    <3> TAKE j \in 1 .. k
    <3>1. CASE j = k
      BY <2>4, <2>5, <3>1 DEF next
    <3>2. CASE j # k
      <4>1. j \in 1 .. k - 1 /\ j \in 0 .. k - 1 /\ j - 1 \in 0 .. k - 1
        BY <3>2
      <4> QED BY <2>1, <2>4, <4>1
    <3> QED BY <3>1, <3>2
  <2>8. Upto(k, h)
    BY <2>6, <2>7
  <2> HIDE DEF Upto
  <2> QED BY <2>3, <2>8
<1>3. n \in S
  <2> HIDE DEF S
  <2>1. \A k \in 0 .. n : k \in S
    BY <1>1, <1>2, Upwards
  <2> QED BY <2>1
<1> QED BY <1>3 DEF Iterates

-----------------------------------------------------------------------------
(* The cheapest ways through a square of numbers, the price of each step from
   row to column.                                                          *)
IsSquare(N, w) == /\ w \in [1 .. N -> [1 .. N -> Nat]]
                  /\ \A n \in 1 .. N : w[n][n] = 0

Via(N, w, k) ==
  [m \in 1 .. N |-> [n \in 1 .. N |-> Min({w[m][n], w[m][k] + w[k][n]})]]

(* No step is shorter than the difference of a height.                      *)
Slopes(N, w, height) ==
  /\ height \in [1 .. N -> Int]
  /\ \A m, n \in 1 .. N : height[n] <= height[m] + w[m][n]

Shorter(N, v, w) == \A m, n \in 1 .. N : v[m][n] <= w[m][n]

Triangles(N, w, k) ==
  \A j \in 1 .. k : \A m, n \in 1 .. N : w[m][n] <= w[m][j] + w[j][n]

LEMMA LesserOf ==
  ASSUME NEW a \in Nat, NEW b \in Nat
  PROVE  /\ Min({a, b}) \in {a, b} /\ Min({a, b}) \in Nat
         /\ Min({a, b}) <= a /\ Min({a, b}) <= b
<1> DEFINE S == {a, b}
<1>1. S \in SUBSET Nat /\ S # {} /\ a \in S /\ b \in S
  OBVIOUS
<1>2. Min(S) \in S /\ \A y \in S : Min(S) <= y
  <2> HIDE DEF S
  <2> QED BY <1>1, LeastOf
<1> QED BY <1>1, <1>2

LEMMA ViaFacts ==
  ASSUME NEW N \in Nat, NEW w, IsSquare(N, w), NEW k \in 1 .. N, Triangles(N, w, k - 1)
  PROVE  /\ IsSquare(N, Via(N, w, k)) /\ Shorter(N, Via(N, w, k), w)
         /\ Triangles(N, Via(N, w, k), k)
         /\ \A height : Slopes(N, w, height) => Slopes(N, Via(N, w, k), height)
<1> DEFINE R == 1 .. N
           v == Via(N, w, k)
<1>1. \A m, n \in R : w[m][n] \in Nat /\ w[n][n] = 0
  BY DEF IsSquare
<1>2. \A m, n \in R : v[m][n] = Min({w[m][n], w[m][k] + w[k][n]})
  BY DEF Via
<1>3. v \in [R -> [R -> Nat]]
  <2>1. \A m, n \in R : Min({w[m][n], w[m][k] + w[k][n]}) \in Nat
    <3> TAKE m, n \in R
    <3>1. w[m][n] \in Nat /\ w[m][k] + w[k][n] \in Nat
      BY <1>1
    <3> QED BY <3>1, LesserOf
  <2> QED BY <2>1 DEF Via
<1> HIDE DEF v, R
<1>4. k \in R
  BY DEF R
<1>5. \A m, n \in R : /\ v[m][n] = w[m][n] \/ v[m][n] = w[m][k] + w[k][n]
                      /\ v[m][n] \in Nat /\ v[m][n] <= w[m][n] /\ v[m][n] <= w[m][k] + w[k][n]
  <2> TAKE m, n \in R
  <2> DEFINE a == w[m][n]
             b == w[m][k] + w[k][n]
  <2>1. a \in Nat /\ b \in Nat
    BY <1>1, <1>4
  <2>2. v[m][n] = Min({a, b})
    BY <1>2
  <2> HIDE DEF a, b
  <2>3. v[m][n] \in {a, b} /\ v[m][n] \in Nat /\ v[m][n] <= a /\ v[m][n] <= b
    BY <2>1, <2>2, LesserOf
  <2> QED BY <2>3 DEF a, b
<1>6. \A n \in R : v[n][n] = 0
  <2> TAKE n \in R
  <2>1. v[n][n] \in Nat /\ v[n][n] <= w[n][n] /\ w[n][n] = 0
    BY <1>1, <1>5
  <2> QED BY <2>1
<1>7. Triangles(N, v, k)
  <2> SUFFICES ASSUME NEW j \in 1 .. k, NEW m \in R, NEW n \in R
               PROVE  v[m][n] <= v[m][j] + v[j][n]
    BY DEF Triangles, R
  <2>1. j \in R
    BY DEF R
  <2>2. /\ v[m][n] \in Nat /\ v[m][j] \in Nat /\ v[j][n] \in Nat
        /\ v[m][n] <= w[m][n] /\ v[m][n] <= w[m][k] + w[k][n]
        /\ v[m][j] = w[m][j] \/ v[m][j] = w[m][k] + w[k][j]
        /\ v[j][n] = w[j][n] \/ v[j][n] = w[j][k] + w[k][n]
    BY <1>5, <2>1
  <2>3. /\ w[m][n] \in Nat /\ w[m][j] \in Nat /\ w[j][n] \in Nat /\ w[m][k] \in Nat
        /\ w[k][n] \in Nat /\ w[k][j] \in Nat /\ w[j][k] \in Nat /\ w[k][k] = 0
    BY <1>1, <1>4, <2>1
  <2>4. CASE j = k
    BY <2>2, <2>3, <2>4
  <2>5. CASE j # k
    <3>1. j \in 1 .. k - 1
      BY <2>5
    <3>2. /\ w[m][n] <= w[m][j] + w[j][n]
          /\ w[k][n] <= w[k][j] + w[j][n]
          /\ w[m][k] <= w[m][j] + w[j][k]
      BY <1>4, <2>1, <3>1 DEF Triangles, R
    <3> QED BY <2>2, <2>3, <3>2
  <2> QED BY <2>4, <2>5
<1>8. ASSUME NEW height, Slopes(N, w, height)
      PROVE  Slopes(N, v, height)
  <2>1. \A m \in R : height[m] \in Int
    BY <1>8 DEF Slopes, R
  <2>2. \A m, n \in R : height[n] <= height[m] + w[m][n]
    BY <1>8 DEF Slopes, R
  <2>3. \A m, n \in R : height[n] <= height[m] + v[m][n]
    <3> TAKE m, n \in R
    <3>1. /\ height[n] <= height[m] + w[m][n] /\ height[k] <= height[m] + w[m][k]
          /\ height[n] <= height[k] + w[k][n]
          /\ height[m] \in Int /\ height[n] \in Int /\ height[k] \in Int
      BY <1>4, <2>1, <2>2
    <3>2. /\ v[m][n] = w[m][n] \/ v[m][n] = w[m][k] + w[k][n]
          /\ w[m][k] \in Nat /\ w[k][n] \in Nat
      BY <1>1, <1>4, <1>5
    <3> QED BY <3>1, <3>2
  <2> QED BY <1>8, <2>3 DEF Slopes, R
<1> QED BY <1>3, <1>5, <1>6, <1>7, <1>8 DEF IsSquare, Shorter, v, R

(* d is the cheapest of all ways through w, of any number of steps.         *)
AreShortest(N, w, d) ==
  /\ IsSquare(N, d) /\ Shorter(N, d, w) /\ Triangles(N, d, N)
  /\ \A height : Slopes(N, w, height) => Slopes(N, d, height)

Chosen(N, w) ==
  LET D[k \in 0 .. N] == IF k = 0 THEN w ELSE Via(N, D[k - 1], k) IN D[N]

LEMMA ShortestWays ==
  ASSUME NEW N \in Nat, NEW w, IsSquare(N, w)
  PROVE  AreShortest(N, w, Chosen(N, w))
<1> DEFINE V       == [1 .. N -> [1 .. N -> Nat]]
           step    == [x \in (1 .. N) \X V |-> Via(N, x[2], x[1])]
           Body(f) == [k \in 0 .. N |-> IF k = 0 THEN w ELSE Via(N, f[k - 1], k)]
           D       == CHOOSE f : f = Body(f)
<1>1. \A k \in 1 .. N, v \in V : Via(N, v, k) \in V
  <2> TAKE k \in 1 .. N, v \in V
  <2>1. \A m, n \in 1 .. N : Min({v[m][n], v[m][k] + v[k][n]}) \in Nat
    <3> TAKE m, n \in 1 .. N
    <3> DEFINE a == v[m][n]
               b == v[m][k]
               c == v[k][n]
    <3>1. a \in Nat /\ b \in Nat /\ c \in Nat
      <4>1. v[m] \in [1 .. N -> Nat] /\ v[k] \in [1 .. N -> Nat]
        OBVIOUS
      <4> QED BY <4>1
    <3> HIDE DEF a, b, c
    <3>2. a \in Nat /\ b + c \in Nat
      BY <3>1
    <3>3. Min({a, b + c}) \in Nat
      BY <3>2, LesserOf
    <3> QED BY <3>3 DEF a, b, c
  <2> QED BY <2>1 DEF Via
<1>2. w \in V /\ Chosen(N, w) = D[N]
  BY DEF IsSquare, Chosen
<1> HIDE DEF V
<1>3. step \in [(1 .. N) \X V -> V]
  BY <1>1
<1>4. \A k \in 1 .. N, v \in V : step[<<k, v>>] = Via(N, v, k)
  OBVIOUS
<1> HIDE DEF step
<1>5. PICK f \in [0 .. N -> V] : Iterates(N, w, step, f)
  BY <1>2, <1>3, Iterate
<1>6. f[0] = w /\ \A k \in 1 .. N : f[k] = step[<<k, f[k - 1]>>]
  BY <1>5, Zenon DEF Iterates
<1>7. \A k \in 1 .. N : f[k] = Via(N, f[k - 1], k)
  <2> TAKE k \in 1 .. N
  <2>1. k - 1 \in 0 .. N
    OBVIOUS
  <2> QED BY <1>4, <1>6, <2>1
<1>8. f = Body(f)
  <2>1. \A k \in 0 .. N : f[k] = IF k = 0 THEN w ELSE Via(N, f[k - 1], k)
    <3> TAKE k \in 0 .. N
    <3>1. k = 0 \/ k \in 1 .. N
      OBVIOUS
    <3> QED BY <1>6, <1>7, <3>1
  <2> QED BY <2>1
<1>9. D = Body(D)
  <2> HIDE DEF Body
  <2> QED BY <1>8
<1> HIDE DEF D
<1>10. D[0] = w /\ \A k \in 1 .. N : D[k] = Via(N, D[k - 1], k)
  BY <1>9
<1> HIDE DEF Body
<1> DEFINE Fine(k) == /\ IsSquare(N, D[k]) /\ Shorter(N, D[k], w) /\ Triangles(N, D[k], k)
                      /\ \A height : Slopes(N, w, height) => Slopes(N, D[k], height)
           S == {k \in 0 .. N : Fine(k)}
<1>11. 0 \in S
  <2>1. Shorter(N, w, w)
    BY DEF Shorter, IsSquare
  <2>2. Triangles(N, w, 0)
    BY DEF Triangles
  <2> QED BY <1>10, <2>1, <2>2
<1>12. ASSUME NEW k \in 1 .. N, k - 1 \in S
       PROVE  k \in S
  <2> DEFINE u == D[k - 1]
             v == D[k]
  <2>1. /\ IsSquare(N, u) /\ Shorter(N, u, w) /\ Triangles(N, u, k - 1)
        /\ \A height : Slopes(N, w, height) => Slopes(N, u, height)
    BY <1>12
  <2>2. v = Via(N, u, k)
    BY <1>10
  <2> HIDE DEF u, v
  <2>3. /\ IsSquare(N, v) /\ Shorter(N, v, u) /\ Triangles(N, v, k)
        /\ \A height : Slopes(N, u, height) => Slopes(N, v, height)
    BY <2>1, <2>2, ViaFacts
  <2>4. Shorter(N, v, w)
    <3>1. \A m, n \in 1 .. N : u[m][n] \in Nat /\ v[m][n] \in Nat /\ w[m][n] \in Nat
      <4>1. IsSquare(N, u) /\ IsSquare(N, v) /\ IsSquare(N, w)
        BY <2>1, <2>3
      <4> QED BY <4>1 DEF IsSquare
    <3>2. \A m, n \in 1 .. N : v[m][n] <= u[m][n] /\ u[m][n] <= w[m][n]
      BY <2>1, <2>3 DEF Shorter
    <3>3. \A m, n \in 1 .. N : v[m][n] <= w[m][n]
      <4> TAKE m, n \in 1 .. N
      <4>1. u[m][n] \in Nat /\ v[m][n] \in Nat /\ w[m][n] \in Nat
        BY <3>1
      <4>2. v[m][n] <= u[m][n] /\ u[m][n] <= w[m][n]
        BY <3>2
      <4> QED BY <4>1, <4>2
    <3> QED BY <3>3 DEF Shorter
  <2> QED BY <2>1, <2>3, <2>4 DEF v
<1>13. N \in S
  <2> HIDE DEF S
  <2>1. \A k \in 0 .. N : k \in S
    BY <1>11, <1>12, Upwards
  <2> QED BY <2>1
<1> QED BY <1>2, <1>13 DEF AreShortest

-----------------------------------------------------------------------------
(* A town: nodes and edges that are numbered, the edges packed by the node they
   leave; what an edge costs and which are barred; where a search starts and at
   what price; what is left to walk from a node, at the least; the limit; and
   the cheapest walk between any two nodes, of any length.                 *)
NodesOf(t) == 1 .. t.size

EdgesOf(t) == 1 .. t.count

Roads(t) == EdgesOf(t) \ t.barred

IsPacked(t) ==
  /\ t.size \in Nat /\ t.count \in Nat
  /\ t.from \in [EdgesOf(t) -> NodesOf(t)] /\ t.to \in [EdgesOf(t) -> NodesOf(t)]
  /\ t.cost \in [EdgesOf(t) -> Nat]
  /\ t.first \in [1 .. t.size + 1 -> 1 .. t.count + 1]
  /\ \A n \in NodesOf(t) :
       /\ t.first[n] <= t.first[n + 1]
       /\ \A i \in EdgesOf(t) : t.from[i] = n <=> (t.first[n] <= i /\ i < t.first[n + 1])

IsGuided(t) ==
  /\ t.rest \in [NodesOf(t) -> Nat]
  /\ \A i \in EdgesOf(t) : t.rest[t.from[i]] <= t.cost[i] + t.rest[t.to[i]]

IsEntered(t) ==
  /\ t.sources \subseteq NodesOf(t) /\ t.offset \in [NodesOf(t) -> Nat] /\ t.cap \in Nat
  /\ \A s \in t.sources : t.offset[s] <= t.cap

(* What no edge raises by more than it costs, and is within the limit.      *)
IsHeight(t, height) ==
  /\ height \in [NodesOf(t) -> 0 .. t.cap + 1]
  /\ \A i \in Roads(t) : height[t.to[i]] <= height[t.from[i]] + t.cost[i]

IsMeasured(t) ==
  /\ IsSquare(t.size, t.far) /\ Triangles(t.size, t.far, t.size)
  /\ \A i \in Roads(t) : t.far[t.from[i]][t.to[i]] <= t.cost[i]
  /\ \A height : IsHeight(t, height) => Slopes(t.size, t.far, height)

IsTown(t) == IsPacked(t) /\ IsGuided(t) /\ IsEntered(t) /\ IsMeasured(t)

LEMMA TownFacts ==
  ASSUME NEW t, IsTown(t)
  PROVE  /\ t.size \in Nat /\ t.count \in Nat /\ t.cap \in Nat
         /\ \A i \in EdgesOf(t) : /\ t.from[i] \in NodesOf(t) /\ t.to[i] \in NodesOf(t)
                                  /\ t.cost[i] \in Nat
                                  /\ t.rest[t.from[i]] <= t.cost[i] + t.rest[t.to[i]]
         /\ \A n \in NodesOf(t) : t.rest[n] \in Nat /\ t.offset[n] \in Nat
         /\ \A n \in NodesOf(t) : t.first[n] \in Nat /\ t.first[n + 1] \in Nat
         /\ \A s \in t.sources : s \in NodesOf(t) /\ t.offset[s] <= t.cap
         /\ Roads(t) \subseteq EdgesOf(t)
<1>1. IsPacked(t) /\ IsGuided(t) /\ IsEntered(t)
  BY DEF IsTown
<1>2. t.size \in Nat /\ t.count \in Nat /\ t.cap \in Nat
  BY <1>1 DEF IsPacked, IsEntered
<1>3. \A i \in EdgesOf(t) : /\ t.from[i] \in NodesOf(t) /\ t.to[i] \in NodesOf(t)
                            /\ t.cost[i] \in Nat
                            /\ t.rest[t.from[i]] <= t.cost[i] + t.rest[t.to[i]]
  BY <1>1 DEF IsPacked, IsGuided
<1>4. \A n \in NodesOf(t) : t.rest[n] \in Nat /\ t.offset[n] \in Nat
  BY <1>1 DEF IsGuided, IsEntered
<1>5. \A n \in NodesOf(t) : t.first[n] \in Nat /\ t.first[n + 1] \in Nat
  <2> TAKE n \in NodesOf(t)
  <2>1. n \in 1 .. t.size + 1 /\ n + 1 \in 1 .. t.size + 1
    BY <1>2 DEF NodesOf
  <2>2. t.first \in [1 .. t.size + 1 -> 1 .. t.count + 1]
    BY <1>1 DEF IsPacked
  <2>3. t.first[n] \in 1 .. t.count + 1 /\ t.first[n + 1] \in 1 .. t.count + 1
    BY <2>1, <2>2
  <2> QED BY <2>3
<1>6. \A s \in t.sources : s \in NodesOf(t) /\ t.offset[s] <= t.cap
  BY <1>1 DEF IsEntered
<1> QED BY <1>2, <1>3, <1>4, <1>5, <1>6 DEF Roads

(* What a search has found of a town: what a node has cost, the nodes that are
   closed, and the entries that are open.                                  *)
Key(t, p, n) == p[n] + t.rest[n]

Reached(t, p, sealed, heap) ==
  /\ DOMAIN p \subseteq NodesOf(t) /\ sealed \subseteq DOMAIN p
  /\ \A n \in DOMAIN p : p[n] \in Nat /\ p[n] <= t.cap
  /\ \A x \in heap : x.node \in DOMAIN p /\ x.f \in Nat /\ Key(t, p, x.node) <= x.f
  /\ \A n \in DOMAIN p \ sealed : \E x \in heap : x.node = n /\ x.f = Key(t, p, n)

FromSources(t, p) ==
  /\ \A s \in t.sources : s \in DOMAIN p /\ p[s] <= t.offset[s]
  /\ \A n \in DOMAIN p : \E s \in t.sources : t.offset[s] + t.far[s][n] <= p[n]

(* No closed node would come after an open one, or after the current.       *)
InTurn(t, p, sealed, heap, cur) ==
  /\ \A n \in sealed : \A x \in heap : Key(t, p, n) <= x.f
  /\ cur # 0 => cur \in sealed /\ \A n \in sealed : Key(t, p, n) <= Key(t, p, cur)

(* The edges that have been looked at: those of the closed nodes, and of the
   current one those before at.                                            *)
Walked(t, sealed, cur, at) ==
  {i \in Roads(t) : t.from[i] \in sealed /\ (t.from[i] = cur => i < at)}

Spread(t, p, walked) ==
  \A i \in walked :
    \/ t.to[i] \in DOMAIN p /\ p[t.to[i]] <= p[t.from[i]] + t.cost[i]
    \/ p[t.from[i]] + t.cost[i] > t.cap

(* A node was reached by an edge that was walked, or is a source.           *)
Led(t, p, link, walked) ==
  /\ DOMAIN link \subseteq DOMAIN p
  /\ \A n \in DOMAIN link : /\ link[n] \in walked /\ t.to[link[n]] = n
                            /\ p[n] = p[t.from[link[n]]] + t.cost[link[n]]
  /\ \A n \in DOMAIN p \ DOMAIN link : n \in t.sources /\ p[n] = t.offset[n]

(* The closed nodes have an order in which each comes after the one that it was
   reached from.                                                           *)
Ranks(t, link, sealed, top, rank) ==
  /\ rank \in [sealed -> 0 .. top]
  /\ \A n \in sealed \cap DOMAIN link :
       t.from[link[n]] \in sealed /\ rank[t.from[link[n]]] < rank[n]

Aged(t, link, sealed) == \E top \in Nat : \E rank : Ranks(t, link, sealed, top, rank)

Explored(t, p, link, sealed, heap, cur, at) ==
  /\ Reached(t, p, sealed, heap) /\ FromSources(t, p)
  /\ InTurn(t, p, sealed, heap, cur)
  /\ Spread(t, p, Walked(t, sealed, cur, at))
  /\ Led(t, p, link, Walked(t, sealed, cur, at))
  /\ Aged(t, link, sealed)
  /\ cur # 0 => t.first[cur] <= at /\ at <= t.first[cur + 1] /\ at \in Nat

LEMMA Seeded ==
  ASSUME NEW t, IsTown(t), NEW p, NEW heap,
         p = [n \in t.sources |-> t.offset[n]],
         heap = {[f |-> p[n] + t.rest[n], node |-> n] : n \in t.sources}
  PROVE  Explored(t, p, <<>>, {}, heap, 0, 0)
<1>1. DOMAIN p = t.sources /\ \A s \in t.sources : p[s] = t.offset[s]
  OBVIOUS
<1>2. \A s \in t.sources : /\ s \in NodesOf(t) /\ t.offset[s] \in Nat /\ t.rest[s] \in Nat
                           /\ t.offset[s] <= t.cap
  BY TownFacts
<1>3. Reached(t, p, {}, heap)
  <2>1. \A x \in heap : x.node \in DOMAIN p /\ x.f \in Nat /\ Key(t, p, x.node) <= x.f
    BY <1>1, <1>2 DEF Key
  <2>2. \A n \in DOMAIN p : \E x \in heap : x.node = n /\ x.f = Key(t, p, n)
    <3> TAKE n \in DOMAIN p
    <3> DEFINE x == [f |-> p[n] + t.rest[n], node |-> n]
    <3>1. x \in heap /\ x.node = n /\ x.f = p[n] + t.rest[n]
      BY <1>1
    <3> QED BY <3>1, Zenon DEF Key
  <2> QED BY <1>1, <1>2, <2>1, <2>2 DEF Reached
<1>4. FromSources(t, p)
  <2>1. \A s \in t.sources : t.offset[s] + t.far[s][s] <= p[s]
    <3> TAKE s \in t.sources
    <3>1. t.far[s][s] = 0 /\ t.offset[s] \in Nat
      BY <1>2 DEF IsTown, IsMeasured, IsSquare, NodesOf
    <3> QED BY <1>1, <3>1
  <2>2. \A s \in t.sources : s \in DOMAIN p /\ p[s] <= t.offset[s]
    BY <1>1, <1>2
  <2>3. \A n \in DOMAIN p : \E s \in t.sources : t.offset[s] + t.far[s][n] <= p[n]
    <3> HIDE DEF IsTown
    <3> QED BY <1>1, <2>1
  <2> QED BY <2>2, <2>3 DEF FromSources
<1>5. Walked(t, {}, 0, 0) = {}
  BY DEF Walked
<1>6. DOMAIN <<>> = {}
  OBVIOUS
<1>7. Led(t, p, <<>>, Walked(t, {}, 0, 0))
  BY <1>1, <1>6 DEF Led
<1>8. Aged(t, <<>>, {})
  <2>1. Ranks(t, <<>>, {}, 0, [n \in {} |-> 0])
    BY DEF Ranks
  <2> QED BY <2>1 DEF Aged
<1> QED BY <1>3, <1>4, <1>5, <1>7, <1>8 DEF Explored, InTurn, Spread

(* An entry whose node is closed goes.                                      *)
LEMMA StaleGoes ==
  ASSUME NEW t, NEW p, NEW link, NEW sealed, NEW heap,
         Explored(t, p, link, sealed, heap, 0, 0), NEW x \in heap, x.node \in sealed
  PROVE  Explored(t, p, link, sealed, heap \ {x}, 0, 0)
<1>1. Reached(t, p, sealed, heap \ {x})
  BY DEF Explored, Reached
<1>2. InTurn(t, p, sealed, heap \ {x}, 0)
  BY DEF Explored, InTurn
<1> QED BY <1>1, <1>2 DEF Explored

(* The node of a first entry is closed, and becomes the current one.        *)
LEMMA FirstSettles ==
  ASSUME NEW t, IsTown(t), NEW p, NEW link, NEW sealed, NEW heap,
         Explored(t, p, link, sealed, heap, 0, 0),
         NEW x \in heap, \A y \in heap : x.f <= y.f, x.node \notin sealed
  PROVE  /\ Explored(t, p, link, sealed \cup {x.node}, heap \ {x}, x.node, t.first[x.node])
         /\ Walked(t, sealed \cup {x.node}, x.node, t.first[x.node]) = Walked(t, sealed, 0, 0)
         /\ x.node \in NodesOf(t) /\ x.f = Key(t, p, x.node)
<1> DEFINE n   == x.node
           all == sealed \cup {n}
<1>1. Reached(t, p, sealed, heap) /\ InTurn(t, p, sealed, heap, 0)
  BY DEF Explored
<1>2. n \in DOMAIN p /\ n \in NodesOf(t) /\ x.f \in Nat /\ Key(t, p, n) <= x.f
  BY <1>1 DEF Reached
<1>3. \A m \in DOMAIN p : Key(t, p, m) \in Nat
  <2>1. \A m \in DOMAIN p : p[m] \in Nat /\ m \in NodesOf(t)
    BY <1>1 DEF Reached
  <2>2. \A m \in NodesOf(t) : t.rest[m] \in Nat
    BY TownFacts
  <2> QED BY <2>1, <2>2 DEF Key
<1>4. x.f = Key(t, p, n)
  <2>1. PICK y \in heap : y.node = n /\ y.f = Key(t, p, n)
    BY <1>1, <1>2 DEF Reached
  <2>2. x.f <= Key(t, p, n)
    BY <2>1
  <2> QED BY <1>2, <1>3, <2>2
<1> HIDE DEF n
<1>5. n \notin sealed
  BY DEF n
<1>6. Reached(t, p, all, heap \ {x})
  <2>1. \A m \in DOMAIN p \ all : \E y \in heap \ {x} : y.node = m /\ y.f = Key(t, p, m)
    <3> TAKE m \in DOMAIN p \ all
    <3>1. PICK y \in heap : y.node = m /\ y.f = Key(t, p, m)
      BY <1>1 DEF Reached
    <3>2. y # x
      BY <3>1 DEF n
    <3> QED BY <3>1, <3>2
  <2> QED BY <1>1, <1>2, <2>1 DEF Reached
<1>7. InTurn(t, p, all, heap \ {x}, n)
  <2>1. \A m \in sealed : Key(t, p, m) <= x.f
    BY <1>1 DEF InTurn
  <2>2. \A m \in all : Key(t, p, m) <= Key(t, p, n)
    BY <1>2, <1>3, <1>4, <2>1
  <2>3. \A m \in all : \A y \in heap \ {x} : Key(t, p, m) <= y.f
    <3> SUFFICES ASSUME NEW m \in all, NEW y \in heap \ {x} PROVE Key(t, p, m) <= y.f
      OBVIOUS
    <3>1. m \in DOMAIN p /\ y.f \in Nat /\ x.f <= y.f /\ Key(t, p, m) <= x.f
      BY <1>1, <1>2, <1>4, <2>2 DEF Reached
    <3> QED BY <1>2, <1>3, <3>1
  <2> QED BY <2>2, <2>3 DEF InTurn
<1>8. /\ n \in 1 .. t.size /\ t.size \in Nat
      /\ \A i \in EdgesOf(t) : t.from[i] = n <=> (t.first[n] <= i /\ i < t.first[n + 1])
      /\ t.first[n] <= t.first[n + 1]
      /\ t.first[n] \in Nat
  BY <1>2, TownFacts DEF IsTown, IsPacked, NodesOf
<1>9. Walked(t, all, n, t.first[n]) = Walked(t, sealed, 0, 0)
  <2>1. \A i \in Roads(t) : /\ i \in EdgesOf(t) /\ i \in Nat /\ t.from[i] \in NodesOf(t)
                            /\ t.from[i] # 0
    BY TownFacts DEF EdgesOf, NodesOf
  <2>2. \A i \in Roads(t) : t.from[i] = n => ~(i < t.first[n])
    BY <1>8, <2>1
  <2> QED BY <1>5, <2>1, <2>2 DEF Walked
<1>10. Aged(t, link, all)
  <2>1. PICK top \in Nat : \E rank : Ranks(t, link, sealed, top, rank)
    BY DEF Explored, Aged
  <2>2. PICK rank : Ranks(t, link, sealed, top, rank)
    BY <2>1
  <2> DEFINE more == [m \in all |-> IF m = n THEN top + 1 ELSE rank[m]]
  <2>3. rank \in [sealed -> 0 .. top]
    BY <2>2 DEF Ranks
  <2>4. \A m \in sealed : more[m] = rank[m] /\ rank[m] \in 0 .. top
    BY <1>5, <2>3
  <2>5. more[n] = top + 1
    OBVIOUS
  <2>6. more \in [all -> 0 .. top + 1]
    BY <2>3
  <2> HIDE DEF more
  <2>7. \A m \in all \cap DOMAIN link :
          t.from[link[m]] \in all /\ more[t.from[link[m]]] < more[m]
    <3> TAKE m \in all \cap DOMAIN link
    <3>1. CASE m \in sealed
      <4>1. t.from[link[m]] \in sealed /\ rank[t.from[link[m]]] < rank[m]
        BY <2>2, <3>1 DEF Ranks
      <4> QED BY <2>4, <3>1, <4>1
    <3>2. CASE m = n
      <4>1. link[m] \in Walked(t, sealed, 0, 0)
        BY DEF Explored, Led
      <4>2. t.from[link[m]] \in sealed
        BY <4>1 DEF Walked
      <4> QED BY <2>4, <2>5, <3>2, <4>2
    <3> QED BY <3>1, <3>2
  <2>8. Ranks(t, link, all, top + 1, more)
    BY <2>6, <2>7 DEF Ranks
  <2> QED BY <2>8 DEF Aged
<1> HIDE DEF all
<1>11. Explored(t, p, link, all, heap \ {x}, n, t.first[n])
  BY <1>6, <1>7, <1>8, <1>9, <1>10 DEF Explored
<1> QED BY <1>2, <1>4, <1>9, <1>11 DEF n, all

(* One edge of the current node is looked at.                              *)
LEMMA NextEdge ==
  ASSUME NEW t, IsTown(t), NEW p, NEW link, NEW sealed, NEW heap, NEW cur, NEW at,
         Explored(t, p, link, sealed, heap, cur, at), cur # 0, at < t.first[cur + 1]
  PROVE  /\ at \in EdgesOf(t) /\ t.from[at] = cur /\ cur \in sealed /\ cur \in NodesOf(t)
         /\ at + 1 <= t.first[cur + 1] /\ t.first[cur] <= at + 1 /\ at + 1 \in Nat
         /\ Walked(t, sealed, cur, at + 1)
              = Walked(t, sealed, cur, at) \cup ({at} \cap Roads(t))
         /\ at \notin Walked(t, sealed, cur, at)
<1>1. /\ cur \in sealed /\ cur \in NodesOf(t)
      /\ t.first[cur] <= at /\ at \in Nat
  BY DEF Explored, Reached, InTurn
<1>2. /\ t.first[cur] \in Nat /\ t.first[cur + 1] \in Nat /\ t.first[cur] >= 1
      /\ t.first[cur + 1] <= t.count + 1 /\ t.count \in Nat
      /\ \A i \in EdgesOf(t) : t.from[i] = cur <=> (t.first[cur] <= i /\ i < t.first[cur + 1])
  <2>1. IsPacked(t) /\ t.size \in Nat /\ t.count \in Nat
    BY TownFacts DEF IsTown
  <2>2. cur \in 1 .. t.size + 1 /\ cur + 1 \in 1 .. t.size + 1
    BY <1>1, <2>1 DEF NodesOf
  <2>3. t.first[cur] \in 1 .. t.count + 1 /\ t.first[cur + 1] \in 1 .. t.count + 1
    BY <2>1, <2>2 DEF IsPacked
  <2> QED BY <1>1, <2>1, <2>3 DEF IsPacked
<1>3. at \in EdgesOf(t)
  BY <1>1, <1>2 DEF EdgesOf
<1>4. t.from[at] = cur
  BY <1>1, <1>2, <1>3
<1>5. \A i \in Roads(t) : i \in Nat
  BY DEF Roads, EdgesOf
<1>6. Walked(t, sealed, cur, at + 1) = Walked(t, sealed, cur, at) \cup ({at} \cap Roads(t))
  <2>1. \A i \in Nat : i < at + 1 <=> i < at \/ i = at
    BY <1>1
  <2>2. \A i \in Roads(t) :
          i \in Walked(t, sealed, cur, at + 1) <=> i \in Walked(t, sealed, cur, at) \/ i = at
    BY <1>1, <1>4, <1>5, <2>1 DEF Walked
  <2>3. \A i : i \in Walked(t, sealed, cur, at + 1) \/ i \in Walked(t, sealed, cur, at)
               => i \in Roads(t)
    BY DEF Walked
  <2> HIDE DEF Walked
  <2> QED BY <2>2, <2>3
<1>7. at \notin Walked(t, sealed, cur, at)
  BY <1>1, <1>4 DEF Walked
<1> QED BY <1>1, <1>2, <1>3, <1>4, <1>6, <1>7

(* An edge that is barred, or leads beyond the limit, changes nothing.      *)
LEMMA PassesBy ==
  ASSUME NEW t, IsTown(t), NEW p, NEW link, NEW sealed, NEW heap, NEW cur, NEW at,
         Explored(t, p, link, sealed, heap, cur, at), cur # 0, at < t.first[cur + 1],
         at \notin Roads(t) \/ p[cur] + t.cost[at] > t.cap
  PROVE  Explored(t, p, link, sealed, heap, cur, at + 1)
<1> DEFINE old == Walked(t, sealed, cur, at)
           new == Walked(t, sealed, cur, at + 1)
<1>1. t.from[at] = cur /\ new = old \cup ({at} \cap Roads(t))
  BY NextEdge
<1>2. Spread(t, p, old) /\ Led(t, p, link, old)
  BY DEF Explored
<1> HIDE DEF old, new
<1>3. Spread(t, p, new)
  BY <1>1, <1>2 DEF Spread
<1>4. Led(t, p, link, new)
  BY <1>1, <1>2 DEF Led
<1> QED BY <1>3, <1>4, NextEdge DEF Explored, new

(* An edge to a node that has been reached as cheaply changes nothing.      *)
LEMMA Keeps ==
  ASSUME NEW t, IsTown(t), NEW p, NEW link, NEW sealed, NEW heap, NEW cur, NEW at,
         Explored(t, p, link, sealed, heap, cur, at), cur # 0, at < t.first[cur + 1],
         at \in Roads(t),
         t.to[at] \in sealed \/ (t.to[at] \in DOMAIN p /\ ~(p[cur] + t.cost[at] < p[t.to[at]]))
  PROVE  Explored(t, p, link, sealed, heap, cur, at + 1)
<1> DEFINE old == Walked(t, sealed, cur, at)
           new == Walked(t, sealed, cur, at + 1)
           n   == t.to[at]
<1>1. /\ t.from[at] = cur /\ new = old \cup {at} /\ cur \in sealed
      /\ at \in EdgesOf(t)
  BY NextEdge
<1>2. /\ Spread(t, p, old) /\ Led(t, p, link, old)
      /\ Reached(t, p, sealed, heap) /\ InTurn(t, p, sealed, heap, cur)
  BY DEF Explored
<1> HIDE DEF old, new
<1>3. n \in DOMAIN p /\ p[n] <= p[cur] + t.cost[at]
  <2>1. /\ n \in DOMAIN p /\ cur \in DOMAIN p /\ p[n] \in Nat /\ p[cur] \in Nat
    BY <1>1, <1>2 DEF Reached
  <2>2. /\ t.cost[at] \in Nat /\ t.rest[n] \in Nat /\ t.rest[cur] \in Nat
        /\ t.rest[cur] <= t.cost[at] + t.rest[n]
    <3>1. n \in NodesOf(t) /\ cur \in NodesOf(t)
      BY <1>2, <2>1 DEF Reached
    <3> QED BY <1>1, <3>1, TownFacts
  <2>3. CASE n \in sealed
    <3>1. p[n] + t.rest[n] <= p[cur] + t.rest[cur]
      BY <1>2, <2>3 DEF InTurn, Key
    <3> QED BY <2>1, <2>2, <3>1
  <2>4. CASE n \notin sealed
    BY <2>1, <2>2, <2>4
  <2> QED BY <2>3, <2>4
<1>4. Spread(t, p, new)
  BY <1>1, <1>2, <1>3 DEF Spread
<1>5. Led(t, p, link, new)
  BY <1>1, <1>2 DEF Led
<1> QED BY <1>4, <1>5, NextEdge DEF Explored, new

(* An edge to a node that has not been reached, or not as cheaply.          *)
LEMMA Improved ==
  ASSUME NEW t, IsTown(t), NEW p, NEW link, NEW sealed, NEW heap, NEW cur, NEW at,
         Explored(t, p, link, sealed, heap, cur, at), cur # 0, at < t.first[cur + 1],
         at \in Roads(t), NEW n, n = t.to[at], n \notin sealed,
         NEW sum, sum = p[cur] + t.cost[at], sum <= t.cap,
         n \in DOMAIN p => sum < p[n],
         NEW g1, DOMAIN g1 = DOMAIN p \cup {n}, g1[n] = sum,
         \A m \in DOMAIN p : m # n => g1[m] = p[m],
         NEW came1, DOMAIN came1 = DOMAIN link \cup {n}, came1[n] = at,
         \A m \in DOMAIN link : m # n => came1[m] = link[m]
  PROVE  Explored(t, g1, came1, sealed, heap \cup {[f |-> sum + t.rest[n], node |-> n]},
                  cur, at + 1)
<1> DEFINE old  == Walked(t, sealed, cur, at)
           new  == Walked(t, sealed, cur, at + 1)
           x    == [f |-> sum + t.rest[n], node |-> n]
           more == heap \cup {x}
<1>1. /\ t.from[at] = cur /\ new = old \cup {at} /\ cur \in sealed /\ cur \in NodesOf(t)
      /\ at \in EdgesOf(t)
      /\ at + 1 <= t.first[cur + 1] /\ t.first[cur] <= at + 1 /\ at + 1 \in Nat
  BY NextEdge
<1>2. /\ Spread(t, p, old) /\ Led(t, p, link, old) /\ Aged(t, link, sealed)
      /\ Reached(t, p, sealed, heap) /\ InTurn(t, p, sealed, heap, cur)
      /\ FromSources(t, p)
  BY DEF Explored
<1>3. /\ sealed \subseteq DOMAIN p /\ DOMAIN p \subseteq NodesOf(t)
      /\ \A m \in DOMAIN p : p[m] \in Nat /\ p[m] <= t.cap
      /\ n \in NodesOf(t) /\ t.cap \in Nat
      /\ \A m \in NodesOf(t) : t.rest[m] \in Nat
      /\ t.cost[at] \in Nat /\ t.rest[cur] <= t.cost[at] + t.rest[n]
  BY <1>1, <1>2, TownFacts DEF Reached
<1>4. sum \in Nat /\ p[cur] \in Nat
  BY <1>1, <1>3
<1>5. x.node = n /\ x.f = Key(t, g1, n) /\ x.f \in Nat
  BY <1>3, <1>4 DEF Key
<1> HIDE DEF x, old, new
<1>6. \A m \in sealed : g1[m] = p[m] /\ Key(t, g1, m) = Key(t, p, m) /\ m # n
  BY <1>3 DEF Key
<1>7. \A m \in DOMAIN p : g1[m] \in Nat /\ g1[m] <= p[m] /\ Key(t, g1, m) <= Key(t, p, m)
                          /\ Key(t, p, m) \in Nat /\ Key(t, g1, m) \in Nat
  <2> TAKE m \in DOMAIN p
  <2>1. g1[m] \in Nat /\ p[m] \in Nat /\ g1[m] <= p[m] /\ t.rest[m] \in Nat
    BY <1>3, <1>4
  <2> QED BY <2>1 DEF Key
<1>8. Reached(t, g1, sealed, more)
  <2>1. DOMAIN g1 \subseteq NodesOf(t) /\ sealed \subseteq DOMAIN g1
    BY <1>3
  <2>2. \A m \in DOMAIN g1 : g1[m] \in Nat /\ g1[m] <= t.cap
    BY <1>3, <1>4
  <2>3. \A y \in more : y.node \in DOMAIN g1 /\ y.f \in Nat /\ Key(t, g1, y.node) <= y.f
    <3> TAKE y \in more
    <3>1. CASE y = x
      BY <1>5, <3>1
    <3>2. CASE y \in heap
      <4>1. y.node \in DOMAIN p /\ y.f \in Nat /\ Key(t, p, y.node) <= y.f
        BY <1>2, <3>2 DEF Reached
      <4> QED BY <1>7, <4>1
    <3> QED BY <3>1, <3>2
  <2>4. \A m \in DOMAIN g1 \ sealed : \E y \in more : y.node = m /\ y.f = Key(t, g1, m)
    <3> TAKE m \in DOMAIN g1 \ sealed
    <3>1. CASE m = n
      BY <1>5, <3>1
    <3>2. CASE m # n
      <4>1. PICK y \in heap : y.node = m /\ y.f = Key(t, p, m)
        BY <1>2, <3>2 DEF Reached
      <4>2. Key(t, g1, m) = Key(t, p, m)
        BY <3>2 DEF Key
      <4> QED BY <4>1, <4>2
    <3> QED BY <3>1, <3>2
  <2> QED BY <2>1, <2>2, <2>3, <2>4 DEF Reached
<1>9. FromSources(t, g1)
  <2>1. \A s \in t.sources : s \in DOMAIN g1 /\ g1[s] <= t.offset[s]
    <3> TAKE s \in t.sources
    <3>1. s \in DOMAIN p /\ p[s] <= t.offset[s] /\ t.offset[s] \in Nat
      BY <1>2, TownFacts DEF FromSources
    <3> QED BY <1>3, <1>7, <3>1
  <2>2. \A m \in DOMAIN g1 : \E s \in t.sources : t.offset[s] + t.far[s][m] <= g1[m]
    <3> TAKE m \in DOMAIN g1
    <3>1. CASE m # n
      <4>1. m \in DOMAIN p /\ g1[m] = p[m]
        BY <3>1
      <4> QED BY <1>2, <4>1 DEF FromSources
    <3>2. CASE m = n
      <4>1. PICK s \in t.sources : t.offset[s] + t.far[s][cur] <= p[cur]
        BY <1>1, <1>3, <1>2 DEF FromSources
      <4>2. s \in NodesOf(t) /\ t.offset[s] \in Nat
        BY TownFacts
      <4>3. /\ t.far[s][cur] \in Nat /\ t.far[cur][n] \in Nat /\ t.far[s][n] \in Nat
        BY <1>1, <1>3, <4>2 DEF IsTown, IsMeasured, IsSquare, NodesOf
      <4>4. t.far[cur][n] <= t.cost[at]
        <5>1. \A i \in Roads(t) : t.far[t.from[i]][t.to[i]] <= t.cost[i]
          BY DEF IsTown, IsMeasured
        <5> QED BY <1>1, <5>1
      <4>5. t.far[s][n] <= t.far[s][cur] + t.far[cur][n]
        BY <1>1, <1>3, <4>2 DEF IsTown, IsMeasured, Triangles, NodesOf
      <4>6. t.offset[s] + t.far[s][n] <= sum
        BY <1>3, <1>4, <4>1, <4>2, <4>3, <4>4, <4>5
      <4> QED BY <3>2, <4>6
    <3> QED BY <3>1, <3>2
  <2> QED BY <2>1, <2>2 DEF FromSources
<1>10. InTurn(t, g1, sealed, more, cur)
  <2>1. \A m \in sealed : Key(t, g1, m) <= Key(t, g1, cur)
    BY <1>1, <1>2, <1>6 DEF InTurn
  <2>2. Key(t, p, cur) <= x.f
    BY <1>1, <1>3, <1>4, <1>5 DEF Key
  <2>3. ASSUME NEW m \in sealed, NEW y \in more
        PROVE  Key(t, g1, m) <= y.f
    <3>1. CASE y = x
      <4>1. Key(t, p, m) <= Key(t, p, cur)
        BY <1>1, <1>2 DEF InTurn
      <4> QED BY <1>1, <1>3, <1>5, <1>6, <1>7, <2>2, <3>1, <4>1
    <3>2. CASE y \in heap
      BY <1>2, <1>6, <3>2 DEF InTurn
    <3> QED BY <2>3, <3>1, <3>2
  <2> QED BY <1>1, <2>1, <2>3 DEF InTurn
<1>11. \A i \in old : i \in EdgesOf(t) /\ t.from[i] \in sealed /\ g1[t.from[i]] = p[t.from[i]]
                      /\ t.cost[i] \in Nat
  BY <1>6, TownFacts DEF old, Walked
<1>12. Spread(t, g1, new)
  <2> SUFFICES ASSUME NEW i \in new
               PROVE  \/ t.to[i] \in DOMAIN g1 /\ g1[t.to[i]] <= g1[t.from[i]] + t.cost[i]
                      \/ g1[t.from[i]] + t.cost[i] > t.cap
    BY DEF Spread
  <2>1. CASE i = at
    BY <1>1, <1>4, <1>6, <2>1
  <2>2. CASE i \in old
    <3>1. \/ t.to[i] \in DOMAIN p /\ p[t.to[i]] <= p[t.from[i]] + t.cost[i]
          \/ p[t.from[i]] + t.cost[i] > t.cap
      BY <1>2, <2>2 DEF Spread
    <3>2. p[t.from[i]] \in Nat /\ g1[t.from[i]] = p[t.from[i]] /\ t.cost[i] \in Nat
      BY <1>3, <1>11, <2>2
    <3>3. CASE t.to[i] \in DOMAIN p /\ p[t.to[i]] <= p[t.from[i]] + t.cost[i]
      <4>1. g1[t.to[i]] <= p[t.to[i]] /\ p[t.to[i]] \in Nat /\ g1[t.to[i]] \in Nat
        BY <1>3, <1>7, <3>3
      <4> QED BY <3>2, <3>3, <4>1
    <3> QED BY <3>1, <3>2, <3>3
  <2> QED BY <1>1, <2>1, <2>2
<1>13. Led(t, g1, came1, new)
  <2>1. DOMAIN came1 \subseteq DOMAIN g1
    BY <1>2 DEF Led
  <2>2. \A m \in DOMAIN came1 : /\ came1[m] \in new /\ t.to[came1[m]] = m
                                /\ g1[m] = g1[t.from[came1[m]]] + t.cost[came1[m]]
    <3> TAKE m \in DOMAIN came1
    <3>1. CASE m = n
      BY <1>1, <1>6, <3>1
    <3>2. CASE m # n
      <4>1. /\ m \in DOMAIN link /\ came1[m] = link[m] /\ m \in DOMAIN p /\ g1[m] = p[m]
            /\ link[m] \in old /\ t.to[link[m]] = m
            /\ p[m] = p[t.from[link[m]]] + t.cost[link[m]]
        BY <1>2, <3>2 DEF Led
      <4> QED BY <1>1, <1>11, <4>1
    <3> QED BY <3>1, <3>2
  <2>3. \A m \in DOMAIN g1 \ DOMAIN came1 : m \in t.sources /\ g1[m] = t.offset[m]
    BY <1>2 DEF Led
  <2> QED BY <2>1, <2>2, <2>3 DEF Led
<1>14. Aged(t, came1, sealed)
  <2>1. PICK top \in Nat : \E rank : Ranks(t, link, sealed, top, rank)
    BY <1>2 DEF Aged
  <2>2. PICK rank : Ranks(t, link, sealed, top, rank)
    BY <2>1
  <2>3. \A m \in sealed \cap DOMAIN came1 : m \in sealed \cap DOMAIN link /\ came1[m] = link[m]
    BY <1>6
  <2>4. Ranks(t, came1, sealed, top, rank)
    BY <2>2, <2>3 DEF Ranks
  <2> QED BY <2>4 DEF Aged
<1> QED BY <1>1, <1>8, <1>9, <1>10, <1>12, <1>13, <1>14 DEF Explored, new, x

(* The last edge of the current node has been looked at.                   *)
LEMMA NodeDone ==
  ASSUME NEW t, IsTown(t), NEW p, NEW link, NEW sealed, NEW heap, NEW cur, NEW at,
         Explored(t, p, link, sealed, heap, cur, at), cur # 0, at = t.first[cur + 1]
  PROVE  /\ Explored(t, p, link, sealed, heap, 0, 0)
         /\ Walked(t, sealed, 0, 0) = Walked(t, sealed, cur, at)
<1>1. cur \in sealed /\ cur \in NodesOf(t)
  BY DEF Explored, Reached, InTurn
<1>2. \A i \in Roads(t) : /\ t.from[i] # 0
                          /\ t.from[i] = cur => i < at
  <2> TAKE i \in Roads(t)
  <2>1. i \in EdgesOf(t) /\ t.from[i] \in NodesOf(t) /\ t.size \in Nat
    BY TownFacts
  <2>2. t.from[i] = cur <=> (t.first[cur] <= i /\ i < t.first[cur + 1])
    BY <1>1, <2>1 DEF IsTown, IsPacked
  <2>3. t.from[i] # 0
    BY <2>1 DEF NodesOf
  <2> QED BY <2>2, <2>3
<1>3. Walked(t, sealed, 0, 0) = Walked(t, sealed, cur, at)
  BY <1>2 DEF Walked
<1>4. InTurn(t, p, sealed, heap, 0)
  BY DEF Explored, InTurn
<1> QED BY <1>3, <1>4 DEF Explored

-----------------------------------------------------------------------------
(* What is still to be found: where a search stands with no open entry, or with
   a node that has been closed and whose edges have not been looked at.     *)
Stands(t, heap, cur, at) ==
  \/ cur = 0 /\ heap = {} /\ at = 0
  \/ cur # 0 /\ at = t.first[cur]

(* There is a height that is what the closed nodes have cost, and as high as
   the limit lets it be elsewhere, less what is left to walk.              *)
Bounds(t, p, sealed, cur, height) ==
  /\ IsHeight(t, height)
  /\ \A s \in t.sources : height[s] <= t.offset[s]
  /\ \A n \in sealed : height[n] = p[n]
  /\ \A n \in NodesOf(t) \ sealed :
       height[n] <= t.cap => cur # 0 /\ height[n] + t.rest[n] >= Key(t, p, cur)

LEMMA HeightExists ==
  ASSUME NEW t, IsTown(t), NEW p, NEW link, NEW sealed, NEW heap, NEW cur, NEW at,
         Explored(t, p, link, sealed, heap, cur, at), Stands(t, heap, cur, at)
  PROVE  \E height : Bounds(t, p, sealed, cur, height)
<1>1. /\ Spread(t, p, Walked(t, sealed, cur, at))
      /\ Reached(t, p, sealed, heap) /\ InTurn(t, p, sealed, heap, cur)
      /\ FromSources(t, p)
  BY DEF Explored
<1>2. /\ sealed \subseteq DOMAIN p /\ DOMAIN p \subseteq NodesOf(t)
      /\ \A m \in DOMAIN p : p[m] \in Nat /\ p[m] <= t.cap
      /\ t.cap \in Nat /\ \A m \in NodesOf(t) : t.rest[m] \in Nat
  BY <1>1, TownFacts DEF Reached
<1>3. \A i \in Roads(t) : /\ t.from[i] \in NodesOf(t) /\ t.to[i] \in NodesOf(t)
                          /\ t.cost[i] \in Nat
                          /\ t.rest[t.from[i]] <= t.cost[i] + t.rest[t.to[i]]
  BY TownFacts
<1>4. \A s \in t.sources : /\ s \in DOMAIN p /\ p[s] <= t.offset[s] /\ t.offset[s] \in Nat
  BY <1>1, TownFacts DEF FromSources
<1>5. CASE cur = 0
  <2>1. heap = {} /\ sealed = DOMAIN p
    <3>1. heap = {}
      BY <1>5 DEF Stands
    <3> QED BY <1>1, <3>1 DEF Reached
  <2> DEFINE height == [n \in NodesOf(t) |-> IF n \in sealed THEN p[n] ELSE t.cap + 1]
  <2>3. \A n \in sealed : height[n] = p[n] /\ height[n] \in Nat /\ height[n] <= t.cap
    BY <1>2
  <2>4. \A n \in NodesOf(t) \ sealed : height[n] = t.cap + 1
    OBVIOUS
  <2>5. height \in [NodesOf(t) -> 0 .. t.cap + 1]
    BY <1>2
  <2> HIDE DEF height
  <2>6. \A i \in Roads(t) : height[t.to[i]] <= height[t.from[i]] + t.cost[i]
    <3> TAKE i \in Roads(t)
    <3>1. /\ height[t.to[i]] \in 0 .. t.cap + 1 /\ height[t.from[i]] \in 0 .. t.cap + 1
      BY <1>3, <2>5
    <3>2. CASE t.from[i] \in sealed
      <4>1. i \in Walked(t, sealed, cur, at)
        BY <1>3, <1>5, <3>2 DEF Walked, NodesOf
      <4>2. \/ t.to[i] \in DOMAIN p /\ p[t.to[i]] <= p[t.from[i]] + t.cost[i]
            \/ p[t.from[i]] + t.cost[i] > t.cap
        BY <1>1, <4>1 DEF Spread
      <4> QED BY <1>2, <1>3, <2>1, <2>3, <3>1, <3>2, <4>2
    <3>3. CASE t.from[i] \notin sealed
      BY <1>2, <1>3, <2>4, <3>1, <3>3
    <3> QED BY <3>2, <3>3
  <2>7. \A s \in t.sources : height[s] <= t.offset[s]
    BY <1>4, <2>1, <2>3
  <2>8. \A n \in NodesOf(t) \ sealed : ~(height[n] <= t.cap)
    BY <1>2, <2>4
  <2>9. Bounds(t, p, sealed, cur, height)
    BY <2>3, <2>5, <2>6, <2>7, <2>8 DEF Bounds, IsHeight
  <2> QED BY <2>9
<1>6. CASE cur # 0
  <2> DEFINE top == Key(t, p, cur)
             Least(n) == IF top - t.rest[n] < 0 THEN 0
                         ELSE IF top - t.rest[n] > t.cap + 1 THEN t.cap + 1
                         ELSE top - t.rest[n]
             height == [n \in NodesOf(t) |-> IF n \in sealed THEN p[n] ELSE Least(n)]
  <2>1. at = t.first[cur] /\ cur \in sealed
    BY <1>1, <1>6 DEF Stands, InTurn
  <2>2. top \in Nat /\ \A n \in DOMAIN p : Key(t, p, n) = p[n] + t.rest[n]
    BY <1>2, <2>1 DEF Key
  <2>3. \A n \in sealed : p[n] + t.rest[n] <= top
    BY <1>1, <1>6, <2>2, <1>2 DEF InTurn
  <2>4. \A n \in DOMAIN p \ sealed : p[n] + t.rest[n] >= top
    <3> TAKE n \in DOMAIN p \ sealed
    <3>1. PICK x \in heap : x.node = n /\ x.f = Key(t, p, n)
      BY <1>1 DEF Reached
    <3>2. top <= x.f
      BY <1>1, <2>1 DEF InTurn
    <3> QED BY <2>2, <3>1, <3>2
  <2> HIDE DEF top
  <2>5. \A n \in NodesOf(t) :
          /\ Least(n) \in 0 .. t.cap + 1
          /\ Least(n) = 0 \/ Least(n) <= top - t.rest[n]
          /\ Least(n) = t.cap + 1 \/ Least(n) >= top - t.rest[n]
    <3> TAKE n \in NodesOf(t)
    <3> DEFINE left == top - t.rest[n]
    <3>1. left \in Int
      BY <1>2, <2>2
    <3>2. Least(n) = IF left < 0 THEN 0 ELSE IF left > t.cap + 1 THEN t.cap + 1 ELSE left
      OBVIOUS
    <3> HIDE DEF left, Least
    <3>3. /\ Least(n) \in 0 .. t.cap + 1
          /\ Least(n) = 0 \/ Least(n) <= left
          /\ Least(n) = t.cap + 1 \/ Least(n) >= left
      BY <1>2, <3>1, <3>2
    <3> QED BY <3>3 DEF left
  <2> HIDE DEF Least
  <2>6. \A n \in sealed : height[n] = p[n] /\ height[n] \in Nat /\ height[n] <= t.cap
    BY <1>2
  <2>7. \A n \in NodesOf(t) \ sealed : height[n] = Least(n)
    OBVIOUS
  <2>8. height \in [NodesOf(t) -> 0 .. t.cap + 1]
    <3>1. \A n \in NodesOf(t) : (IF n \in sealed THEN p[n] ELSE Least(n)) \in 0 .. t.cap + 1
      <4> TAKE n \in NodesOf(t)
      <4>1. CASE n \in sealed
        BY <1>2, <4>1
      <4>2. CASE n \notin sealed
        BY <2>5, <4>2
      <4> QED BY <4>1, <4>2
    <3> QED BY <3>1
  <2> HIDE DEF height
  <2>9. ASSUME NEW i \in Roads(t)
        PROVE  height[t.to[i]] <= height[t.from[i]] + t.cost[i]
    <3> DEFINE m == t.from[i]
               n == t.to[i]
               c == t.cost[i]
    <3> SUFFICES height[n] <= height[m] + c
      OBVIOUS
    <3>1. /\ m \in NodesOf(t) /\ n \in NodesOf(t) /\ c \in Nat
          /\ t.rest[m] \in Nat /\ t.rest[n] \in Nat /\ t.rest[m] <= c + t.rest[n]
      BY <1>2, <1>3
    <3>2. m \in sealed /\ m # cur => i \in Walked(t, sealed, cur, at)
      BY DEF Walked
    <3>3. m \in sealed /\ m # cur =>
            \/ n \in DOMAIN p /\ p[n] <= p[m] + c
            \/ p[m] + c > t.cap
      BY <1>1, <3>2 DEF Spread
    <3>4. top = p[cur] + t.rest[cur]
      BY <1>2, <2>1, <2>2 DEF top
    <3> HIDE DEF m, n, c
    <3>5. CASE m \in sealed /\ n \in sealed
      <4>1. height[n] = p[n] /\ height[m] = p[m] /\ p[n] \in Nat /\ p[m] \in Nat
            /\ p[n] <= t.cap
        BY <1>2, <2>6, <3>5
      <4>2. CASE m = cur
        BY <2>3, <3>1, <3>4, <3>5, <4>1, <4>2
      <4>3. CASE m # cur
        BY <1>2, <3>1, <3>3, <3>5, <4>1, <4>3
      <4> QED BY <4>2, <4>3
    <3>6. CASE m \in sealed /\ n \notin sealed
      <4>1. /\ height[n] = Least(n) /\ height[m] = p[m] /\ p[m] \in Nat
            /\ Least(n) \in 0 .. t.cap + 1
            /\ Least(n) = 0 \/ Least(n) <= top - t.rest[n]
        BY <1>2, <2>2, <2>5, <2>6, <2>7, <3>1, <3>6
      <4>2. CASE m = cur
        BY <2>2, <3>1, <3>4, <4>1, <4>2
      <4>3. CASE m # cur /\ n \in DOMAIN p /\ p[n] <= p[m] + c
        <5>1. p[n] + t.rest[n] >= top /\ p[n] \in Nat
          BY <1>2, <2>4, <3>6, <4>3
        <5> QED BY <2>2, <3>1, <4>1, <4>3, <5>1
      <4>4. CASE p[m] + c > t.cap
        BY <1>2, <3>1, <4>1, <4>4
      <4> QED BY <3>3, <3>6, <4>2, <4>3, <4>4
    <3>7. CASE m \notin sealed /\ n \in sealed
      <4>1. /\ height[n] = p[n] /\ height[m] = Least(m) /\ p[n] \in Nat /\ p[n] <= t.cap
            /\ p[n] + t.rest[n] <= top
        BY <1>2, <2>3, <2>6, <2>7, <3>1, <3>7
      <4>2. /\ Least(m) \in 0 .. t.cap + 1
            /\ Least(m) = t.cap + 1 \/ Least(m) >= top - t.rest[m]
        BY <1>2, <2>2, <2>5, <3>1
      <4> QED BY <1>2, <2>2, <3>1, <4>1, <4>2
    <3>8. CASE m \notin sealed /\ n \notin sealed
      <4>1. height[n] = Least(n) /\ height[m] = Least(m)
        BY <2>7, <3>1, <3>8
      <4>2. /\ Least(m) \in 0 .. t.cap + 1
            /\ Least(m) = t.cap + 1 \/ Least(m) >= top - t.rest[m]
        BY <1>2, <2>2, <2>5, <3>1
      <4>3. /\ Least(n) \in 0 .. t.cap + 1
            /\ Least(n) = 0 \/ Least(n) <= top - t.rest[n]
        BY <1>2, <2>2, <2>5, <3>1
      <4> QED BY <1>2, <2>2, <3>1, <4>1, <4>2, <4>3
    <3> QED BY <3>5, <3>6, <3>7, <3>8
  <2>10. \A s \in t.sources : height[s] <= t.offset[s]
    <3> TAKE s \in t.sources
    <3>1. s \in DOMAIN p /\ s \in NodesOf(t) /\ p[s] \in Nat /\ t.rest[s] \in Nat
      BY <1>2, <1>4
    <3>2. CASE s \in sealed
      BY <1>4, <2>6, <3>2
    <3>3. CASE s \notin sealed
      <4>1. height[s] = Least(s) /\ p[s] + t.rest[s] >= top
        BY <2>4, <2>7, <3>1, <3>3
      <4>2. /\ Least(s) = 0 \/ Least(s) <= top - t.rest[s]
            /\ Least(s) \in Int
        BY <1>2, <2>2, <2>5, <3>1
      <4>3. p[s] <= t.offset[s] /\ t.offset[s] \in Nat
        BY <1>4
      <4> QED BY <2>2, <3>1, <4>1, <4>2, <4>3
    <3> QED BY <3>2, <3>3
  <2>11. \A n \in NodesOf(t) \ sealed : height[n] <= t.cap => height[n] + t.rest[n] >= top
    <3> TAKE n \in NodesOf(t) \ sealed
    <3>1. /\ Least(n) \in 0 .. t.cap + 1
          /\ Least(n) = t.cap + 1 \/ Least(n) >= top - t.rest[n]
      BY <1>2, <2>2, <2>5
    <3> QED BY <1>2, <2>2, <2>7, <3>1
  <2>12. Bounds(t, p, sealed, cur, height)
    BY <1>6, <2>6, <2>8, <2>9, <2>10, <2>11 DEF Bounds, IsHeight, top
  <2> QED BY <2>12
<1> QED BY <1>5, <1>6

(* The current node was reached as cheaply as it can be.                    *)
LEMMA SettledAtLeast ==
  ASSUME NEW t, IsTown(t), NEW p, NEW link, NEW sealed, NEW heap, NEW cur,
         cur # 0, Explored(t, p, link, sealed, heap, cur, t.first[cur])
  PROVE  /\ cur \in NodesOf(t) /\ p[cur] \in Nat
         /\ \A s \in t.sources : t.offset[s] + t.far[s][cur] >= p[cur]
         /\ \E s \in t.sources : t.offset[s] + t.far[s][cur] <= p[cur]
<1>1. cur \in sealed /\ cur \in DOMAIN p /\ cur \in NodesOf(t) /\ p[cur] \in Nat
  BY DEF Explored, InTurn, Reached
<1>2. PICK height : Bounds(t, p, sealed, cur, height)
  <2>1. Stands(t, heap, cur, t.first[cur])
    BY DEF Stands
  <2> QED BY <2>1, HeightExists
<1>3. Slopes(t.size, t.far, height)
  BY <1>2 DEF Bounds, IsTown, IsMeasured
<1>4. \A s \in t.sources : t.offset[s] + t.far[s][cur] >= p[cur]
  <2> TAKE s \in t.sources
  <2>1. s \in NodesOf(t) /\ t.offset[s] \in Nat /\ t.cap \in Nat
    BY TownFacts
  <2>2. t.far[s][cur] \in Nat
    BY <1>1, <2>1 DEF IsTown, IsMeasured, IsSquare, NodesOf
  <2>3. height[cur] <= height[s] + t.far[s][cur]
    BY <1>1, <1>3, <2>1 DEF Slopes, NodesOf
  <2>4. height[cur] = p[cur] /\ height[s] <= t.offset[s] /\ height[s] \in 0 .. t.cap + 1
    BY <1>1, <1>2, <2>1 DEF Bounds, IsHeight
  <2> QED BY <1>1, <2>1, <2>2, <2>3, <2>4
<1>5. \E s \in t.sources : t.offset[s] + t.far[s][cur] <= p[cur]
  BY <1>1 DEF Explored, FromSources
<1> QED BY <1>1, <1>4, <1>5

-----------------------------------------------------------------------------
(* The targets of a search: the nodes that each may be reached at, and at what
   price; those that are as near to a source as the search is, and which.   *)
IsServed(t) ==
  /\ \A u \in DOMAIN t.goals : /\ t.goals[u] \subseteq NodesOf(t)
                               /\ t.dues[u] \in [NodesOf(t) -> Nat]
                               /\ \A n \in t.goals[u] : t.rest[n] = 0
  /\ t.alike \subseteq DOMAIN t.goals
  /\ \A u \in t.alike : t.near \in t.sources /\ t.near \in t.goals[u]

(* What a walk by an edge costs.                                           *)
By(t, p, i) == p[t.from[i]] + t.cost[i]

Arrivals(t, p, walked, landing) ==
  /\ \A n \in DOMAIN landing :
       /\ landing[n].edge \in walked /\ t.to[landing[n].edge] = n
       /\ landing[n].cost = By(t, p, landing[n].edge) /\ landing[n].cost <= t.cap
  /\ \A i \in walked : \A u \in DOMAIN t.goals :
       By(t, p, i) <= t.cap /\ t.to[i] \in t.goals[u] =>
         t.to[i] \in DOMAIN landing /\ landing[t.to[i]].cost <= By(t, p, i)

(* An answer is of a walk that has been made, or of none for a target as near. *)
IsAnswer(t, landing, u, b) ==
  \/ /\ b.real = TRUE /\ b.node \in t.goals[u] /\ b.node \in DOMAIN landing
     /\ b.total = landing[b.node].cost + t.dues[u][b.node]
  \/ /\ b.real = FALSE /\ u \in t.alike /\ b.node = t.near
     /\ b.total = t.offset[t.near] + t.dues[u][t.near]

Answers(t, landing, told) ==
  /\ DOMAIN told \subseteq DOMAIN t.goals
  /\ \A u \in DOMAIN told : IsAnswer(t, landing, u, told[u])
  /\ \A n \in DOMAIN landing : \A u \in DOMAIN t.goals :
       n \in t.goals[u] =>
         u \in DOMAIN told /\ told[u].total <= landing[n].cost + t.dues[u][n]
  /\ \A u \in t.alike :
       u \in DOMAIN told /\ told[u].total <= t.offset[t.near] + t.dues[u][t.near]

(* A target is resolved when no node that comes later can improve it.       *)
Resolves(t, p, sealed, told, answered) ==
  /\ answered \subseteq DOMAIN t.goals
  /\ \A u \in answered :
       \/ t.goals[u] = {}
       \/ u \in DOMAIN told /\ \E n \in sealed : told[u].total <= Key(t, p, n)

Found(t, p, sealed, walked, landing, told, answered) ==
  /\ Arrivals(t, p, walked, landing)
  /\ Answers(t, landing, told)
  /\ Resolves(t, p, sealed, told, answered)

LEMMA NothingFound ==
  ASSUME NEW t, IsTown(t), IsServed(t), NEW told, NEW answered, NEW p,
         DOMAIN told = t.alike,
         \A u \in t.alike : /\ told[u].real = FALSE /\ told[u].node = t.near
                            /\ told[u].total = t.offset[t.near] + t.dues[u][t.near],
         answered = {u \in DOMAIN t.goals : t.goals[u] = {}}
  PROVE  Found(t, p, {}, {}, <<>>, told, answered)
<1>1. DOMAIN <<>> = {}
  OBVIOUS
<1>2. \A u \in t.alike : /\ u \in DOMAIN t.goals
                         /\ t.offset[t.near] \in Nat /\ t.dues[u][t.near] \in Nat
  <2> TAKE u \in t.alike
  <2>1. /\ u \in DOMAIN t.goals /\ t.near \in NodesOf(t) /\ t.dues[u] \in [NodesOf(t) -> Nat]
    BY TownFacts DEF IsServed
  <2> QED BY <2>1, TownFacts
<1>3. \A u \in t.alike : told[u].total <= t.offset[t.near] + t.dues[u][t.near]
  BY <1>2
<1>4. Answers(t, <<>>, told)
  BY <1>1, <1>2, <1>3 DEF Answers, IsAnswer
<1> QED BY <1>1, <1>4 DEF Found, Arrivals, Resolves

(* Nothing of it depends on what open nodes have cost.                      *)
LEMMA FoundStays ==
  ASSUME NEW t, NEW p, NEW sealed, NEW walked, NEW landing, NEW told, NEW answered,
         Found(t, p, sealed, walked, landing, told, answered),
         \A i \in walked : t.from[i] \in sealed,
         NEW g1, \A n \in sealed : g1[n] = p[n]
  PROVE  Found(t, g1, sealed, walked, landing, told, answered)
<1>1. \A i \in walked : By(t, g1, i) = By(t, p, i)
  BY DEF By
<1>2. \A n \in sealed : Key(t, g1, n) = Key(t, p, n)
  BY DEF Key
<1>3. Arrivals(t, g1, walked, landing)
  BY <1>1 DEF Found, Arrivals
<1>4. Resolves(t, g1, sealed, told, answered)
  BY <1>2 DEF Found, Resolves
<1> QED BY <1>3, <1>4 DEF Found

(* A node is closed, and the targets that it makes sure of are resolved.    *)
LEMMA FoundMore ==
  ASSUME NEW t, NEW p, NEW sealed, NEW walked, NEW landing, NEW told, NEW answered,
         Found(t, p, sealed, walked, landing, told, answered),
         NEW n, NEW more,
         \A u \in more : u \in answered \/ (u \in DOMAIN told /\ told[u].total <= Key(t, p, n))
  PROVE  Found(t, p, sealed \cup {n}, walked, landing, told, more)
<1>1. Resolves(t, p, sealed \cup {n}, told, more)
  <2>1. more \subseteq DOMAIN t.goals
    BY DEF Found, Answers, Resolves
  <2>2. \A u \in more : \/ t.goals[u] = {}
                        \/ u \in DOMAIN told /\ \E m \in sealed \cup {n} :
                                                  told[u].total <= Key(t, p, m)
    BY DEF Found, Resolves
  <2> QED BY <2>1, <2>2 DEF Resolves
<1> QED BY <1>1 DEF Found

(* An edge that is barred, leads beyond the limit, to no candidate, or to one
   that has been walked to as cheaply.                                     *)
LEMMA NoArrival ==
  ASSUME NEW t, NEW p, NEW sealed, NEW walked, NEW landing, NEW told, NEW answered,
         Found(t, p, sealed, walked, landing, told, answered),
         NEW i,
         \/ ~(By(t, p, i) <= t.cap)
         \/ \A u \in DOMAIN t.goals : t.to[i] \notin t.goals[u]
         \/ t.to[i] \in DOMAIN landing /\ landing[t.to[i]].cost <= By(t, p, i)
  PROVE  Found(t, p, sealed, walked \cup {i}, landing, told, answered)
<1>1. Arrivals(t, p, walked \cup {i}, landing)
  BY DEF Found, Arrivals
<1> QED BY <1>1 DEF Found

(* What an answer and an arrival cost are numbers.                          *)
LEMMA AnswersType ==
  ASSUME NEW t, IsTown(t), IsServed(t), NEW p, NEW walked, NEW landing, NEW told,
         Arrivals(t, p, walked, landing), Answers(t, landing, told),
         \A j \in walked : j \in EdgesOf(t) /\ By(t, p, j) \in Nat
  PROVE  /\ \A m \in DOMAIN landing : landing[m].cost \in Nat /\ m \in NodesOf(t)
         /\ \A u \in DOMAIN told : told[u].total \in Nat /\ u \in DOMAIN t.goals
<1>1. \A m \in DOMAIN landing : landing[m].cost \in Nat /\ m \in NodesOf(t)
  <2> TAKE m \in DOMAIN landing
  <2>1. /\ landing[m].edge \in EdgesOf(t) /\ By(t, p, landing[m].edge) \in Nat
        /\ t.to[landing[m].edge] = m /\ landing[m].cost = By(t, p, landing[m].edge)
    BY DEF Arrivals
  <2> QED BY <2>1, TownFacts
<1>2. \A u \in DOMAIN t.goals : \A m \in NodesOf(t) : t.dues[u][m] \in Nat
  BY DEF IsServed
<1>3. (t.near \in NodesOf(t) /\ t.offset[t.near] \in Nat) \/ t.alike = {}
  BY TownFacts DEF IsServed
<1>4. \A u \in DOMAIN told : told[u].total \in Nat /\ u \in DOMAIN t.goals
  <2> TAKE u \in DOMAIN told
  <2>1. u \in DOMAIN t.goals /\ IsAnswer(t, landing, u, told[u])
    BY DEF Answers
  <2>2. CASE /\ told[u].real = TRUE /\ told[u].node \in DOMAIN landing
             /\ told[u].total = landing[told[u].node].cost + t.dues[u][told[u].node]
    <3>1. landing[told[u].node].cost \in Nat /\ t.dues[u][told[u].node] \in Nat
      BY <1>1, <1>2, <2>1, <2>2
    <3> QED BY <2>1, <2>2, <3>1
  <2>3. CASE u \in t.alike /\ told[u].total = t.offset[t.near] + t.dues[u][t.near]
    <3>1. t.offset[t.near] \in Nat /\ t.dues[u][t.near] \in Nat
      BY <1>2, <1>3, <2>1, <2>3
    <3> QED BY <2>1, <2>3, <3>1
  <2> QED BY <2>1, <2>2, <2>3 DEF IsAnswer
<1> QED BY <1>1, <1>4

(* The targets that are served better by a node at a price.                *)
Better(t, told, n, sum) ==
  {u \in DOMAIN t.goals : /\ n \in t.goals[u]
                          /\ u \in DOMAIN told => sum + t.dues[u][n] < told[u].total}

(* A candidate is walked to, cheaper than before.                           *)
NewArrival(landing, arrival1, n, sum, i) ==
  /\ DOMAIN arrival1 = DOMAIN landing \cup {n}
  /\ arrival1[n].cost = sum /\ arrival1[n].edge = i
  /\ \A m \in DOMAIN landing : m # n => arrival1[m] = landing[m]

NewAnswers(t, told, best1, n, sum) ==
  LET served == Better(t, told, n, sum)
  IN  /\ DOMAIN best1 = DOMAIN told \cup served
      /\ \A u \in served : /\ best1[u].real = TRUE /\ best1[u].node = n
                           /\ best1[u].total = sum + t.dues[u][n]
      /\ \A u \in DOMAIN told \ served : best1[u] = told[u]

LEMMA Arrival ==
  ASSUME NEW t, IsTown(t), IsServed(t),
         NEW p, NEW sealed, NEW walked, NEW landing, NEW told, NEW answered,
         Found(t, p, sealed, walked, landing, told, answered),
         \A j \in walked : j \in EdgesOf(t) /\ By(t, p, j) \in Nat,
         \A m \in sealed : Key(t, p, m) \in Nat,
         NEW i \in EdgesOf(t), NEW n, n = t.to[i],
         NEW sum \in Nat, sum = By(t, p, i), sum <= t.cap,
         n \in DOMAIN landing => sum < landing[n].cost,
         NEW arrival1, NewArrival(landing, arrival1, n, sum, i),
         NEW best1, NewAnswers(t, told, best1, n, sum)
  PROVE  Found(t, p, sealed, walked \cup {i}, arrival1, best1, answered)
<1> DEFINE served == Better(t, told, n, sum)
<1> SUFFICES ASSUME \A u : u \in served <=>
                      /\ u \in DOMAIN t.goals /\ n \in t.goals[u]
                      /\ u \in DOMAIN told => sum + t.dues[u][n] < told[u].total,
                    DOMAIN arrival1 = DOMAIN landing \cup {n},
                    arrival1[n].cost = sum, arrival1[n].edge = i,
                    \A m \in DOMAIN landing : m # n => arrival1[m] = landing[m],
                    DOMAIN best1 = DOMAIN told \cup served,
                    \A u \in served : /\ best1[u].real = TRUE /\ best1[u].node = n
                                      /\ best1[u].total = sum + t.dues[u][n],
                    \A u \in DOMAIN told \ served : best1[u] = told[u]
             PROVE  Found(t, p, sealed, walked \cup {i}, arrival1, best1, answered)
  <2>1. \A u : u \in served <=>
          /\ u \in DOMAIN t.goals /\ n \in t.goals[u]
          /\ u \in DOMAIN told => sum + t.dues[u][n] < told[u].total
    BY DEF Better
  <2> QED BY <2>1, Zenon DEF NewArrival, NewAnswers
<1> HIDE DEF served
<1>1. /\ Arrivals(t, p, walked, landing) /\ Answers(t, landing, told)
      /\ Resolves(t, p, sealed, told, answered)
  BY DEF Found
<1>2. \A m \in DOMAIN landing : landing[m].cost \in Nat /\ m \in NodesOf(t)
  BY <1>1, AnswersType
<1>3. n \in NodesOf(t)
  BY TownFacts
<1>4. \A u \in DOMAIN t.goals : \A m \in NodesOf(t) : t.dues[u][m] \in Nat
  BY DEF IsServed
<1>5. (t.near \in NodesOf(t) /\ t.offset[t.near] \in Nat) \/ t.alike = {}
  BY TownFacts DEF IsServed
<1>6. \A u \in DOMAIN told : told[u].total \in Nat /\ u \in DOMAIN t.goals
  BY <1>1, AnswersType
<1>7. \A u \in DOMAIN told : u \in DOMAIN best1 /\ best1[u].total <= told[u].total
                             /\ best1[u].total \in Nat
  <2> TAKE u \in DOMAIN told
  <2>1. CASE u \in served
    <3>1. t.dues[u][n] \in Nat /\ told[u].total \in Nat
      BY <1>3, <1>4, <1>6
    <3> QED BY <2>1, <3>1
  <2>2. CASE u \notin served
    BY <1>6, <2>2
  <2> QED BY <2>1, <2>2
<1>8. \A m \in DOMAIN landing : arrival1[m].cost <= landing[m].cost /\ arrival1[m].cost \in Nat
  <2> TAKE m \in DOMAIN landing
  <2>1. CASE m = n
    BY <1>2, <2>1
  <2>2. CASE m # n
    BY <1>2, <2>2
  <2> QED BY <2>1, <2>2
<1>9. Arrivals(t, p, walked \cup {i}, arrival1)
  <2>1. ASSUME NEW m \in DOMAIN arrival1
        PROVE  /\ arrival1[m].edge \in walked \cup {i} /\ t.to[arrival1[m].edge] = m
               /\ arrival1[m].cost = By(t, p, arrival1[m].edge) /\ arrival1[m].cost <= t.cap
    <3>1. CASE m = n
      BY <3>1
    <3>2. CASE m # n
      <4>1. m \in DOMAIN landing /\ arrival1[m] = landing[m]
        BY <3>2
      <4> QED BY <1>1, <4>1 DEF Arrivals
    <3> QED BY <3>1, <3>2
  <2>2. ASSUME NEW j \in walked \cup {i}, NEW u \in DOMAIN t.goals,
               By(t, p, j) <= t.cap, t.to[j] \in t.goals[u]
        PROVE  t.to[j] \in DOMAIN arrival1 /\ arrival1[t.to[j]].cost <= By(t, p, j)
    <3>1. CASE j = i
      BY <3>1
    <3>2. CASE j \in walked
      <4>1. t.to[j] \in DOMAIN landing /\ landing[t.to[j]].cost <= By(t, p, j)
        BY <1>1, <2>2, <3>2 DEF Arrivals
      <4>2. arrival1[t.to[j]].cost <= landing[t.to[j]].cost /\ arrival1[t.to[j]].cost \in Nat
        BY <1>8, <4>1
      <4>3. By(t, p, j) \in Nat /\ landing[t.to[j]].cost \in Nat
        BY <1>2, <3>2, <4>1
      <4> QED BY <4>1, <4>2, <4>3
    <3> QED BY <2>2, <3>1, <3>2
  <2> QED BY <2>1, <2>2 DEF Arrivals
<1>10. ASSUME NEW u \in DOMAIN best1
       PROVE  u \in DOMAIN t.goals /\ IsAnswer(t, arrival1, u, best1[u])
  <2>1. CASE u \in served
    <3>1. /\ best1[u].real = TRUE /\ best1[u].node = n /\ n \in t.goals[u]
          /\ n \in DOMAIN arrival1 /\ best1[u].total = arrival1[n].cost + t.dues[u][n]
      BY <2>1
    <3> QED BY <2>1, <3>1 DEF IsAnswer
  <2>2. CASE u \notin served
    <3>1. /\ u \in DOMAIN told /\ best1[u] = told[u] /\ u \in DOMAIN t.goals
          /\ IsAnswer(t, landing, u, told[u])
      BY <1>1, <2>2 DEF Answers
    <3>2. CASE told[u].real = FALSE
      BY <3>1, <3>2 DEF IsAnswer
    <3>3. CASE told[u].real = TRUE
      <4> DEFINE m == told[u].node
      <4>1. /\ m \in t.goals[u] /\ m \in DOMAIN landing
            /\ told[u].total = landing[m].cost + t.dues[u][m]
        BY <3>1, <3>3 DEF IsAnswer
      <4>2. m # n
        <5> SUFFICES ASSUME m = n PROVE FALSE
          OBVIOUS
        <5>1. sum < landing[n].cost /\ landing[n].cost \in Nat /\ t.dues[u][n] \in Nat
          BY <1>2, <1>3, <1>4, <3>1, <4>1
        <5>2. sum + t.dues[u][n] < told[u].total
          BY <4>1, <5>1
        <5> QED BY <2>2, <3>1, <4>1, <5>2
      <4>3. arrival1[m] = landing[m]
        BY <4>1, <4>2
      <4> QED BY <3>1, <3>3, <4>1, <4>3 DEF IsAnswer
    <3>4. told[u].real = TRUE \/ told[u].real = FALSE
      BY <3>1 DEF IsAnswer
    <3> QED BY <3>2, <3>3, <3>4
  <2> QED BY <2>1, <2>2
<1>11. ASSUME NEW m \in DOMAIN arrival1, NEW u \in DOMAIN t.goals, m \in t.goals[u]
       PROVE  u \in DOMAIN best1 /\ best1[u].total <= arrival1[m].cost + t.dues[u][m]
  <2>1. CASE m = n
    <3>1. CASE u \in served
      <4>1. t.dues[u][n] \in Nat
        BY <1>3, <1>4
      <4> QED BY <2>1, <3>1, <4>1
    <3>2. CASE u \notin served
      <4>1. u \in DOMAIN told /\ best1[u] = told[u] /\ ~(sum + t.dues[u][n] < told[u].total)
        BY <1>11, <2>1, <3>2
      <4>2. told[u].total \in Nat /\ t.dues[u][n] \in Nat
        BY <1>3, <1>4, <1>6, <4>1
      <4> QED BY <2>1, <4>1, <4>2
    <3> QED BY <3>1, <3>2
  <2>2. CASE m # n
    <3>1. m \in DOMAIN landing /\ arrival1[m] = landing[m]
      BY <2>2
    <3>2. u \in DOMAIN told /\ told[u].total <= landing[m].cost + t.dues[u][m]
      BY <1>1, <1>11, <3>1 DEF Answers
    <3>3. /\ u \in DOMAIN best1 /\ best1[u].total <= told[u].total
          /\ best1[u].total \in Nat /\ told[u].total \in Nat
          /\ landing[m].cost \in Nat /\ t.dues[u][m] \in Nat
      BY <1>2, <1>4, <1>6, <1>7, <3>1, <3>2
    <3> QED BY <3>1, <3>2, <3>3
  <2> QED BY <2>1, <2>2
<1>12. ASSUME NEW u \in t.alike
       PROVE  u \in DOMAIN best1 /\ best1[u].total <= t.offset[t.near] + t.dues[u][t.near]
  <2>1. u \in DOMAIN told /\ told[u].total <= t.offset[t.near] + t.dues[u][t.near]
    BY <1>1 DEF Answers
  <2>2. u \in DOMAIN best1 /\ best1[u].total <= told[u].total
        /\ best1[u].total \in Nat /\ told[u].total \in Nat
    BY <1>6, <1>7, <2>1
  <2>3. t.offset[t.near] \in Nat /\ t.dues[u][t.near] \in Nat
    BY <1>4, <1>5, <1>6, <2>1
  <2> QED BY <2>1, <2>2, <2>3
<1>13. Answers(t, arrival1, best1)
  BY <1>10, <1>11, <1>12 DEF Answers
<1>14. Resolves(t, p, sealed, best1, answered)
  <2>1. ASSUME NEW u \in answered, t.goals[u] # {}
        PROVE  u \in DOMAIN best1 /\ \E m \in sealed : best1[u].total <= Key(t, p, m)
    <3>1. u \in DOMAIN told
      BY <1>1, <2>1 DEF Resolves
    <3>2. PICK m \in sealed : told[u].total <= Key(t, p, m)
      BY <1>1, <2>1 DEF Resolves
    <3>3. /\ Key(t, p, m) \in Nat /\ u \in DOMAIN best1 /\ best1[u].total <= told[u].total
          /\ best1[u].total \in Nat /\ told[u].total \in Nat
      BY <1>6, <1>7, <3>1
    <3> QED BY <3>2, <3>3
  <2> QED BY <1>1, <2>1 DEF Resolves
<1> QED BY <1>9, <1>13, <1>14 DEF Found

(* What is known of a node by the edges to it: a walk of one edge more.     *)
Onward(t, height) ==
  [n \in NodesOf(t) |->
     Min({t.cap + 1} \cup {height[t.from[j]] + t.cost[j] : j \in {k \in Roads(t) : t.to[k] = n}})]

LEMMA OnwardFacts ==
  ASSUME NEW t, IsTown(t), NEW height, IsHeight(t, height)
  PROVE  LET more == Onward(t, height)
         IN  /\ IsHeight(t, more)
             /\ \A j \in Roads(t) : more[t.to[j]] <= height[t.from[j]] + t.cost[j]
             /\ \A n \in NodesOf(t) : more[n] <= t.cap =>
                  \E j \in Roads(t) : t.to[j] = n /\ more[n] = height[t.from[j]] + t.cost[j]
<1> DEFINE more  == Onward(t, height)
           to(n) == {height[t.from[j]] + t.cost[j] : j \in {k \in Roads(t) : t.to[k] = n}}
           S(n)  == {t.cap + 1} \cup to(n)
<1>1. /\ t.cap \in Nat /\ height \in [NodesOf(t) -> 0 .. t.cap + 1]
      /\ \A i \in Roads(t) : height[t.to[i]] <= height[t.from[i]] + t.cost[i]
      /\ \A i \in Roads(t) : /\ t.from[i] \in NodesOf(t) /\ t.to[i] \in NodesOf(t)
                             /\ t.cost[i] \in Nat
  BY TownFacts DEF IsHeight
<1>2. \A n \in NodesOf(t) : height[n] \in 0 .. t.cap + 1 /\ height[n] \in Nat
  BY <1>1
<1>3. \A n \in NodesOf(t) : /\ more[n] \in S(n) /\ more[n] \in Nat /\ more[n] <= t.cap + 1
                            /\ \A y \in S(n) : more[n] <= y
  <2> TAKE n \in NodesOf(t)
  <2>1. S(n) \in SUBSET Nat /\ S(n) # {} /\ t.cap + 1 \in S(n)
    BY <1>1, <1>2
  <2>2. more[n] = Min(S(n))
    BY DEF Onward
  <2> HIDE DEF S, more
  <2>3. Min(S(n)) \in S(n) /\ \A y \in S(n) : Min(S(n)) <= y
    BY <2>1, LeastOf
  <2> QED BY <2>1, <2>2, <2>3
<1>4. DOMAIN more = NodesOf(t) /\ more = [n \in NodesOf(t) |-> more[n]]
  BY DEF Onward
<1> HIDE DEF more
<1>5. \A j \in Roads(t) : more[t.to[j]] <= height[t.from[j]] + t.cost[j]
  BY <1>1, <1>3
<1>6. \A n \in NodesOf(t) : more[n] >= height[n]
  <2> TAKE n \in NodesOf(t)
  <2>1. more[n] \in S(n)
    BY <1>3
  <2>2. \A y \in S(n) : y \in Nat /\ y >= height[n]
    BY <1>1, <1>2
  <2> QED BY <2>1, <2>2
<1>7. more \in [NodesOf(t) -> 0 .. t.cap + 1]
  <2>1. \A n \in NodesOf(t) : more[n] \in 0 .. t.cap + 1
    BY <1>1, <1>3
  <2> QED BY <1>4, <2>1
<1>8. \A i \in Roads(t) : more[t.to[i]] <= more[t.from[i]] + t.cost[i]
  <2> TAKE i \in Roads(t)
  <2>1. /\ more[t.to[i]] <= height[t.from[i]] + t.cost[i]
        /\ height[t.from[i]] <= more[t.from[i]]
    BY <1>1, <1>5, <1>6
  <2>2. /\ more[t.to[i]] \in Nat /\ more[t.from[i]] \in Nat /\ height[t.from[i]] \in Nat
        /\ t.cost[i] \in Nat
    BY <1>1, <1>2, <1>3
  <2> QED BY <2>1, <2>2
<1>9. \A n \in NodesOf(t) : more[n] <= t.cap =>
        \E j \in Roads(t) : t.to[j] = n /\ more[n] = height[t.from[j]] + t.cost[j]
  <2> TAKE n \in NodesOf(t)
  <2> HAVE more[n] <= t.cap
  <2>1. more[n] \in to(n)
    BY <1>1, <1>3
  <2> QED BY <2>1
<1> QED BY <1>5, <1>7, <1>8, <1>9 DEF more, IsHeight

(* When a search ends, no walk to a target is better than its answer.       *)
LEMMA NoneIsBetter ==
  ASSUME NEW t, IsTown(t), IsServed(t),
         NEW p, NEW link, NEW sealed, NEW heap, NEW cur, NEW at,
         NEW landing, NEW told, NEW answered,
         Explored(t, p, link, sealed, heap, cur, at), Stands(t, heap, cur, at),
         Found(t, p, sealed, Walked(t, sealed, cur, at), landing, told, answered),
         cur # 0 => DOMAIN t.goals \subseteq answered,
         NEW u \in DOMAIN t.goals, NEW n \in t.goals[u],
         NEW s \in t.sources, NEW i \in Roads(t),
         NEW sum,
         sum = t.offset[s] + t.far[s][t.from[i]] + t.cost[i] + t.far[t.to[i]][n],
         sum <= t.cap
  PROVE  u \in DOMAIN told /\ told[u].total <= sum + t.dues[u][n]
<1>1. PICK height : Bounds(t, p, sealed, cur, height)
  BY HeightExists
<1> DEFINE more == Onward(t, height)
<1>2. /\ IsHeight(t, height) /\ IsHeight(t, more)
      /\ \A j \in Roads(t) : more[t.to[j]] <= height[t.from[j]] + t.cost[j]
      /\ \A m \in NodesOf(t) : more[m] <= t.cap =>
           \E j \in Roads(t) : t.to[j] = m /\ more[m] = height[t.from[j]] + t.cost[j]
  BY <1>1, OnwardFacts DEF Bounds
<1> HIDE DEF more
<1>3. Slopes(t.size, t.far, height) /\ Slopes(t.size, t.far, more)
  BY <1>2 DEF IsTown, IsMeasured
<1>4. /\ s \in NodesOf(t) /\ t.offset[s] \in Nat /\ t.cap \in Nat
      /\ i \in EdgesOf(t) /\ t.from[i] \in NodesOf(t) /\ t.to[i] \in NodesOf(t) /\ t.cost[i] \in Nat
      /\ n \in NodesOf(t) /\ t.dues[u][n] \in Nat /\ t.rest[n] = 0
  <2>1. n \in NodesOf(t) /\ t.dues[u] \in [NodesOf(t) -> Nat] /\ t.rest[n] = 0
    BY DEF IsServed
  <2> QED BY <2>1, TownFacts
<1>5. \A x, y \in NodesOf(t) : t.far[x][y] \in Nat
  BY DEF IsTown, IsMeasured, IsSquare, NodesOf
<1>6. \A x \in NodesOf(t) : height[x] \in Nat /\ more[x] \in Nat
  BY <1>2, <1>4 DEF IsHeight
<1>7. \A x, y \in NodesOf(t) : /\ height[y] <= height[x] + t.far[x][y]
                               /\ more[y] <= more[x] + t.far[x][y]
  BY <1>3 DEF Slopes, NodesOf
<1>8. sum \in Nat /\ more[n] <= sum
  <2> DEFINE a == t.far[s][t.from[i]]
             b == t.far[t.to[i]][n]
  <2>1. a \in Nat /\ b \in Nat
    BY <1>4, <1>5
  <2>2. /\ height[t.from[i]] <= height[s] + a /\ height[s] <= t.offset[s]
        /\ more[t.to[i]] <= height[t.from[i]] + t.cost[i]
        /\ more[n] <= more[t.to[i]] + b
    BY <1>1, <1>2, <1>4, <1>7 DEF Bounds
  <2>3. sum = t.offset[s] + a + t.cost[i] + b
    OBVIOUS
  <2> HIDE DEF a, b
  <2> QED BY <1>4, <1>6, <2>1, <2>2, <2>3
<1>9. PICK j \in Roads(t) : t.to[j] = n /\ more[n] = height[t.from[j]] + t.cost[j]
  BY <1>2, <1>4, <1>6, <1>8
<1> DEFINE m == t.from[j]
<1>10. /\ m \in NodesOf(t) /\ t.cost[j] \in Nat /\ t.rest[m] \in Nat
       /\ t.rest[m] <= t.cost[j]
       /\ height[m] \in Nat /\ height[m] + t.cost[j] <= sum /\ height[m] <= t.cap
  <2>1. j \in EdgesOf(t)
    BY TownFacts
  <2>2. m \in NodesOf(t) /\ t.cost[j] \in Nat /\ t.rest[m] <= t.cost[j] + t.rest[n]
    BY <1>9, <2>1, TownFacts
  <2>3. t.rest[m] \in Nat
    BY <2>2, TownFacts
  <2> HIDE DEF m
  <2>4. height[m] \in Nat
    BY <1>6, <2>2
  <2>5. height[m] + t.cost[j] <= sum
    BY <1>8, <1>9 DEF m
  <2> QED BY <1>4, <1>8, <2>2, <2>3, <2>4, <2>5
<1>11. /\ Reached(t, p, sealed, heap) /\ InTurn(t, p, sealed, heap, cur)
       /\ \A x \in sealed : p[x] \in Nat /\ x \in NodesOf(t) /\ t.rest[x] \in Nat
                            /\ Key(t, p, x) = p[x] + t.rest[x]
  <2>1. Reached(t, p, sealed, heap) /\ InTurn(t, p, sealed, heap, cur)
    BY DEF Explored
  <2>2. \A x \in sealed : p[x] \in Nat /\ x \in NodesOf(t)
    BY <2>1 DEF Reached
  <2> QED BY <2>1, <2>2, TownFacts DEF Key
<1>12. /\ Arrivals(t, p, Walked(t, sealed, cur, at), landing) /\ Answers(t, landing, told)
       /\ Resolves(t, p, sealed, told, answered)
  BY DEF Found
<1> HIDE DEF m
<1>15. \A k \in Walked(t, sealed, cur, at) : k \in EdgesOf(t) /\ By(t, p, k) \in Nat
  BY <1>11, TownFacts DEF Walked, By
<1>13. CASE m \in sealed /\ m # cur
  <2>1. j \in Walked(t, sealed, cur, at)
    BY <1>13 DEF Walked, m
  <2>2. By(t, p, j) = height[m] + t.cost[j]
    BY <1>1, <1>13 DEF By, Bounds, m
  <2>3. By(t, p, j) <= t.cap /\ By(t, p, j) <= sum /\ By(t, p, j) \in Nat
    BY <1>4, <1>8, <1>10, <2>2
  <2>4. n \in DOMAIN landing /\ landing[n].cost <= By(t, p, j)
    BY <1>9, <1>12, <2>1, <2>3 DEF Arrivals
  <2>5. u \in DOMAIN told /\ told[u].total <= landing[n].cost + t.dues[u][n]
    BY <1>12, <2>4 DEF Answers
  <2>6. landing[n].cost \in Nat /\ told[u].total \in Nat
    BY <1>12, <1>15, <2>4, <2>5, AnswersType
  <2> QED BY <1>4, <1>8, <2>3, <2>4, <2>5, <2>6
<1>14. CASE ~(m \in sealed /\ m # cur)
  <2>1. cur # 0 /\ height[m] + t.rest[m] >= Key(t, p, cur)
    <3>1. CASE m \in sealed
      <4>1. m = cur /\ m # 0
        BY <1>10, <1>14, <3>1 DEF NodesOf
      <4>2. height[m] = p[m]
        BY <1>1, <3>1 DEF Bounds
      <4>3. Key(t, p, m) = p[m] + t.rest[m] /\ p[m] \in Nat
        BY <1>11, <3>1
      <4> QED BY <1>10, <4>1, <4>2, <4>3
    <3>2. CASE m \notin sealed
      BY <1>1, <1>10, <3>2 DEF Bounds
    <3> QED BY <3>1, <3>2
  <2>2. u \in DOMAIN told /\ \E x \in sealed : told[u].total <= Key(t, p, x)
    BY <1>12, <2>1 DEF Resolves
  <2>3. PICK x \in sealed : told[u].total <= Key(t, p, x)
    BY <2>2
  <2>4. cur \in sealed /\ Key(t, p, x) <= Key(t, p, cur)
    BY <1>11, <2>1 DEF InTurn
  <2>5. Key(t, p, x) \in Nat /\ Key(t, p, cur) \in Nat
    BY <1>11, <2>4
  <2>6. Key(t, p, cur) <= sum
    BY <1>8, <1>10, <2>1, <2>5
  <2>7. told[u].total \in Nat
    BY <1>12, <1>15, <2>2, AnswersType
  <2> QED BY <1>4, <1>8, <2>2, <2>3, <2>4, <2>5, <2>6, <2>7
<1> QED BY <1>13, <1>14

-----------------------------------------------------------------------------
(* What is defined of a node by that of the one before it, where each comes after
   the one before it.                                                      *)
Levels(S, P, pred, n, level) ==
  /\ P \subseteq S /\ pred \in [P -> S] /\ level \in [S -> 0 .. n]
  /\ \A x \in P : level[pred[x]] < level[x]

LEMMA Descent ==
  ASSUME NEW S, NEW P, NEW pred, NEW n \in Nat, NEW level, Levels(S, P, pred, n, level),
         NEW G, \A x \in S : x \in G \/ (x \in P /\ pred[x] \notin G)
  PROVE  S \subseteq G
<1> DEFINE K == {k \in 0 .. n : \A x \in S : level[x] <= k => x \in G}
<1>1. /\ P \subseteq S /\ pred \in [P -> S] /\ level \in [S -> 0 .. n]
      /\ \A x \in P : level[pred[x]] < level[x]
  BY DEF Levels
<1>2. \A x \in S : level[x] \in Nat /\ level[x] <= n
  BY <1>1
<1>3. \A x \in P : pred[x] \in S /\ level[pred[x]] \in Nat
  BY <1>1, <1>2
<1>4. 0 \in K
  <2>1. \A x \in S : level[x] <= 0 => x \notin P
    BY <1>1, <1>2, <1>3
  <2> QED BY <2>1
<1>5. \A k \in 1 .. n : k - 1 \in K => k \in K
  <2> TAKE k \in 1 .. n
  <2> HAVE k - 1 \in K
  <2>1. \A x \in S : level[x] <= k => x \in G
    <3> SUFFICES ASSUME NEW x \in S, level[x] <= k, x \notin G PROVE FALSE
      OBVIOUS
    <3>1. x \in P /\ pred[x] \notin G /\ pred[x] \in S
      BY <1>3
    <3>2. level[pred[x]] <= k - 1
      BY <1>1, <1>2, <1>3, <3>1
    <3> QED BY <3>1, <3>2
  <2> QED BY <2>1
<1>6. \A k \in 0 .. n : k \in K
  <2> HIDE DEF K
  <2> QED BY <1>4, <1>5, Upwards
<1>7. n \in K
  BY <1>6
<1> QED BY <1>2, <1>7

Follows(S, P, pred, step, base, c) ==
  \A x \in S : c[x] = IF x \in P THEN step[<<x, c[pred[x]]>>] ELSE base

LEMMA Recursion ==
  ASSUME NEW S, NEW P, NEW pred, NEW n \in Nat, NEW level, Levels(S, P, pred, n, level),
         NEW V, NEW base \in V, NEW step \in [P \X V -> V]
  PROVE  \E c \in [S -> V] : Follows(S, P, pred, step, base, c)
<1> DEFINE more(c) == [x \in S |-> IF x \in P THEN step[<<x, c[pred[x]]>>] ELSE base]
           Upto(k, c) == \A x \in S : level[x] <= k =>
                           c[x] = IF x \in P THEN step[<<x, c[pred[x]]>>] ELSE base
           K == {k \in 0 .. n : \E c \in [S -> V] : Upto(k, c)}
<1>1. /\ P \subseteq S /\ pred \in [P -> S] /\ level \in [S -> 0 .. n]
      /\ \A x \in P : level[pred[x]] < level[x]
  BY DEF Levels
<1>2. \A x \in S : level[x] \in Nat /\ level[x] <= n
  BY <1>1
<1>3. \A x \in P : pred[x] \in S /\ level[pred[x]] \in Nat
  BY <1>1, <1>2
<1>4. 0 \in K
  <2> DEFINE c == [x \in S |-> base]
  <2>1. \A x \in S : level[x] <= 0 => x \notin P
    BY <1>1, <1>2, <1>3
  <2>2. c \in [S -> V] /\ Upto(0, c)
    BY <2>1
  <2> HIDE DEF c, Upto
  <2> QED BY <2>2
<1>5. \A k \in 1 .. n : k - 1 \in K => k \in K
  <2> TAKE k \in 1 .. n
  <2> HAVE k - 1 \in K
  <2>1. PICK c \in [S -> V] : Upto(k - 1, c)
    OBVIOUS
  <2> DEFINE d == more(c)
  <2>2. \A x \in P : <<x, c[pred[x]]>> \in P \X V
    BY <1>3
  <2>3. \A x \in P : step[<<x, c[pred[x]]>>] \in V
    BY <2>2
  <2>4. d \in [S -> V]
    BY <2>3
  <2>5. \A x \in S : level[x] <= k - 1 => d[x] = c[x]
    BY <2>1
  <2>6. \A x \in S : d[x] = IF x \in P THEN step[<<x, c[pred[x]]>>] ELSE base
    OBVIOUS
  <2> HIDE DEF d
  <2>7. \A x \in S : level[x] <= k /\ x \in P => d[pred[x]] = c[pred[x]]
    <3> SUFFICES ASSUME NEW x \in P, level[x] <= k PROVE d[pred[x]] = c[pred[x]]
      OBVIOUS
    <3>1. level[pred[x]] <= k - 1 /\ pred[x] \in S
      BY <1>1, <1>2, <1>3
    <3> QED BY <2>5, <3>1
  <2>8. Upto(k, d)
    BY <2>6, <2>7
  <2> HIDE DEF Upto
  <2> QED BY <2>4, <2>8
<1>6. \A k \in 0 .. n : k \in K
  <2> HIDE DEF K
  <2> QED BY <1>4, <1>5, Upwards
<1>7. n \in K
  BY <1>6
<1>8. PICK c \in [S -> V] : Upto(n, c)
  BY <1>7
<1>9. \A x \in S : c[x] = IF x \in P THEN step[<<x, c[pred[x]]>>] ELSE base
  BY <1>2, <1>8
<1> QED BY <1>9 DEF Follows

-----------------------------------------------------------------------------
(* What a sequence of numbers adds up to.                                   *)
Total(f) == FoldFunction(+, 0, f)

LEMMA TotalIsSum ==
  ASSUME NEW f
  PROVE  Total(f) = Facts!SumOf(f)
BY SMT DEF Total, FoldFunction, FoldFunctionOnSet, MapThenFoldSet, Facts!SumOf,
       Facts!FoldFunction, Facts!FoldFunctionOnSet, Facts!MapThenFoldSet

LEMMA TotalAddsUp ==
  ASSUME NEW n \in Nat, NEW f \in [1 .. n -> Int]
  PROVE  \E sum : Facts!AddsUp(f, n, sum) /\ Total(f) = sum[1 .. n]
<1>1. PICK sum : Facts!AddsUp(f, n, sum)
  BY Facts!SumExists
<1>2. Facts!SumOf(f) = sum[1 .. n]
  BY <1>1, Facts!SumIsFold
<1> QED BY <1>1, <1>2, TotalIsSum

LEMMA TotalOfNone ==
  ASSUME NEW f \in [1 .. 0 -> Int]
  PROVE  Total(f) = 0
<1>1. PICK sum : Facts!AddsUp(f, 0, sum) /\ Total(f) = sum[1 .. 0]
  BY TotalAddsUp
<1>2. 1 .. 0 = {} /\ sum[{}] = 0
  BY <1>1 DEF Facts!AddsUp
<1> QED BY <1>1, <1>2

LEMMA TotalOfOneMore ==
  ASSUME NEW n \in Nat, NEW f \in [1 .. n -> Int], NEW more \in [1 .. n + 1 -> Int],
         \A k \in 1 .. n : more[k] = f[k]
  PROVE  Total(f) \in Int /\ Total(more) = Total(f) + more[n + 1]
BY TotalIsSum, Facts!SumOfOneMore

(* It is the same from the end.                                             *)
LEMMA TotalBackwards ==
  ASSUME NEW n \in Nat, NEW f \in [1 .. n -> Int], NEW back \in [1 .. n -> Int],
         \A k \in 1 .. n : back[k] = f[n + 1 - k]
  PROVE  Total(back) = Total(f)
<1> DEFINE D == 1 .. n
           Turn(s) == {n + 1 - k : k \in s}
<1>1. PICK sum : Facts!AddsUp(f, n, sum)
  BY Facts!SumExists
<1> DEFINE turned == [s \in SUBSET D |-> sum[Turn(s)]]
<1>2. /\ sum \in [SUBSET D -> Int] /\ sum[{}] = 0
      /\ \A s \in SUBSET D : \A x \in s : sum[s] = f[x] + sum[s \ {x}]
  BY <1>1, Zenon DEF Facts!AddsUp
<1>3. \A s \in SUBSET D : Turn(s) \in SUBSET D
  BY SMT
<1>4. Turn({}) = {} /\ Turn(D) = D
  <2>1. \A k \in D : n + 1 - k \in D /\ k = n + 1 - (n + 1 - k)
    OBVIOUS
  <2> QED BY <2>1
<1>5. ASSUME NEW s \in SUBSET D, NEW x \in s
      PROVE  /\ n + 1 - x \in Turn(s) /\ Turn(s \ {x}) = Turn(s) \ {n + 1 - x}
             /\ f[n + 1 - x] = back[x]
  <2>1. \A k \in s : k \in D /\ (n + 1 - k = n + 1 - x <=> k = x)
    OBVIOUS
  <2>2. Turn(s \ {x}) = Turn(s) \ {n + 1 - x}
    BY <2>1
  <2> QED BY <2>1, <2>2
<1>6. turned \in [SUBSET D -> Int]
  <2>1. \A s \in SUBSET D : sum[Turn(s)] \in Int
    <3> HIDE DEF Turn
    <3> QED BY <1>2, <1>3
  <2> HIDE DEF Turn
  <2> QED BY <2>1
<1>7. \A s \in SUBSET D : turned[s] = sum[Turn(s)]
  OBVIOUS
<1> HIDE DEF turned
<1>8. ASSUME NEW s \in SUBSET D, NEW x \in s
      PROVE  turned[s] = back[x] + turned[s \ {x}]
  <2>1. s \ {x} \in SUBSET D /\ Turn(s) \in SUBSET D /\ n + 1 - x \in Turn(s)
    BY <1>3, <1>5
  <2>2. sum[Turn(s)] = f[n + 1 - x] + sum[Turn(s) \ {n + 1 - x}]
    BY <1>2, <2>1
  <2>3. f[n + 1 - x] = back[x] /\ Turn(s \ {x}) = Turn(s) \ {n + 1 - x}
    BY <1>5
  <2> HIDE DEF Turn
  <2> QED BY <1>7, <2>1, <2>2, <2>3
<1>9. turned[{}] = 0 /\ turned[D] = sum[D]
  <2> HIDE DEF Turn
  <2> QED BY <1>2, <1>4, <1>7
<1>10. Facts!AddsUp(back, n, turned)
  <2> HIDE DEF Turn
  <2> QED BY <1>6, <1>8, <1>9 DEF Facts!AddsUp
<1>11. Facts!SumOf(back) = turned[1 .. n] /\ Facts!SumOf(f) = sum[1 .. n]
  BY <1>1, <1>10, Facts!SumIsFold
<1> QED BY <1>9, <1>11, TotalIsSum

(* A trail to a node: edges of a kind one after the other from a source on, and
   what it costs with the way to the source.                               *)
Begins(t, es, n) == IF es = <<>> THEN n ELSE t.from[es[1]]

CostsOf(t, es) == [k \in 1 .. Len(es) |-> t.cost[es[k]]]

IsTrail(t, kind, es, n, cost) ==
  /\ es \in Seq(kind)
  /\ \A k \in 1 .. Len(es) - 1 : t.to[es[k]] = t.from[es[k + 1]]
  /\ es # <<>> => t.to[es[Len(es)]] = n
  /\ Begins(t, es, n) \in t.sources
  /\ cost = t.offset[Begins(t, es, n)] + Total(CostsOf(t, es))

LEMMA NoEdge ==
  ASSUME NEW t, IsTown(t), NEW kind, NEW s \in t.sources
  PROVE  IsTrail(t, kind, <<>>, s, t.offset[s])
<1> DEFINE f == CostsOf(t, <<>>)
<1>1. f \in [1 .. 0 -> Int]
  BY DEF CostsOf
<1>2. Total(f) = 0
  <2> HIDE DEF f
  <2> QED BY <1>1, TotalOfNone
<1>3. t.offset[s] \in Nat
  BY TownFacts
<1>4. Begins(t, <<>>, s) = s
  BY DEF Begins
<1>5. <<>> \in Seq(kind) /\ \A k \in 1 .. Len(<<>>) - 1 : FALSE
  OBVIOUS
<1> QED BY <1>2, <1>3, <1>4, <1>5 DEF IsTrail

LEMMA OneMoreEdge ==
  ASSUME NEW t, IsTown(t), NEW kind \in SUBSET EdgesOf(t), NEW i \in kind,
         NEW es, NEW m, m = t.from[i], NEW cost, IsTrail(t, kind, es, m, cost)
  PROVE  IsTrail(t, kind, Append(es, i), t.to[i], cost + t.cost[i])
<1> DEFINE n    == Len(es)
           more == Append(es, i)
           f    == CostsOf(t, es)
           h    == CostsOf(t, more)
<1>1. /\ es \in Seq(kind) /\ \A k \in 1 .. n - 1 : t.to[es[k]] = t.from[es[k + 1]]
      /\ es # <<>> => t.to[es[n]] = m
      /\ Begins(t, es, m) \in t.sources
      /\ cost = t.offset[Begins(t, es, m)] + Total(f)
  BY DEF IsTrail
<1>2. /\ n \in Nat /\ more \in Seq(kind) /\ Len(more) = n + 1 /\ more[n + 1] = i /\ more # <<>>
      /\ \A k \in 1 .. n : more[k] = es[k] /\ es[k] \in kind
      /\ (es = <<>> <=> n = 0)
  <2>1. n \in Nat /\ more \in Seq(kind) /\ Len(more) = n + 1 /\ more[n + 1] = i
    BY <1>1
  <2>2. \A k \in 1 .. n : more[k] = es[k] /\ es[k] \in kind
    BY <1>1
  <2>3. es = <<>> <=> n = 0
    BY <1>1
  <2>4. more # <<>>
    <3> SUFFICES ASSUME more = <<>> PROVE FALSE
      OBVIOUS
    <3>1. Len(more) = 0
      OBVIOUS
    <3> HIDE DEF more, n
    <3> QED BY <2>1, <3>1
  <2> QED BY <2>1, <2>2, <2>3, <2>4
<1> HIDE DEF n, more
<1>3. \A k \in 1 .. n + 1 - 1 : t.to[more[k]] = t.from[more[k + 1]]
  <2> TAKE k \in 1 .. n + 1 - 1
  <2>1. CASE k = n
    <3>1. t.to[es[n]] = m /\ more[k] = es[n] /\ more[k + 1] = i
      BY <1>1, <1>2, <2>1
    <3> QED BY <3>1
  <2>2. CASE k # n
    <3>1. k \in 1 .. n - 1 /\ k \in 1 .. n /\ k + 1 \in 1 .. n
      BY <1>2, <2>2
    <3> QED BY <1>1, <1>2, <3>1
  <2> QED BY <2>1, <2>2
<1>4. Begins(t, more, t.to[i]) = Begins(t, es, m)
  <2>1. CASE n = 0
    <3>1. es = <<>> /\ more[1] = i
      BY <1>2, <2>1
    <3> QED BY <1>2, <3>1 DEF Begins
  <2>2. CASE n # 0
    <3>1. es # <<>> /\ more[1] = es[1]
      BY <1>2, <2>2
    <3> QED BY <1>2, <3>1 DEF Begins
  <2> QED BY <2>1, <2>2
<1>5. \A k \in kind : t.cost[k] \in Nat
  BY TownFacts
<1>6. f \in [1 .. n -> Int] /\ h \in [1 .. n + 1 -> Int] /\ \A k \in 1 .. n : h[k] = f[k]
  <2>1. \A k \in 1 .. n : t.cost[es[k]] \in Int /\ t.cost[more[k]] = t.cost[es[k]]
    BY <1>2, <1>5
  <2>2. \A k \in 1 .. n + 1 : t.cost[more[k]] \in Int
    <3> TAKE k \in 1 .. n + 1
    <3>1. k \in 1 .. n \/ k = n + 1
      BY <1>2
    <3> QED BY <1>2, <1>5, <2>1, <3>1
  <2>3. f = [k \in 1 .. n |-> t.cost[es[k]]] /\ h = [k \in 1 .. n + 1 |-> t.cost[more[k]]]
    BY <1>2, Zenon DEF CostsOf, n
  <2> HIDE DEF f, h
  <2> QED BY <1>2, <2>1, <2>2, <2>3
<1>7. h[n + 1] = t.cost[i]
  BY <1>2 DEF CostsOf
<1> HIDE DEF f, h
<1>8. Total(f) \in Int /\ Total(h) = Total(f) + h[n + 1]
  BY <1>2, <1>6, TotalOfOneMore
<1>9. t.offset[Begins(t, es, m)] \in Nat /\ t.cost[i] \in Nat
  BY <1>1, <1>5, TownFacts
<1>10. cost + t.cost[i] = t.offset[Begins(t, more, t.to[i])] + Total(h)
  BY <1>1, <1>4, <1>7, <1>8, <1>9
<1> QED BY <1>1, <1>2, <1>3, <1>4, <1>10 DEF IsTrail, h, more

(* Going back by the edges that nodes were reached by, one comes to closed nodes
   that were reached ever earlier.                                         *)
Back(t, link) == [n \in DOMAIN link |-> t.from[link[n]]]

LEMMA GoesBack ==
  ASSUME NEW t, IsTown(t), NEW p, NEW link, NEW sealed, NEW heap, NEW cur, NEW at,
         Explored(t, p, link, sealed, heap, cur, at)
  PROVE  \E top \in Nat : \E level : Levels(NodesOf(t), DOMAIN link, Back(t, link), top, level)
<1> DEFINE pred == Back(t, link)
<1>1. PICK top \in Nat : \E rank : Ranks(t, link, sealed, top, rank)
  BY DEF Explored, Aged
<1>2. PICK rank : Ranks(t, link, sealed, top, rank)
  BY <1>1
<1>3. /\ rank \in [sealed -> 0 .. top]
      /\ \A n \in sealed \cap DOMAIN link :
           t.from[link[n]] \in sealed /\ rank[t.from[link[n]]] < rank[n]
  BY <1>2 DEF Ranks
<1>4. /\ sealed \subseteq DOMAIN p /\ DOMAIN p \subseteq NodesOf(t) /\ DOMAIN link \subseteq DOMAIN p
      /\ \A n \in DOMAIN link : link[n] \in Walked(t, sealed, cur, at)
  BY DEF Explored, Reached, Led
<1>5. \A n \in DOMAIN link : pred[n] = t.from[link[n]] /\ pred[n] \in sealed
  BY <1>4 DEF Walked, Back
<1> DEFINE level == [n \in NodesOf(t) |-> IF n \in sealed THEN rank[n] ELSE top + 1]
<1>6. /\ \A n \in sealed : level[n] = rank[n] /\ level[n] \in 0 .. top
      /\ \A n \in NodesOf(t) \ sealed : level[n] = top + 1
      /\ \A n \in NodesOf(t) : level[n] \in 0 .. top + 1
      /\ level \in [NodesOf(t) -> 0 .. top + 1]
  <2>1. \A n \in sealed : n \in NodesOf(t) /\ rank[n] \in 0 .. top
    BY <1>3, <1>4
  <2>2. \A n \in NodesOf(t) : (IF n \in sealed THEN rank[n] ELSE top + 1) \in 0 .. top + 1
    BY <2>1
  <2> QED BY <2>1, <2>2
<1> HIDE DEF level
<1>7. \A n \in DOMAIN link : level[pred[n]] < level[n]
  <2> TAKE n \in DOMAIN link
  <2>1. CASE n \in sealed
    BY <1>3, <1>5, <1>6, <2>1
  <2>2. CASE n \notin sealed
    <3>1. level[n] = top + 1 /\ level[pred[n]] \in 0 .. top
      BY <1>4, <1>5, <1>6, <2>2
    <3> QED BY <3>1
  <2> QED BY <2>1, <2>2
<1>8. pred \in [DOMAIN link -> NodesOf(t)]
  <2>1. \A n \in DOMAIN link : t.from[link[n]] \in NodesOf(t)
    BY <1>4, <1>5
  <2> QED BY <2>1 DEF Back
<1> HIDE DEF pred
<1>9. Levels(NodesOf(t), DOMAIN link, pred, top + 1, level)
  BY <1>4, <1>6, <1>7, <1>8 DEF Levels
<1>10. top + 1 \in Nat
  OBVIOUS
<1> QED BY <1>9, <1>10 DEF pred

(* The edges on the way back, in walking order.                             *)
Links(t, link, c) ==
  [n \in NodesOf(t) |->
     IF n \in DOMAIN link THEN Append(c[t.from[link[n]]], link[n]) ELSE <<>>]

LEMMA LinksExist ==
  ASSUME NEW t, IsTown(t), NEW p, NEW link, NEW sealed, NEW heap, NEW cur, NEW at,
         Explored(t, p, link, sealed, heap, cur, at)
  PROVE  \E c : c = Links(t, link, c)
<1> DEFINE S    == NodesOf(t)
           P    == DOMAIN link
           pred == Back(t, link)
           V    == Seq(EdgesOf(t))
           none == <<>>
           step == [xc \in P \X V |-> Append(xc[2], link[xc[1]])]
<1>1. PICK top \in Nat : \E level : Levels(S, P, pred, top, level)
  BY GoesBack
<1>2. PICK level : Levels(S, P, pred, top, level)
  BY <1>1
<1>3. P \subseteq S /\ pred \in [P -> S]
  BY <1>2 DEF Levels
<1>4. \A n \in P : link[n] \in EdgesOf(t)
  BY TownFacts DEF Explored, Led, Walked
<1>5. step \in [P \X V -> V] /\ none \in V
  BY <1>4
<1>6. \A x \in P : \A c \in V : step[<<x, c>>] = Append(c, link[x])
  OBVIOUS
<1>7. \A x \in P : pred[x] = t.from[link[x]]
  BY DEF Back
<1> HIDE DEF S, P, pred, V, step, none
<1>8. PICK c \in [S -> V] : Follows(S, P, pred, step, none, c)
  BY <1>2, <1>5, Recursion
<1>9. \A x \in S : c[x] = IF x \in P THEN Append(c[t.from[link[x]]], link[x]) ELSE none
  <2> TAKE x \in S
  <2>1. CASE x \in P
    <3>1. c[pred[x]] \in V
      BY <1>3, <2>1
    <3> QED BY <1>6, <1>7, <1>8, <2>1, <3>1 DEF Follows
  <2>2. CASE x \notin P
    BY <1>8, <2>2 DEF Follows
  <2> QED BY <2>1, <2>2
<1>10. c = [x \in S |-> IF x \in P THEN Append(c[t.from[link[x]]], link[x]) ELSE none]
  <2>1. c = [x \in S |-> c[x]]
    BY <1>8
  <2> QED BY <1>9, <2>1
<1> QED BY <1>10, Zenon DEF Links, S, P, none

LEMMA LinksAreTrails ==
  ASSUME NEW t, IsTown(t), NEW p, NEW link, NEW sealed, NEW heap, NEW cur, NEW at,
         Explored(t, p, link, sealed, heap, cur, at),
         NEW c, c = Links(t, link, c),
         NEW kind \in SUBSET EdgesOf(t), \A n \in DOMAIN link : link[n] \in kind
  PROVE  \A n \in DOMAIN p : IsTrail(t, kind, c[n], n, p[n])
<1> DEFINE S    == NodesOf(t)
           P    == DOMAIN link
           pred == Back(t, link)
           G    == {x \in S : x \in DOMAIN p => IsTrail(t, kind, c[x], x, p[x])}
<1>1. PICK top \in Nat : \E level : Levels(S, P, pred, top, level)
  BY GoesBack
<1>2. PICK level : Levels(S, P, pred, top, level)
  BY <1>1
<1>3. P \subseteq S /\ pred \in [P -> S]
  BY <1>2 DEF Levels
<1>4. \A x \in S : c[x] = IF x \in P THEN Append(c[t.from[link[x]]], link[x]) ELSE <<>>
  <2>1. c = [x \in S |-> IF x \in P THEN Append(c[t.from[link[x]]], link[x]) ELSE <<>>]
    BY Zenon DEF Links
  <2> QED BY <2>1
<1>5. /\ DOMAIN p \subseteq S /\ sealed \subseteq DOMAIN p
      /\ \A n \in P : /\ t.from[link[n]] \in sealed /\ t.to[link[n]] = n /\ link[n] \in kind
                      /\ p[n] = p[t.from[link[n]]] + t.cost[link[n]]
      /\ \A n \in DOMAIN p \ P : n \in t.sources /\ p[n] = t.offset[n]
  BY DEF Explored, Led, Walked, Reached
<1>6. \A x \in P : pred[x] = t.from[link[x]]
  BY DEF Back
<1>7. \A x \in S : x \in G \/ (x \in P /\ pred[x] \notin G)
  <2> SUFFICES ASSUME NEW x \in S, x \in DOMAIN p, x \in P => pred[x] \in G
               PROVE  IsTrail(t, kind, c[x], x, p[x])
    OBVIOUS
  <2>1. CASE x \notin P
    <3>1. c[x] = <<>> /\ x \in t.sources /\ p[x] = t.offset[x]
      BY <1>4, <1>5, <2>1
    <3> QED BY <3>1, NoEdge
  <2>2. CASE x \in P
    <3> DEFINE m == t.from[link[x]]
               i == link[x]
    <3>1. m \in DOMAIN p /\ pred[x] = m
      BY <1>5, <1>6, <2>2
    <3>2. IsTrail(t, kind, c[m], m, p[m])
      BY <2>2, <3>1
    <3>3. i \in kind /\ t.to[i] = x /\ p[x] = p[m] + t.cost[i] /\ c[x] = Append(c[m], i)
      BY <1>4, <1>5, <2>2
    <3>4. m = t.from[i]
      OBVIOUS
    <3> HIDE DEF m, i
    <3>5. IsTrail(t, kind, Append(c[m], i), t.to[i], p[m] + t.cost[i])
      BY <3>2, <3>3, <3>4, OneMoreEdge
    <3> QED BY <3>3, <3>5
  <2> QED BY <2>1, <2>2
<1>8. S \subseteq G
  <2> HIDE DEF S, P, pred, G
  <2> QED BY <1>2, <1>7, Descent
<1> QED BY <1>5, <1>8

(* The roads that no other between the same nodes is cheaper than.           *)
Lowest(t) ==
  {i \in Roads(t) : \A j \in Roads(t) :
     t.from[j] = t.from[i] /\ t.to[j] = t.to[i] => t.cost[i] <= t.cost[j]}

LEMMA WalkedTogether ==
  ASSUME NEW t, IsTown(t), NEW p, NEW sealed, NEW heap, NEW cur, NEW at,
         Reached(t, p, sealed, heap), Stands(t, heap, cur, at),
         NEW i \in Walked(t, sealed, cur, at),
         NEW j \in Roads(t), t.from[j] = t.from[i]
  PROVE  j \in Walked(t, sealed, cur, at)
<1>1. i \in Roads(t) /\ t.from[i] \in sealed /\ (t.from[i] = cur => i < at)
  BY DEF Walked
<1>2. t.from[i] # cur
  <2> SUFFICES ASSUME t.from[i] = cur PROVE FALSE
    OBVIOUS
  <2>1. i \in EdgesOf(t) /\ cur \in NodesOf(t)
    BY <1>1, TownFacts
  <2>2. cur # 0
    BY <2>1, TownFacts DEF NodesOf
  <2>3. at = t.first[cur] /\ i < at
    BY <1>1, <2>2 DEF Stands
  <2>4. t.first[cur] <= i
    BY <2>1 DEF IsTown, IsPacked
  <2>5. t.first[cur] \in Nat /\ i \in Nat
    BY <2>1, TownFacts DEF EdgesOf
  <2> QED BY <2>3, <2>4, <2>5
<1> QED BY <1>1, <1>2 DEF Walked

LEMMA LedByLowest ==
  ASSUME NEW t, IsTown(t), NEW p, NEW link, NEW sealed, NEW heap, NEW cur, NEW at,
         Explored(t, p, link, sealed, heap, cur, at), Stands(t, heap, cur, at)
  PROVE  \A n \in DOMAIN link : link[n] \in Lowest(t)
<1> SUFFICES ASSUME NEW n \in DOMAIN link PROVE link[n] \in Lowest(t)
  OBVIOUS
<1> DEFINE i == link[n]
           m == t.from[i]
<1>1. /\ Reached(t, p, sealed, heap) /\ Spread(t, p, Walked(t, sealed, cur, at))
      /\ Led(t, p, link, Walked(t, sealed, cur, at))
  BY DEF Explored
<1>2. /\ i \in Walked(t, sealed, cur, at) /\ t.to[i] = n /\ p[n] = p[m] + t.cost[i]
      /\ n \in DOMAIN p
  BY <1>1 DEF Led
<1>3. i \in Roads(t) /\ m \in sealed
  BY <1>2 DEF Walked
<1>4. /\ p[m] \in Nat /\ p[n] \in Nat /\ p[n] <= t.cap /\ t.cap \in Nat
      /\ \A j \in Roads(t) : t.cost[j] \in Nat
  BY <1>1, <1>2, <1>3, TownFacts DEF Reached
<1>5. ASSUME NEW j \in Roads(t), t.from[j] = m, t.to[j] = n
      PROVE  t.cost[i] <= t.cost[j]
  <2>1. j \in Walked(t, sealed, cur, at)
    BY <1>1, <1>2, <1>5, WalkedTogether
  <2>2. p[n] <= p[m] + t.cost[j] \/ p[m] + t.cost[j] > t.cap
    BY <1>1, <1>5, <2>1 DEF Spread
  <2>3. t.cost[j] \in Nat /\ t.cost[i] \in Nat
    BY <1>3, <1>4
  <2> HIDE DEF i, m
  <2> QED BY <1>2, <1>4, <2>2, <2>3
<1> QED BY <1>2, <1>3, <1>5 DEF Lowest

LEMMA ArrivedByLowest ==
  ASSUME NEW t, IsTown(t), NEW p, NEW sealed, NEW heap, NEW cur, NEW at, NEW landing,
         Reached(t, p, sealed, heap), Stands(t, heap, cur, at),
         Arrivals(t, p, Walked(t, sealed, cur, at), landing),
         NEW u \in DOMAIN t.goals, NEW n \in DOMAIN landing, n \in t.goals[u]
  PROVE  landing[n].edge \in Lowest(t)
<1> DEFINE i == landing[n].edge
           m == t.from[i]
<1>1. /\ i \in Walked(t, sealed, cur, at) /\ t.to[i] = n
      /\ landing[n].cost = p[m] + t.cost[i] /\ landing[n].cost <= t.cap
  BY DEF Arrivals, By
<1>2. i \in Roads(t) /\ m \in sealed
  BY <1>1 DEF Walked
<1>3. /\ p[m] \in Nat /\ t.cap \in Nat
      /\ \A j \in Roads(t) : t.cost[j] \in Nat
  BY <1>1, <1>2, TownFacts DEF Reached
<1>4. ASSUME NEW j \in Roads(t), t.from[j] = m, t.to[j] = n
      PROVE  t.cost[i] <= t.cost[j]
  <2>1. j \in Walked(t, sealed, cur, at)
    BY <1>1, <1>4, WalkedTogether
  <2>2. By(t, p, j) = p[m] + t.cost[j]
    BY <1>4 DEF By
  <2>3. By(t, p, j) <= t.cap => landing[n].cost <= By(t, p, j)
    BY <1>4, <2>1 DEF Arrivals
  <2>4. t.cost[j] \in Nat /\ t.cost[i] \in Nat
    BY <1>2, <1>3
  <2> HIDE DEF i, m
  <2> QED BY <1>1, <1>3, <2>2, <2>3, <2>4
<1> QED BY <1>1, <1>2, <1>4 DEF Lowest

(* When a search ends, the answer of a target that is walked to is a trail to one
   of its nodes along such roads.                                           *)
Trodden(t, p, sealed, landing, told, c, u, n, i) ==
  /\ n \in t.goals[u] /\ n \in DOMAIN landing /\ u \in DOMAIN t.goals
  /\ i \in Lowest(t) /\ t.to[i] = n /\ t.from[i] \in sealed
  /\ told[u].total = landing[n].cost + t.dues[u][n]
  /\ landing[n].cost = p[t.from[i]] + t.cost[i] /\ landing[n].cost <= t.cap
  /\ IsTrail(t, Lowest(t), Append(c[t.from[i]], i), n, landing[n].cost)

LEMMA AnswerIsTrail ==
  ASSUME NEW t, IsTown(t), IsServed(t),
         NEW p, NEW link, NEW sealed, NEW heap, NEW cur, NEW at,
         NEW landing, NEW told, NEW answered,
         Explored(t, p, link, sealed, heap, cur, at), Stands(t, heap, cur, at),
         Found(t, p, sealed, Walked(t, sealed, cur, at), landing, told, answered),
         NEW c, c = Links(t, link, c),
         NEW u \in DOMAIN told, told[u].real = TRUE,
         NEW n, n = told[u].node, NEW i, i = landing[n].edge
  PROVE  Trodden(t, p, sealed, landing, told, c, u, n, i)
<1>1. /\ Arrivals(t, p, Walked(t, sealed, cur, at), landing) /\ Answers(t, landing, told)
      /\ Reached(t, p, sealed, heap)
  BY DEF Found, Explored
<1>2. /\ u \in DOMAIN t.goals /\ n \in t.goals[u] /\ n \in DOMAIN landing
      /\ told[u].total = landing[n].cost + t.dues[u][n]
  BY <1>1 DEF Answers, IsAnswer
<1>3. /\ i \in Walked(t, sealed, cur, at) /\ t.to[i] = n
      /\ landing[n].cost = p[t.from[i]] + t.cost[i] /\ landing[n].cost <= t.cap
  BY <1>1, <1>2 DEF Arrivals, By
<1>4. i \in Lowest(t)
  BY <1>1, <1>2, ArrivedByLowest
<1>5. Lowest(t) \in SUBSET EdgesOf(t)
  BY DEF Lowest, Roads
<1>6. t.from[i] \in sealed /\ t.from[i] \in DOMAIN p
  BY <1>1, <1>3 DEF Walked, Reached
<1>7. \A m \in DOMAIN link : link[m] \in Lowest(t)
  BY LedByLowest
<1>8. IsTrail(t, Lowest(t), c[t.from[i]], t.from[i], p[t.from[i]])
  BY <1>5, <1>6, <1>7, LinksAreTrails
<1>9. IsTrail(t, Lowest(t), Append(c[t.from[i]], i), t.to[i], p[t.from[i]] + t.cost[i])
  BY <1>4, <1>5, <1>8, OneMoreEdge
<1> QED BY <1>2, <1>3, <1>4, <1>6, <1>9 DEF Trodden

(* A walk from a source along an edge to a node, at its cheapest.            *)
Along(t, s, i, n) == t.offset[s] + t.far[s][t.from[i]] + t.cost[i] + t.far[t.to[i]][n]

LEMMA AsCheap ==
  ASSUME NEW o \in Nat, NEW a \in Nat, NEW k \in Nat, NEW gm \in Nat, NEW due \in Nat,
         NEW cap \in Nat, NEW z, z = 0, NEW cost, cost = gm + k, cost <= cap, o + a <= gm,
         NEW sum, sum = o + a + k + z, NEW total, total = cost + due
  PROVE  /\ sum \in Nat /\ sum <= cap
         /\ total <= sum + due => total = sum + due
OBVIOUS

IsPriceOf(t, u, i, n, p) ==
  \E s \in t.sources : Along(t, s, i, n) <= t.cap /\ p = Along(t, s, i, n) + t.dues[u][n]

LEMMA AnswerHasPrice ==
  ASSUME NEW t, IsTown(t), IsServed(t),
         NEW p, NEW link, NEW sealed, NEW heap, NEW cur, NEW at,
         NEW landing, NEW told, NEW answered,
         Explored(t, p, link, sealed, heap, cur, at), Stands(t, heap, cur, at),
         Found(t, p, sealed, Walked(t, sealed, cur, at), landing, told, answered),
         cur # 0 => DOMAIN t.goals \subseteq answered,
         NEW u \in DOMAIN told, told[u].real = TRUE,
         NEW n, n = told[u].node, NEW i, i = landing[n].edge,
         n \in t.goals[u], u \in DOMAIN t.goals, i \in Roads(t), t.to[i] = n, t.from[i] \in sealed,
         told[u].total = landing[n].cost + t.dues[u][n],
         landing[n].cost = p[t.from[i]] + t.cost[i], landing[n].cost <= t.cap
  PROVE  IsPriceOf(t, u, i, n, told[u].total)
<1> DEFINE m == t.from[i]
<1>1. Reached(t, p, sealed, heap) /\ FromSources(t, p)
  BY DEF Explored
<1>2. PICK s \in t.sources : t.offset[s] + t.far[s][m] <= p[m]
  BY <1>1 DEF Reached, FromSources
<1>3. /\ i \in EdgesOf(t) /\ m \in NodesOf(t) /\ n \in NodesOf(t) /\ t.cost[i] \in Nat
      /\ s \in NodesOf(t) /\ t.offset[s] \in Nat /\ t.cap \in Nat /\ t.dues[u][n] \in Nat
      /\ p[m] \in Nat
  <2>1. n \in NodesOf(t) /\ t.dues[u] \in [NodesOf(t) -> Nat]
    BY DEF IsServed
  <2> QED BY <1>1, <2>1, TownFacts DEF Reached
<1>4. t.far[s][m] \in Nat /\ t.far[n][n] = 0
  BY <1>3 DEF IsTown, IsMeasured, IsSquare, NodesOf
<1>5. /\ Along(t, s, i, n) \in Nat /\ Along(t, s, i, n) <= t.cap
      /\ told[u].total <= Along(t, s, i, n) + t.dues[u][n]
           => told[u].total = Along(t, s, i, n) + t.dues[u][n]
  <2>1. Along(t, s, i, n) = t.offset[s] + t.far[s][m] + t.cost[i] + t.far[n][n]
    BY DEF Along
  <2> HIDE DEF m
  <2>2. landing[n].cost = p[m] + t.cost[i]
    BY DEF m
  <2> QED BY <1>2, <1>3, <1>4, <2>1, <2>2, AsCheap
<1>6. told[u].total <= Along(t, s, i, n) + t.dues[u][n]
  <2>1. Along(t, s, i, n) = t.offset[s] + t.far[s][t.from[i]] + t.cost[i] + t.far[t.to[i]][n]
    BY Zenon DEF Along
  <2> QED BY <1>5, <2>1, NoneIsBetter
<1> QED BY <1>5, <1>6 DEF IsPriceOf

(* The nodes that a trail leads over, each edge from one to the next.        *)
Way(t, es, n) == <<Begins(t, es, n)>> \o [k \in DOMAIN es |-> t.to[es[k]]]

IsWay(t, es, n, ns) ==
  /\ ns \in Seq(NodesOf(t)) /\ Len(ns) = Len(es) + 1
  /\ ns[1] = Begins(t, es, n) /\ ns[Len(es) + 1] = n
  /\ \A k \in 1 .. Len(es) : ns[k] = t.from[es[k]] /\ ns[k + 1] = t.to[es[k]]

LEMMA WayFacts ==
  ASSUME NEW t, IsTown(t), NEW kind \in SUBSET EdgesOf(t),
         NEW es, NEW n, NEW cost, IsTrail(t, kind, es, n, cost)
  PROVE  IsWay(t, es, n, Way(t, es, n))
<1> DEFINE N     == Len(es)
           first == Begins(t, es, n)
           onto  == [k \in DOMAIN es |-> t.to[es[k]]]
           head  == <<first>>
           ns    == Way(t, es, n)
<1>1. /\ N \in Nat /\ DOMAIN es = 1 .. N /\ \A k \in 1 .. N : es[k] \in EdgesOf(t)
      /\ (es = <<>> <=> N = 0)
  <2>1. es \in Seq(kind)
    BY DEF IsTrail
  <2> QED BY <2>1
<1>2. first \in NodesOf(t)
  BY TownFacts DEF IsTrail
<1>3. \A k \in 1 .. N : t.to[es[k]] \in NodesOf(t)
  BY <1>1, TownFacts
<1>4. onto \in Seq(NodesOf(t)) /\ Len(onto) = N /\ \A k \in 1 .. N : onto[k] = t.to[es[k]]
  BY <1>1, <1>3
<1>5. head \in Seq(NodesOf(t)) /\ Len(head) = 1 /\ head[1] = first
  BY <1>2
<1>6. ns = head \o onto
  BY DEF Way
<1>7. first = IF N = 0 THEN n ELSE t.from[es[1]]
  BY <1>1 DEF Begins
<1>8. /\ \A k \in 1 .. N - 1 : t.to[es[k]] = t.from[es[k + 1]]
      /\ N # 0 => t.to[es[N]] = n
  BY <1>1 DEF IsTrail
<1> HIDE DEF N, first, onto, head, ns
<1>9. /\ ns \in Seq(NodesOf(t)) /\ Len(ns) = N + 1 /\ ns[1] = first
      /\ \A k \in 1 .. N : ns[k + 1] = t.to[es[k]]
  <2>1. /\ ns \in Seq(NodesOf(t)) /\ Len(ns) = 1 + N
        /\ \A k \in 1 .. 1 + N : ns[k] = IF k <= 1 THEN head[k] ELSE onto[k - 1]
    <3>1. /\ head \o onto \in Seq(NodesOf(t)) /\ Len(head \o onto) = Len(head) + Len(onto)
          /\ \A k \in 1 .. Len(head) + Len(onto) :
               (head \o onto)[k] = IF k <= Len(head) THEN head[k] ELSE onto[k - Len(head)]
      BY <1>4, <1>5, ConcatProperties
    <3> QED BY <1>4, <1>5, <1>6, <3>1
  <2>2. ns[1] = first
    BY <1>1, <1>5, <2>1
  <2>3. ASSUME NEW k \in 1 .. N PROVE ns[k + 1] = t.to[es[k]]
    <3>1. k + 1 \in 1 .. 1 + N /\ ~(k + 1 <= 1) /\ (k + 1) - 1 = k
      BY <1>1
    <3> QED BY <1>4, <2>1, <3>1
  <2> QED BY <1>1, <2>1, <2>2, <2>3
<1>10. ASSUME NEW k \in 1 .. N PROVE ns[k] = t.from[es[k]]
  <2>1. CASE k = 1
    BY <1>1, <1>7, <1>9, <2>1
  <2>2. CASE k # 1
    <3>1. k - 1 \in 1 .. N - 1 /\ k - 1 \in 1 .. N /\ (k - 1) + 1 = k
      BY <1>1, <2>2
    <3> QED BY <1>8, <1>9, <3>1
  <2> QED BY <2>1, <2>2
<1>11. ns[N + 1] = n
  <2>1. CASE N = 0
    BY <1>7, <1>9, <2>1
  <2>2. CASE N # 0
    <3>1. N \in 1 .. N
      BY <1>1, <2>2
    <3> QED BY <1>8, <1>9, <2>2, <3>1
  <2> QED BY <2>1, <2>2
<1> QED BY <1>9, <1>10, <1>11 DEF IsWay, N, first, ns


-----------------------------------------------------------------------------
(* What is read of a document: nodes and ways, and inside of what.          *)
Place == Int \X Int

OsmNode == [id : Int, at : Place]
OsmWay  == [nodes : Seq(Int), tags : Seq(STRING \X STRING)]
OsmDoc  == [nodes : Seq(OsmNode), ways : Seq(OsmWay)]

IsContext(c) ==
  /\ c.in \in {"none", "skip", "node", "way"}
  /\ c.in = "node" => c.node \in OsmNode
  /\ c.in = "way" => c \in [in : {"way"}, way : OsmWay]

ReaderInv ==
  /\ document \in Documents
  /\ unread \in Seq(ToSet(document))
  /\ osm \in OsmDoc
  /\ IsContext(ctx)

(* A tag that counts says what its name calls for.                         *)
LEMMA TagFacts ==
  ASSUME ReaderInv, unread # <<>>
  PROVE  /\ Tail(unread) \in Seq(ToSet(document))
         /\ LET e == Head(unread)
            IN  e.ok => /\ e.name = "node" /\ e.shape # "close" => e.val \in OsmNode
                        /\ e.name = "nd" /\ e.shape = "self" => e.val \in Int
                        /\ e.name = "tag" /\ e.shape = "self" => e.val \in STRING \X STRING
<1>1. unread \in Seq(ToSet(document)) /\ document \in Documents
  BY DEF ReaderInv
<1>2. Head(unread) \in ToSet(document) /\ Tail(unread) \in Seq(ToSet(document))
  BY <1>1, HeadTailProperties
<1>3. IsExtract(document)
  BY <1>1, DocumentsAssumption
<1> QED BY <1>2, <1>3, Zenon DEF IsExtract, OsmNode, Place

LEMMA ReadKeeps ==
  ASSUME ReaderInv, ReadTag, UNCHANGED document
  PROVE  ReaderInv'
<1> DEFINE e == Head(unread)
<1>1. /\ unread # <<>> /\ unread' = Tail(unread) /\ document' = document
      /\ osm \in OsmDoc /\ IsContext(ctx) /\ document \in Documents
      /\ Tail(unread) \in Seq(ToSet(document))
  BY TagFacts DEF ReadTag, ReaderInv
<1>2. /\ e.ok /\ e.name = "node" /\ e.shape # "close" => e.val \in OsmNode
      /\ e.ok /\ e.name = "nd" /\ e.shape = "self" => e.val \in Int
      /\ e.ok /\ e.name = "tag" /\ e.shape = "self" => e.val \in STRING \X STRING
  BY <1>1, TagFacts
<1>3. \/ Skip(e)
      \/ /\ ctx.in # "skip"
         /\ \/ NodeWhole(e) \/ NodeOpens(e) \/ NodeCloses(e)
            \/ WayWhole(e) \/ WayOpens(e) \/ WayCloses(e)
            \/ InWay(e) \/ RelationOpens(e) \/ Unknown(e)
  BY DEF ReadTag
<1> HIDE DEF e
<1>4. EmptyWay \in OsmWay /\ IsContext(Outside) /\ EmptyDoc \in OsmDoc
  BY EmptySeq DEF EmptyWay, Outside, IsContext, OsmWay, EmptyDoc, OsmDoc
<1>5. ASSUME NEW n \in OsmNode
      PROVE  [osm EXCEPT !.nodes = Append(@, n)] \in OsmDoc
  BY <1>1, AppendProperties DEF OsmDoc
<1>6. ASSUME NEW w \in OsmWay
      PROVE  [osm EXCEPT !.ways = Append(@, w)] \in OsmDoc
  BY <1>1, AppendProperties DEF OsmDoc
<1>7. osm' \in OsmDoc /\ IsContext(ctx')
  <2>1. CASE Skip(e)
    BY <1>1, <1>4, <2>1 DEF Skip
  <2>2. CASE NodeWhole(e)
    BY <1>1, <1>2, <1>5, <2>2 DEF NodeWhole
  <2>3. CASE NodeOpens(e)
    BY <1>1, <1>2, <2>3 DEF NodeOpens, IsContext
  <2>4. CASE NodeCloses(e)
    BY <1>1, <1>4, <1>5, <2>4 DEF NodeCloses, IsContext
  <2>5. CASE WayWhole(e)
    BY <1>1, <1>4, <1>6, <2>5 DEF WayWhole
  <2>6. CASE WayOpens(e)
    BY <1>1, <1>4, <2>6 DEF WayOpens, IsContext
  <2>7. CASE WayCloses(e)
    <3>1. ctx.in = "way" => ctx.way \in OsmWay
      BY <1>1 DEF IsContext
    <3> QED BY <1>1, <1>4, <1>6, <2>7, <3>1 DEF WayCloses
  <2>8. CASE InWay(e)
    <3>1. CASE ctx.in # "way" \/ ~e.ok
      <4>1. ctx' = ctx /\ osm' = osm
        BY <2>8, <3>1 DEF InWay
      <4> QED BY <1>1, <4>1, Zenon
    <3>2. CASE ctx.in = "way" /\ e.ok /\ e.name = "nd"
      <4>1. ctx' = [ctx EXCEPT !.way.nodes = Append(@, e.val)] /\ osm' = osm
        BY <2>8, <3>2 DEF InWay
      <4>2. ctx \in [in : {"way"}, way : OsmWay] /\ e.val \in Int
        BY <1>1, <1>2, <2>8, <3>2 DEF IsContext, InWay
      <4>3. Append(ctx.way.nodes, e.val) \in Seq(Int)
        BY <4>2, AppendProperties DEF OsmWay
      <4>4. ctx' \in [in : {"way"}, way : OsmWay]
        BY <4>1, <4>2, <4>3 DEF OsmWay
      <4> QED BY <1>1, <4>1, <4>4 DEF IsContext
    <3>3. CASE ctx.in = "way" /\ e.ok /\ e.name # "nd"
      <4>1. ctx' = [ctx EXCEPT !.way.tags = Append(@, e.val)] /\ osm' = osm
        BY <2>8, <3>3 DEF InWay
      <4>2. ctx \in [in : {"way"}, way : OsmWay] /\ e.val \in STRING \X STRING
        BY <1>1, <1>2, <2>8, <3>3 DEF IsContext, InWay
      <4>3. Append(ctx.way.tags, e.val) \in Seq(STRING \X STRING)
        BY <4>2, AppendProperties DEF OsmWay
      <4>4. ctx' \in [in : {"way"}, way : OsmWay]
        BY <4>1, <4>2, <4>3 DEF OsmWay
      <4> QED BY <1>1, <4>1, <4>4 DEF IsContext
    <3> QED BY <3>1, <3>2, <3>3
  <2>9. CASE RelationOpens(e)
    BY <1>1, <2>9 DEF RelationOpens, IsContext
  <2>10. CASE Unknown(e)
    BY <1>1, <2>10 DEF Unknown
  <2> QED BY <1>3, <2>1, <2>2, <2>3, <2>4, <2>5, <2>6, <2>7, <2>8, <2>9, <2>10
<1>8. unread' \in Seq(ToSet(document')) /\ document' \in Documents
  BY <1>1
<1> QED BY <1>7, <1>8 DEF ReaderInv

-----------------------------------------------------------------------------
(* The nodes and the edges of the graph.                                   *)
StreetNode == [osm : Int, at : Place]

Attrs == [stairs : BOOLEAN, elevator : BOOLEAN, wheelchair : {"yes", "no", "unknown"},
          slope : Nat]

StreetEdge(n) == [from : 1 .. n, to : 1 .. n, length : Nat, attrs : Attrs]

(* A node lies where the document has it, the last of that number.          *)
PlaceIn(doc, id) ==
  doc.nodes[Max({i \in 1 .. Len(doc.nodes) : doc.nodes[i].id = id})].at

AreNodes(ns) ==
  /\ ns \in Seq(StreetNode)
  /\ \A n \in DOMAIN ns : ns[n].at = PlaceIn(osm, ns[n].osm)

(* A list goes on where another ends.                                      *)
GoesOn(ns, more) ==
  /\ Len(ns) <= Len(more)
  /\ \A n \in DOMAIN ns : more[n] = ns[n]

Has(ns, id) == \E n \in DOMAIN ns : ns[n].osm = id

LEMMA CoordFacts ==
  ASSUME osm \in OsmDoc, NEW id, Known(id)
  PROVE  CoordOf(id) \in Place /\ CoordOf(id) = PlaceIn(osm, id)
<1> DEFINE I == {i \in 1 .. Len(osm.nodes) : osm.nodes[i].id = id}
<1>1. osm.nodes \in Seq(OsmNode)
  BY DEF OsmDoc
<1>2. Len(osm.nodes) \in Nat /\ DOMAIN osm.nodes = 1 .. Len(osm.nodes)
  BY <1>1, LenProperties
<1>3. I # {}
  BY <1>2 DEF Known, ToSet
<1>4. Max(I) \in I
  <2>1. I \in SUBSET (1 .. Len(osm.nodes))
    OBVIOUS
  <2> HIDE DEF I
  <2> QED BY <1>2, <1>3, <2>1, GreatestOf
<1>5. CoordOf(id) = osm.nodes[Max(I)].at
  BY <1>3 DEF CoordOf, SelectLastInSeq
<1>6. osm.nodes[Max(I)] \in OsmNode
  BY <1>1, <1>4, ElementOfSeq
<1>7. CoordOf(id) = PlaceIn(osm, id)
  BY <1>5, Zenon DEF PlaceIn
<1> QED BY <1>5, <1>6, <1>7 DEF OsmNode

LEMMA NumberFacts ==
  ASSUME NEW ns \in Seq(StreetNode), NEW id, Has(ns, id)
  PROVE  NumberOf(ns, id) \in DOMAIN ns /\ ns[NumberOf(ns, id)].osm = id
<1> DEFINE I == {i \in 1 .. Len(ns) : ns[i].osm = id}
<1>1. Len(ns) \in Nat /\ DOMAIN ns = 1 .. Len(ns)
  BY LenProperties
<1>2. I # {} /\ I \in SUBSET Nat
  BY <1>1 DEF Has
<1>3. Min(I) \in I
  <2> HIDE DEF I
  <2> QED BY <1>2, LeastOf
<1>4. NumberOf(ns, id) = Min(I)
  BY <1>2 DEF NumberOf, SelectInSeq
<1> QED BY <1>1, <1>3, <1>4

LEMMA RegisterFacts ==
  ASSUME osm \in OsmDoc, NEW ns, AreNodes(ns), NEW id \in Int, Known(id)
  PROVE  /\ AreNodes(Register(ns, id)) /\ GoesOn(ns, Register(ns, id))
         /\ Has(Register(ns, id), id)
<1> DEFINE new  == [osm |-> id, at |-> CoordOf(id)]
           more == Append(ns, new)
<1>1. ns \in Seq(StreetNode) /\ \A n \in DOMAIN ns : ns[n].at = PlaceIn(osm, ns[n].osm)
  BY DEF AreNodes
<1>2. Len(ns) \in Nat /\ DOMAIN ns = 1 .. Len(ns)
  BY <1>1, LenProperties
<1>3. CASE Has(ns, id)
  <2>1. Register(ns, id) = ns
    BY <1>3 DEF Register, Has, ToSet
  <2> QED BY <1>2, <1>3, <2>1 DEF GoesOn
<1>4. CASE ~Has(ns, id)
  <2>1. Register(ns, id) = more
    BY <1>4 DEF Register, Has, ToSet
  <2>2. new \in StreetNode
    BY CoordFacts DEF StreetNode
  <2>3. new.osm = id /\ new.at = PlaceIn(osm, id)
    BY CoordFacts
  <2> HIDE DEF new
  <2>4. /\ more \in Seq(StreetNode) /\ Len(more) = Len(ns) + 1
        /\ \A i \in 1 .. Len(ns) : more[i] = ns[i]
        /\ more[Len(ns) + 1] = new
    BY <1>1, <2>2, AppendProperties
  <2>5. DOMAIN more = 1 .. Len(ns) + 1
    BY <2>4, LenProperties
  <2> HIDE DEF more
  <2>6. \A n \in DOMAIN more : more[n].at = PlaceIn(osm, more[n].osm)
    <3> TAKE n \in DOMAIN more
    <3>1. CASE n = Len(ns) + 1
      BY <2>3, <2>4, <3>1
    <3>2. CASE n # Len(ns) + 1
      <4>1. n \in 1 .. Len(ns)
        BY <1>2, <2>5, <3>2
      <4> QED BY <1>1, <1>2, <2>4, <4>1
    <3> QED BY <3>1, <3>2
  <2>7. Len(ns) + 1 \in DOMAIN more
    BY <1>2, <2>5
  <2>8. Has(more, id)
    BY <2>3, <2>4, <2>7 DEF Has
  <2>9. GoesOn(ns, more)
    BY <1>2, <2>4 DEF GoesOn
  <2> QED BY <2>1, <2>4, <2>6, <2>8, <2>9 DEF AreNodes
<1> QED BY <1>3, <1>4

(* A chain of registrations.                                               *)
LEMMA RegisterAllFacts ==
  ASSUME osm \in OsmDoc, NEW ns, AreNodes(ns), NEW ids \in Seq(Int),
         \A i \in DOMAIN ids : Known(ids[i])
  PROVE  LET all == RegisterAll(ns, ids)
         IN  /\ AreNodes(all) /\ GoesOn(ns, all)
             /\ \A i \in DOMAIN ids : Has(all, ids[i])
<1> DEFINE n == Len(ids)
           V == {l \in Seq(StreetNode) : AreNodes(l)}
           step == [x \in (1 .. n) \X V |-> Register(x[2], ids[x[1]])]
           Body(f) == [k \in 0 .. n |-> IF k = 0 THEN ns ELSE Register(f[k - 1], ids[k])]
           after == CHOOSE f : f = Body(f)
<1>1. n \in Nat /\ DOMAIN ids = 1 .. n /\ \A i \in 1 .. n : ids[i] \in Int
  BY LenProperties, ElementOfSeq
<1>2. ns \in V
  BY DEF AreNodes
<1>3. \A i \in 1 .. n, l \in V :
        /\ Register(l, ids[i]) \in V /\ GoesOn(l, Register(l, ids[i]))
        /\ Has(Register(l, ids[i]), ids[i])
  <2> TAKE i \in 1 .. n, l \in V
  <2>1. AreNodes(l) /\ ids[i] \in Int /\ Known(ids[i])
    BY <1>1
  <2>2. /\ AreNodes(Register(l, ids[i])) /\ GoesOn(l, Register(l, ids[i]))
        /\ Has(Register(l, ids[i]), ids[i])
    BY <2>1, RegisterFacts
  <2> QED BY <2>2 DEF AreNodes
<1>4. RegisterAll(ns, ids) = after[n]
  BY DEF RegisterAll
<1> HIDE DEF V, n
<1>5. step \in [(1 .. n) \X V -> V]
  BY <1>3
<1>6. \A k \in 1 .. n, l \in V : step[<<k, l>>] = Register(l, ids[k])
  OBVIOUS
<1> HIDE DEF step
<1>7a. PICK f \in [0 .. n -> V] : Iterates(n, ns, step, f)
  BY <1>1, <1>2, <1>5, Iterate
<1>7. f[0] = ns /\ \A k \in 1 .. n : f[k] = step[<<k, f[k - 1]>>]
  BY <1>7a, Zenon DEF Iterates
<1>8. \A k \in 1 .. n : k - 1 \in 0 .. n /\ f[k - 1] \in V
  <2>1. \A k \in 1 .. n : k - 1 \in 0 .. n
    BY <1>1
  <2> QED BY <2>1
<1>9. \A k \in 0 .. n : f[k] = IF k = 0 THEN ns ELSE Register(f[k - 1], ids[k])
  <2> TAKE k \in 0 .. n
  <2>1. CASE k = 0
    BY <1>7, <2>1
  <2>2. CASE k # 0
    <3>1. k \in 1 .. n
      BY <1>1, <2>2
    <3> QED BY <1>6, <1>7, <1>8, <2>2, <3>1
  <2> QED BY <2>1, <2>2
<1>10. f = Body(f)
  BY <1>9
<1>11. after = Body(after)
  <2> HIDE DEF Body
  <2> QED BY <1>10
<1> HIDE DEF after
<1>12. /\ after[0] = ns
       /\ \A k \in 1 .. n : after[k] = Register(after[k - 1], ids[k])
  BY <1>1, <1>11
<1> HIDE DEF Body
<1> DEFINE Fine(k) == /\ after[k] \in V /\ GoesOn(ns, after[k])
                      /\ \A i \in 1 .. k : Has(after[k], ids[i])
           S == {k \in 0 .. n : Fine(k)}
<1>13. 0 \in S
  <2>1. GoesOn(ns, ns)
    <3>1. Len(ns) \in Nat
      BY LenProperties DEF AreNodes
    <3> QED BY <3>1 DEF GoesOn
  <2>2. \A i \in 1 .. 0 : Has(after[0], ids[i])
    OBVIOUS
  <2> QED BY <1>1, <1>2, <1>12, <2>1, <2>2
<1>14. ASSUME NEW k \in 1 .. n, k - 1 \in S
       PROVE  k \in S
  <2> DEFINE l == after[k - 1]
             m == after[k]
  <2>1. l \in V /\ GoesOn(ns, l) /\ \A i \in 1 .. k - 1 : Has(l, ids[i])
    BY <1>14
  <2>2. m = Register(l, ids[k])
    BY <1>12
  <2> HIDE DEF l
  <2>3. m \in V /\ GoesOn(l, m) /\ Has(m, ids[k])
    BY <1>3, <2>1, <2>2
  <2> HIDE DEF m
  <2>4. /\ Len(ns) \in Nat /\ DOMAIN ns = 1 .. Len(ns)
        /\ Len(l) \in Nat /\ DOMAIN l = 1 .. Len(l)
        /\ Len(m) \in Nat /\ DOMAIN m = 1 .. Len(m)
    BY <1>2, <2>1, <2>3, LenProperties DEF V
  <2>5. GoesOn(ns, m)
    BY <2>1, <2>3, <2>4 DEF GoesOn
  <2>6. \A id : Has(l, id) => Has(m, id)
    <3> TAKE id
    <3> HAVE Has(l, id)
    <3>1. PICK i \in DOMAIN l : l[i].osm = id
      BY DEF Has
    <3>2. i \in DOMAIN m /\ m[i] = l[i]
      BY <2>3, <2>4 DEF GoesOn
    <3> QED BY <3>1, <3>2 DEF Has
  <2>7. \A i \in 1 .. k : Has(m, ids[i])
    <3> TAKE i \in 1 .. k
    <3>1. i = k \/ i \in 1 .. k - 1
      OBVIOUS
    <3> QED BY <2>1, <2>3, <2>6, <3>1
  <2> QED BY <2>3, <2>5, <2>7 DEF m
<1>15. n \in S
  <2> HIDE DEF S
  <2>1. \A k \in 0 .. n : k \in S
    BY <1>1, <1>13, <1>14, Upwards
  <2> QED BY <1>1, <2>1
<1>16. after[n] \in V /\ GoesOn(ns, after[n]) /\ \A i \in 1 .. n : Has(after[n], ids[i])
  BY <1>15
<1> QED BY <1>1, <1>4, <1>16 DEF V

-----------------------------------------------------------------------------
(* Places are as far apart as a metric has it.                              *)
LEMMA DistFacts ==
  ASSUME NEW p \in Place, NEW q \in Place, NEW r \in Place
  PROVE  /\ Dist(p, q) \in Nat /\ Dist(p, q) = Dist(q, p) /\ Dist(p, p) = 0
         /\ Dist(p, q) <= Dist(p, r) + Dist(r, q)
<1>1. /\ p[1] \in Int /\ p[2] \in Int /\ q[1] \in Int /\ q[2] \in Int
      /\ r[1] \in Int /\ r[2] \in Int
  BY DEF Place
<1> QED BY <1>1 DEF Dist, Abs

(* What sorting makes of a set of numbers: each once, by key and number.    *)
Before(key, q, r) == key[q] < key[r] \/ (key[q] = key[r] /\ q < r)

IsSort(rows, key, order) ==
  LET n == Cardinality(rows)
  IN  /\ n \in Nat
      /\ order \in [1 .. n -> rows]
      /\ \A i, j \in 1 .. n : i < j => Before(key, order[i], order[j])
      /\ \A r \in rows : \E i \in 1 .. n : order[i] = r

LEMMA InOrderSorts ==
  ASSUME NEW rows, IsFiniteSet(rows), rows \subseteq Int,
         NEW key, \A r \in rows : key[r] \in Int
  PROVE  IsSort(rows, key, InOrder(rows, key))
<1> DEFINE n     == Cardinality(rows)
           order == InOrder(rows, key)
           rank  == [r \in rows |-> Cardinality(UpTo(rows, key, r))]
<1>1. n \in Nat
  BY FS_CardinalityType
<1>2. \A q, r \in rows : q \in UpTo(rows, key, r) <=> q = r \/ Before(key, q, r)
  BY DEF UpTo, Before
<1>3. \A q, r \in rows : q = r \/ Before(key, q, r) \/ Before(key, r, q)
  BY DEF Before
<1>4. \A q, r \in rows : Before(key, q, r) =>
        /\ r \notin UpTo(rows, key, q)
        /\ UpTo(rows, key, q) \subseteq UpTo(rows, key, r)
  <2> SUFFICES ASSUME NEW q \in rows, NEW r \in rows, Before(key, q, r)
               PROVE  /\ r \notin UpTo(rows, key, q)
                      /\ UpTo(rows, key, q) \subseteq UpTo(rows, key, r)
    OBVIOUS
  <2>1. q \in Int /\ r \in Int /\ key[q] \in Int /\ key[r] \in Int
    OBVIOUS
  <2>2. r # q /\ ~Before(key, r, q)
    BY <2>1 DEF Before
  <2>3. ASSUME NEW x \in rows, x = q \/ Before(key, x, q)
        PROVE  Before(key, x, r)
    <3>1. x \in Int /\ key[x] \in Int
      OBVIOUS
    <3> QED BY <2>1, <2>3, <3>1 DEF Before
  <2>4. \A x \in UpTo(rows, key, q) : x \in rows
    BY DEF UpTo
  <2> QED BY <1>2, <2>2, <2>3, <2>4
<1>5. \A r \in rows : /\ IsFiniteSet(UpTo(rows, key, r)) /\ UpTo(rows, key, r) \in SUBSET rows
                      /\ rank[r] \in 1 .. n
  <2> TAKE r \in rows
  <2>1. UpTo(rows, key, r) \in SUBSET rows
    BY DEF UpTo
  <2>2. IsFiniteSet(UpTo(rows, key, r)) /\ Cardinality(UpTo(rows, key, r)) <= n
    BY <2>1, FS_Subset
  <2>3. Cardinality(UpTo(rows, key, r)) \in Nat /\ Cardinality(UpTo(rows, key, r)) # 0
    BY <1>2, <2>2, FS_CardinalityType, FS_EmptySet
  <2> QED BY <1>1, <2>1, <2>2, <2>3
<1>6. \A q, r \in rows : Before(key, q, r) => rank[q] < rank[r]
  <2> SUFFICES ASSUME NEW q \in rows, NEW r \in rows, Before(key, q, r)
               PROVE  rank[q] < rank[r]
    OBVIOUS
  <2>1. r \in UpTo(rows, key, r) /\ r \notin UpTo(rows, key, q)
    BY <1>2, <1>4
  <2>2. UpTo(rows, key, q) \in SUBSET UpTo(rows, key, r)
    BY <1>4
  <2>3. UpTo(rows, key, q) # UpTo(rows, key, r)
    BY <2>1
  <2>4. /\ Cardinality(UpTo(rows, key, q)) <= Cardinality(UpTo(rows, key, r))
        /\ Cardinality(UpTo(rows, key, r)) # Cardinality(UpTo(rows, key, q))
    BY <1>5, <2>2, <2>3, FS_Subset
  <2> QED BY <1>1, <1>5, <2>4
<1> DEFINE R == 1 .. n
<1>7. rank \in [rows -> R] /\ \A r \in rows : rank[r] \in Int
  BY <1>1, <1>5
<1> HIDE DEF rank, R, n
<1>8. \A q, r \in rows : rank[q] = rank[r] => q = r
  BY <1>3, <1>6, <1>7
<1>9. \A i \in R : \E r \in rows : rank[r] = i
  <2>1. rank \in Injection(rows, R)
    BY <1>7, <1>8 DEF Injection, IsInjective
  <2>2. IsFiniteSet(R) /\ Cardinality(R) = n
    BY <1>1, FS_Interval DEF R
  <2>3. rank \in Surjection(rows, R)
    BY <2>1, <2>2, FS_Injection DEF n
  <2> QED BY <2>3 DEF Surjection
<1>10. \A i \in R : order[i] \in rows /\ rank[order[i]] = i
  <2> TAKE i \in R
  <2>1. \E r \in rows : Cardinality(UpTo(rows, key, r)) = i
    BY <1>9 DEF rank
  <2>2. order[i] = CHOOSE r \in rows : Cardinality(UpTo(rows, key, r)) = i
    BY DEF InOrder, R, n
  <2>3. order[i] \in rows /\ Cardinality(UpTo(rows, key, order[i])) = i
    BY <2>1, <2>2
  <2> QED BY <2>3 DEF rank
<1>11. order \in [R -> rows]
  <2>1. DOMAIN order = R /\ order = [i \in R |-> order[i]]
    BY DEF InOrder, R, n
  <2> HIDE DEF order
  <2> QED BY <1>10, <2>1
<1> HIDE DEF order
<1>12. \A i, j \in R : i < j => Before(key, order[i], order[j])
  <2> SUFFICES ASSUME NEW i \in R, NEW j \in R, i < j
               PROVE  Before(key, order[i], order[j])
    OBVIOUS
  <2>1. /\ order[i] \in rows /\ order[j] \in rows
        /\ rank[order[i]] = i /\ rank[order[j]] = j
    BY <1>10
  <2>2. i # j /\ ~(j < i)
    BY <1>1 DEF R
  <2> QED BY <1>3, <1>6, <2>1, <2>2
<1>13. \A r \in rows : \E i \in R : order[i] = r
  <2> TAKE r \in rows
  <2>1. rank[r] \in R
    BY <1>7
  <2>2. order[rank[r]] \in rows /\ rank[order[rank[r]]] = rank[r]
    BY <1>10, <2>1
  <2> QED BY <1>8, <2>1, <2>2
<1>14. IsSort(rows, key, order)
  BY <1>1, <1>11, <1>12, <1>13 DEF IsSort, R, n
<1> QED BY <1>14 DEF order

-----------------------------------------------------------------------------
(* Every edge leads from node to node, is as long as they are apart, and has
   its like in the other direction.                                        *)
Opposite(e, f) ==
  f.from = e.to /\ f.to = e.from /\ f.length = e.length /\ f.attrs = e.attrs

AreEdges(es, ns) ==
  /\ es \in Seq(StreetEdge(Len(ns)))
  /\ \A i \in DOMAIN es : es[i].length = Dist(ns[es[i].from].at, ns[es[i].to].at)
  /\ \A i \in DOMAIN es : \E j \in DOMAIN es : Opposite(es[i], es[j])

LEMMA AccessibilityType ==
  ASSUME NEW way
  PROVE  Accessibility(way) \in Attrs
<1>1. Accessibility(way).stairs \in BOOLEAN /\ Accessibility(way).elevator \in BOOLEAN
  BY DEF Accessibility
<1>2. Accessibility(way).wheelchair \in {"yes", "no", "unknown"}
  BY DEF Accessibility
<1>3. Accessibility(way).slope \in Nat
  BY DEF Accessibility
<1> QED BY <1>1, <1>2, <1>3 DEF Accessibility, Attrs

(* The k-th edge of a way leads from one of its nodes to the next or back.  *)
LEMMA HalfFacts ==
  ASSUME NEW m \in Nat, NEW k \in 1 .. 2 * m
  PROVE  /\ (k + 1) \div 2 \in 1 .. m
         /\ k % 2 = 1 => /\ k + 1 \in 1 .. 2 * m /\ (k + 1) % 2 # 1
                         /\ ((k + 1) + 1) \div 2 = (k + 1) \div 2
         /\ k % 2 # 1 => /\ k - 1 \in 1 .. 2 * m /\ (k - 1) % 2 = 1
                         /\ ((k - 1) + 1) \div 2 = (k + 1) \div 2
OBVIOUS

LEMMA StretchesFacts ==
  ASSUME osm \in OsmDoc, NEW ns, AreNodes(ns), NEW way, way.nodes \in Seq(Int),
         Len(way.nodes) >= 2,
         \A i \in DOMAIN way.nodes : Known(way.nodes[i]) /\ Has(ns, way.nodes[i])
  PROVE  AreEdges(Stretches(way, ns), ns)
<1> DEFINE L       == Len(way.nodes)
           m       == L - 1
           num(i)  == NumberOf(ns, way.nodes[i])
           Edge(i, j) == [from |-> num(i), to |-> num(j),
                          length |-> Dist(CoordOf(way.nodes[i]), CoordOf(way.nodes[j])),
                          attrs |-> Accessibility(way)]
           half(k) == (k + 1) \div 2
           es      == Stretches(way, ns)
<1>1. L \in Nat /\ m \in Nat /\ DOMAIN way.nodes = 1 .. L
  BY LenProperties
<1>2. ns \in Seq(StreetNode) /\ Len(ns) \in Nat /\ DOMAIN ns = 1 .. Len(ns)
  BY LenProperties DEF AreNodes
<1>3. \A i \in 1 .. L : /\ num(i) \in 1 .. Len(ns)
                        /\ ns[num(i)].at = CoordOf(way.nodes[i])
                        /\ CoordOf(way.nodes[i]) \in Place
  <2> TAKE i \in 1 .. L
  <2>1. Known(way.nodes[i]) /\ Has(ns, way.nodes[i])
    BY <1>1
  <2>2. num(i) \in DOMAIN ns /\ ns[num(i)].osm = way.nodes[i]
    BY <1>2, <2>1, NumberFacts
  <2>3. ns[num(i)].at = CoordOf(way.nodes[i])
    BY <2>1, <2>2, CoordFacts DEF AreNodes
  <2> QED BY <1>2, <2>1, <2>2, <2>3, CoordFacts
<1>4. es = [k \in 1 .. 2 * m |-> IF k % 2 = 1 THEN Edge(half(k), half(k) + 1)
                                ELSE Edge(half(k) + 1, half(k))]
  BY DEF Stretches
<1> HIDE DEF num, es
<1>5. \A i, j \in 1 .. L :
        /\ Edge(i, j) \in StreetEdge(Len(ns)) /\ Opposite(Edge(i, j), Edge(j, i))
        /\ Edge(i, j).length = Dist(ns[Edge(i, j).from].at, ns[Edge(i, j).to].at)
  <2> TAKE i, j \in 1 .. L
  <2>1. /\ num(i) \in 1 .. Len(ns) /\ num(j) \in 1 .. Len(ns)
        /\ ns[num(i)].at = CoordOf(way.nodes[i]) /\ ns[num(j)].at = CoordOf(way.nodes[j])
    BY <1>3
  <2>2. /\ Dist(CoordOf(way.nodes[i]), CoordOf(way.nodes[j])) \in Nat
        /\ Dist(CoordOf(way.nodes[i]), CoordOf(way.nodes[j]))
             = Dist(CoordOf(way.nodes[j]), CoordOf(way.nodes[i]))
    BY <1>3, DistFacts
  <2> QED BY <2>1, <2>2, AccessibilityType DEF StreetEdge, Opposite
<1> HIDE DEF Edge
<1>6. \A k \in 1 .. 2 * m : half(k) \in 1 .. L /\ half(k) + 1 \in 1 .. L
  BY <1>1, HalfFacts
<1>7. \A k \in 1 .. 2 * m :
        \/ k % 2 = 1 /\ es[k] = Edge(half(k), half(k) + 1)
        \/ k % 2 # 1 /\ es[k] = Edge(half(k) + 1, half(k))
  BY <1>4
<1>8. DOMAIN es = 1 .. 2 * m
  BY <1>4
<1>9. \A k \in 1 .. 2 * m : es[k] \in StreetEdge(Len(ns))
                          /\ es[k].length = Dist(ns[es[k].from].at, ns[es[k].to].at)
  <2> HIDE DEF half, m
  <2> QED BY <1>5, <1>6, <1>7
<1> DEFINE n == 2 * m
           E == StreetEdge(Len(ns))
<1>10. es \in Seq(E)
  <2>1. n \in Nat
    BY <1>1
  <2>2. DOMAIN es = 1 .. n /\ es = [k \in DOMAIN es |-> es[k]]
    BY <1>4
  <2>3. \A k \in 1 .. n : es[k] \in E
    BY <1>9
  <2> HIDE DEF n, E
  <2>4. es \in [1 .. n -> E]
    BY <2>2, <2>3, Zenon
  <2> QED BY <2>1, <2>4
<1>11. \A k \in 1 .. 2 * m : \E l \in 1 .. 2 * m : Opposite(es[k], es[l])
  <2> TAKE k \in 1 .. 2 * m
  <2>1. CASE k % 2 = 1
    <3>1. /\ k + 1 \in 1 .. 2 * m /\ (k + 1) % 2 # 1 /\ half(k + 1) = half(k)
      BY <1>1, <2>1, HalfFacts
    <3> HIDE DEF half, m
    <3>2. es[k] = Edge(half(k), half(k) + 1) /\ es[k + 1] = Edge(half(k) + 1, half(k))
      BY <1>7, <2>1, <3>1
    <3> QED BY <1>5, <1>6, <3>1, <3>2
  <2>2. CASE k % 2 # 1
    <3>1. /\ k - 1 \in 1 .. 2 * m /\ (k - 1) % 2 = 1 /\ half(k - 1) = half(k)
      BY <1>1, <2>2, HalfFacts
    <3> HIDE DEF half, m
    <3>2. es[k] = Edge(half(k) + 1, half(k)) /\ es[k - 1] = Edge(half(k), half(k) + 1)
      BY <1>7, <2>2, <3>1
    <3> QED BY <1>5, <1>6, <3>1, <3>2
  <2> QED BY <2>1, <2>2
<1> HIDE DEF m, half
<1> QED BY <1>8, <1>9, <1>10, <1>11 DEF AreEdges, es, E

(* Edges stay edges when nodes are added, and so do those of two lists.     *)
LEMMA EdgesStay ==
  ASSUME NEW ns, NEW more, ns \in Seq(StreetNode), more \in Seq(StreetNode), GoesOn(ns, more),
         NEW es, AreEdges(es, ns)
  PROVE  AreEdges(es, more)
<1>1. /\ Len(ns) \in Nat /\ DOMAIN ns = 1 .. Len(ns) /\ Len(more) \in Nat
      /\ Len(ns) <= Len(more) /\ \A n \in DOMAIN ns : more[n] = ns[n]
  BY LenProperties DEF GoesOn
<1>2. StreetEdge(Len(ns)) \subseteq StreetEdge(Len(more))
  BY <1>1 DEF StreetEdge
<1>3. es \in Seq(StreetEdge(Len(ns)))
  BY DEF AreEdges
<1>4. es \in Seq(StreetEdge(Len(more)))
  BY <1>2, <1>3, SeqMonotonic
<1>5. \A i \in DOMAIN es : es[i].from \in DOMAIN ns /\ es[i].to \in DOMAIN ns
  <2> TAKE i \in DOMAIN es
  <2>1. es[i] \in StreetEdge(Len(ns))
    BY <1>3, LenProperties, ElementOfSeq
  <2> QED BY <1>1, <2>1 DEF StreetEdge
<1>6. \A i \in DOMAIN es : es[i].length = Dist(more[es[i].from].at, more[es[i].to].at)
  <2> TAKE i \in DOMAIN es
  <2>1. more[es[i].from] = ns[es[i].from] /\ more[es[i].to] = ns[es[i].to]
    BY <1>1, <1>5
  <2> QED BY <2>1 DEF AreEdges
<1> QED BY <1>4, <1>6 DEF AreEdges

LEMMA EdgesJoin ==
  ASSUME NEW ns, NEW es, AreEdges(es, ns), NEW fs, AreEdges(fs, ns)
  PROVE  AreEdges(es \o fs, ns)
<1> DEFINE all == es \o fs
<1>1. es \in Seq(StreetEdge(Len(ns))) /\ fs \in Seq(StreetEdge(Len(ns)))
  BY DEF AreEdges
<1>2. /\ Len(es) \in Nat /\ DOMAIN es = 1 .. Len(es)
      /\ Len(fs) \in Nat /\ DOMAIN fs = 1 .. Len(fs)
  BY <1>1, LenProperties
<1>3. /\ all \in Seq(StreetEdge(Len(ns))) /\ Len(all) = Len(es) + Len(fs)
      /\ \A i \in 1 .. Len(es) + Len(fs) : all[i] = IF i <= Len(es) THEN es[i] ELSE fs[i - Len(es)]
  BY <1>1, ConcatProperties
<1>4. DOMAIN all = 1 .. Len(es) + Len(fs)
  BY <1>3, LenProperties
<1> HIDE DEF all
<1>5. \A i \in DOMAIN all :
        \/ i \in DOMAIN es /\ all[i] = es[i]
        \/ i - Len(es) \in DOMAIN fs /\ all[i] = fs[i - Len(es)]
  BY <1>2, <1>3, <1>4
<1>6. \A i \in DOMAIN es : i \in DOMAIN all /\ all[i] = es[i]
  BY <1>2, <1>3, <1>4
<1>7. \A i \in DOMAIN fs : i + Len(es) \in DOMAIN all /\ all[i + Len(es)] = fs[i]
  BY <1>2, <1>3, <1>4
<1>8. \A i \in DOMAIN all : all[i].length = Dist(ns[all[i].from].at, ns[all[i].to].at)
  BY <1>5 DEF AreEdges
<1>9. \A i \in DOMAIN all : \E j \in DOMAIN all : Opposite(all[i], all[j])
  <2> TAKE i \in DOMAIN all
  <2>1. CASE i \in DOMAIN es /\ all[i] = es[i]
    <3>1. PICK j \in DOMAIN es : Opposite(es[i], es[j])
      BY <2>1 DEF AreEdges
    <3> QED BY <1>6, <2>1, <3>1
  <2>2. CASE i - Len(es) \in DOMAIN fs /\ all[i] = fs[i - Len(es)]
    <3>1. PICK j \in DOMAIN fs : Opposite(fs[i - Len(es)], fs[j])
      BY <2>2 DEF AreEdges
    <3> QED BY <1>7, <2>2, <3>1
  <2> QED BY <1>5, <2>1, <2>2
<1> QED BY <1>3, <1>8, <1>9 DEF AreEdges, all

-----------------------------------------------------------------------------
(* The first so many of the numbers from 1.                                 *)
LEMMA DownClosed ==
  ASSUME NEW n \in Nat, NEW S \in SUBSET (1 .. n),
         \A i \in S : \A j \in 1 .. n : j <= i => j \in S
  PROVE  S = 1 .. Cardinality(S) /\ Cardinality(S) \in 0 .. n
<1>1. CASE S = {}
  <2>1. Cardinality(S) = 0
    BY <1>1, FS_EmptySet
  <2> QED BY <1>1, <2>1
<1>2. CASE S # {}
  <2> DEFINE m == Max(S)
  <2>1. m \in S /\ \A y \in S : y <= m
    BY <1>2, GreatestOf
  <2> HIDE DEF m
  <2>2. m \in 1 .. n
    BY <2>1
  <2>3. S = 1 .. m
    <3>1. \A i \in S : i \in 1 .. m
      BY <2>1, <2>2
    <3>2. \A i \in 1 .. m : i \in S
      <4> TAKE i \in 1 .. m
      <4>1. i \in 1 .. n /\ i <= m
        BY <2>2
      <4> QED BY <2>1, <4>1
    <3> QED BY <3>1, <3>2
  <2>4. Cardinality(1 .. m) = m
    <3>1. Cardinality(1 .. m) = IF 1 > m THEN 0 ELSE m - 1 + 1
      BY <2>2, FS_Interval
    <3> QED BY <2>2, <3>1
  <2> QED BY <2>2, <2>3, <2>4
<1> QED BY <1>1, <1>2

(* The edges that leave a node lie together.                               *)
Packed(es, ns, st) ==
  /\ st \in [1 .. Len(ns) + 1 -> 1 .. Len(es) + 1]
  /\ \A n \in 1 .. Len(ns) :
       /\ st[n] <= st[n + 1]
       /\ \A i \in 1 .. Len(es) : es[i].from = n <=> (st[n] <= i /\ i < st[n + 1])

Starts(es, ns) ==
  [n \in 1 .. (Len(ns) + 1) |-> 1 + Cardinality({i \in DOMAIN es : es[i].from < n})]

ByFrom(es) == SortBy(es, [i \in DOMAIN es |-> es[i].from])

LEMMA PackFacts ==
  ASSUME NEW ns, Len(ns) \in Nat, NEW es \in Seq(StreetEdge(Len(ns)))
  PROVE  /\ Packed(ByFrom(es), ns, Starts(es, ns))
         /\ ByFrom(es) \in Seq(StreetEdge(Len(ns))) /\ Len(ByFrom(es)) = Len(es)
         /\ \A i \in DOMAIN es : \E j \in DOMAIN es : ByFrom(es)[i] = es[j]
         /\ \A i \in DOMAIN es : \E j \in DOMAIN es : ByFrom(es)[j] = es[i]
<1> DEFINE N     == Len(ns)
           L     == Len(es)
           E     == StreetEdge(N)
           key   == [i \in DOMAIN es |-> es[i].from]
           order == InOrder(DOMAIN es, key)
           p     == ByFrom(es)
<1>1. L \in Nat /\ DOMAIN es = 1 .. L /\ \A i \in 1 .. L : es[i] \in E
  BY LenProperties, ElementOfSeq
<1>2. \A i \in 1 .. L : es[i].from \in 1 .. N
  BY <1>1 DEF StreetEdge
<1>3. IsFiniteSet(1 .. L) /\ Cardinality(1 .. L) = L
  <2> HIDE DEF L
  <2>1. /\ IsFiniteSet(1 .. L)
        /\ Cardinality(1 .. L) = IF 1 > L THEN 0 ELSE L - 1 + 1
    BY <1>1, FS_Interval
  <2> QED BY <1>1, <2>1
<1>4. DOMAIN key = 1 .. L /\ \A i \in 1 .. L : key[i] = es[i].from /\ key[i] \in Int
  BY <1>1, <1>2
<1>5. p = [i \in 1 .. L |-> es[order[i]]]
  BY <1>1, Zenon DEF ByFrom, SortBy
<1> HIDE DEF key
<1>6. IsSort(1 .. L, key, order)
  BY <1>1, <1>3, <1>4, InOrderSorts
<1> HIDE DEF L, N, p, E, order
<1>7. /\ order \in [1 .. L -> 1 .. L]
      /\ \A i, j \in 1 .. L : i < j => Before(key, order[i], order[j])
      /\ \A r \in 1 .. L : \E i \in 1 .. L : order[i] = r
  BY <1>3, <1>6 DEF IsSort
<1>8. \A i \in 1 .. L : p[i] = es[order[i]] /\ order[i] \in 1 .. L
  BY <1>5, <1>7
<1>9. DOMAIN p = 1 .. L /\ p \in [1 .. L -> E]
  BY <1>1, <1>5, <1>8
<1>10. p \in Seq(E) /\ Len(p) = L
  <2>1. p \in Seq(E)
    BY <1>1, <1>9
  <2> QED BY <1>1, <1>9, <2>1, LenProperties
<1>11. \A i, j \in 1 .. L : i < j => p[i].from <= p[j].from
  <2> SUFFICES ASSUME NEW i \in 1 .. L, NEW j \in 1 .. L, i < j PROVE p[i].from <= p[j].from
    OBVIOUS
  <2>1. Before(key, order[i], order[j])
    BY <1>7
  <2>2. key[order[i]] = p[i].from /\ key[order[j]] = p[j].from
    BY <1>4, <1>8
  <2>3. p[i].from \in 1 .. N /\ p[j].from \in 1 .. N
    BY <1>2, <1>8
  <2> QED BY <2>1, <2>2, <2>3 DEF Before
<1> DEFINE A(n) == {i \in 1 .. L : es[i].from < n}
           B(n) == {i \in 1 .. L : p[i].from < n}
           c(n) == Cardinality(A(n))
<1>12. ASSUME NEW n \in 1 .. N + 1
       PROVE  B(n) = 1 .. c(n) /\ c(n) \in 0 .. L
  <2> DEFINE f == [i \in B(n) |-> order[i]]
  <2>1. f \in [B(n) -> A(n)]
    BY <1>8
  <2>2. \A x, y \in B(n) : f[x] = f[y] => x = y
    <3> SUFFICES ASSUME NEW x \in 1 .. L, NEW y \in 1 .. L, order[x] = order[y]
                 PROVE  x = y
      OBVIOUS
    <3>1. order[x] \in 1 .. L /\ key[order[x]] \in Int
      BY <1>4, <1>7
    <3>2. ~Before(key, order[x], order[x])
      BY <3>1 DEF Before
    <3>3. ~(x < y) /\ ~(y < x)
      BY <1>7, <3>2
    <3> QED BY <3>3
  <2>3. \A r \in A(n) : \E i \in B(n) : f[i] = r
    <3> TAKE r \in A(n)
    <3>1. PICK i \in 1 .. L : order[i] = r
      BY <1>7
    <3>2. i \in B(n)
      BY <1>8, <3>1
    <3> QED BY <3>1, <3>2
  <2>4. f \in Bijection(B(n), A(n))
    <3> HIDE DEF f, A, B
    <3>1. f \in Surjection(B(n), A(n))
      BY <2>1, <2>3, Zenon DEF Surjection
    <3>2. f \in Injection(B(n), A(n))
      BY <2>1, <2>2, Zenon DEF Injection, IsInjective
    <3> QED BY <3>1, <3>2 DEF Bijection
  <2>5. IsFiniteSet(B(n))
    <3>1. B(n) \in SUBSET (1 .. L)
      OBVIOUS
    <3> QED BY <1>3, <3>1, FS_Subset
  <2>6. Cardinality(B(n)) = c(n)
    <3> HIDE DEF f, A, B
    <3> QED BY <2>4, <2>5, FS_Bijection DEF ExistsBijection
  <2>7. \A i \in B(n) : \A j \in 1 .. L : j <= i => j \in B(n)
    <3> SUFFICES ASSUME NEW i \in 1 .. L, p[i].from < n, NEW j \in 1 .. L, j <= i
                 PROVE  p[j].from < n
      OBVIOUS
    <3>1. p[i].from \in 1 .. N /\ p[j].from \in 1 .. N
      BY <1>2, <1>8
    <3>2. p[j].from <= p[i].from
      BY <1>11, <3>1
    <3> QED BY <3>1, <3>2
  <2>8. B(n) \in SUBSET (1 .. L)
    OBVIOUS
  <2> HIDE DEF B, c
  <2>9. B(n) = 1 .. Cardinality(B(n)) /\ Cardinality(B(n)) \in 0 .. L
    BY <1>1, <2>7, <2>8, DownClosed
  <2> QED BY <2>6, <2>9
<1>13. N \in Nat
  BY DEF N
<1> DEFINE st == Starts(es, ns)
<1>14. DOMAIN st = 1 .. N + 1 /\ \A n \in 1 .. N + 1 : st[n] = 1 + c(n)
  BY <1>1 DEF Starts, N
<1> HIDE DEF st, c
<1>15. st \in [1 .. N + 1 -> 1 .. L + 1]
  <2>1. \A n \in 1 .. N + 1 : st[n] \in 1 .. L + 1
    BY <1>1, <1>12, <1>14
  <2>2. st = [n \in 1 .. N + 1 |-> st[n]]
    BY <1>14 DEF st, Starts, N
  <2> QED BY <2>1, <2>2, Zenon
<1>16. ASSUME NEW n \in 1 .. N
       PROVE  /\ st[n] <= st[n + 1]
              /\ \A i \in 1 .. L : p[i].from = n <=> st[n] <= i /\ i < st[n + 1]
  <2>1. n \in 1 .. N + 1 /\ n + 1 \in 1 .. N + 1
    BY <1>13
  <2> DEFINE a == c(n)
             b == c(n + 1)
  <2>2. /\ B(n) = 1 .. a /\ a \in 0 .. L /\ B(n + 1) = 1 .. b /\ b \in 0 .. L
        /\ st[n] = 1 + a /\ st[n + 1] = 1 + b
    BY <1>12, <1>14, <2>1
  <2> HIDE DEF a, b
  <2>3. \A i \in 1 .. L : p[i].from \in 1 .. N
    BY <1>2, <1>8
  <2>4. \A i \in 1 .. L : (p[i].from < n <=> i <= a) /\ (p[i].from < n + 1 <=> i <= b)
    <3> TAKE i \in 1 .. L
    <3>1. p[i].from < n <=> i \in 1 .. a
      BY <2>2
    <3>2. p[i].from < n + 1 <=> i \in 1 .. b
      BY <2>2
    <3> QED BY <2>2, <3>1, <3>2
  <2> HIDE DEF B
  <2>5. a <= b
    <3> SUFFICES ASSUME b < a PROVE FALSE
      BY <2>2
    <3>1. a \in 1 .. L
      BY <1>1, <2>2
    <3>2. p[a].from < n /\ ~(p[a].from < n + 1) /\ p[a].from \in 1 .. N
      BY <2>2, <2>3, <2>4, <3>1
    <3> QED BY <3>2
  <2>6. \A i \in 1 .. L : p[i].from = n <=> 1 + a <= i /\ i < 1 + b
    <3> TAKE i \in 1 .. L
    <3>1. p[i].from \in 1 .. N
      BY <2>3
    <3>2. p[i].from = n <=> ~(p[i].from < n) /\ p[i].from < n + 1
      BY <3>1
    <3> QED BY <2>2, <2>4, <3>2
  <2> QED BY <2>2, <2>5, <2>6
<1>17. Packed(p, ns, st)
  BY <1>10, <1>15, <1>16 DEF Packed, N
<1>18. \A i \in 1 .. L : \E j \in 1 .. L : p[i] = es[j]
  BY <1>8
<1>19. \A i \in 1 .. L : \E j \in 1 .. L : p[j] = es[i]
  <2> TAKE i \in 1 .. L
  <2>1. PICK j \in 1 .. L : order[j] = i
    BY <1>7
  <2> QED BY <1>8, <2>1
<1> QED BY <1>1, <1>10, <1>17, <1>18, <1>19 DEF p, st, E, N, L

LEMMA PackKeeps ==
  ASSUME NEW ns, Len(ns) \in Nat, NEW es, AreEdges(es, ns)
  PROVE  AreEdges(ByFrom(es), ns) /\ Packed(ByFrom(es), ns, Starts(es, ns))
<1> DEFINE p == ByFrom(es)
<1>1. es \in Seq(StreetEdge(Len(ns)))
  BY DEF AreEdges
<1>2. /\ Packed(p, ns, Starts(es, ns))
      /\ p \in Seq(StreetEdge(Len(ns))) /\ Len(p) = Len(es)
      /\ \A i \in DOMAIN es : \E j \in DOMAIN es : p[i] = es[j]
      /\ \A i \in DOMAIN es : \E j \in DOMAIN es : p[j] = es[i]
  BY <1>1, PackFacts
<1> HIDE DEF p
<1>3. DOMAIN p = DOMAIN es
  BY <1>1, <1>2, LenProperties
<1>4. \A i \in DOMAIN p : p[i].length = Dist(ns[p[i].from].at, ns[p[i].to].at)
  <2> TAKE i \in DOMAIN p
  <2>1. PICK j \in DOMAIN es : p[i] = es[j]
    BY <1>2, <1>3
  <2>2. es[j].length = Dist(ns[es[j].from].at, ns[es[j].to].at)
    BY DEF AreEdges
  <2> QED BY <2>1, <2>2
<1>5. \A i \in DOMAIN p : \E j \in DOMAIN p : Opposite(p[i], p[j])
  <2> TAKE i \in DOMAIN p
  <2>1. PICK k \in DOMAIN es : p[i] = es[k]
    BY <1>2, <1>3
  <2>2. PICK l \in DOMAIN es : Opposite(es[k], es[l])
    BY DEF AreEdges
  <2>3. PICK j \in DOMAIN es : p[j] = es[l]
    BY <1>2
  <2> QED BY <1>3, <2>1, <2>2, <2>3
<1> QED BY <1>2, <1>4, <1>5 DEF AreEdges, p

-----------------------------------------------------------------------------
(* The graph is built, stretch by stretch.                                  *)
GraphInv ==
  /\ phase \in {"reading", "building", "ready", "asked", "searching", "found", "answered"}
  /\ ReaderInv
  /\ phase = "reading" => ways = <<>> /\ nodes = <<>> /\ edges = <<>>
  /\ ways \in Seq(OsmWay)
  /\ AreNodes(nodes) /\ AreEdges(edges, nodes)
  /\ Built => Packed(edges, nodes, start)

LEMMA NoGraph ==
  ASSUME TRUE
  PROVE  /\ <<>> \in Seq(OsmWay) /\ AreNodes(<<>>) /\ AreEdges(<<>>, <<>>)
<1>1. \A S : <<>> \in Seq(S)
  BY EmptySeq
<1>2. DOMAIN <<>> = {}
  OBVIOUS
<1> QED BY <1>1, <1>2 DEF AreNodes, AreEdges

LEMMA AddWayKeeps ==
  ASSUME GraphInv, AddWay, UNCHANGED document
  PROVE  GraphInv'
<1> DEFINE way    == Head(ways)
           missing == {i \in 1 .. Len(way.nodes) : ~Known(way.nodes[i])}
           gap    == SelectInSeq(way.nodes, LAMBDA id : ~Known(id))
           before == IF gap = 0 THEN way.nodes ELSE SubSeq(way.nodes, 1, gap - 1)
           all    == RegisterAll(nodes, before)
           more   == IF gap = 0 THEN edges \o Stretches(way, all) ELSE edges
<1>1. /\ phase = "building" /\ phase' = phase /\ ways # <<>> /\ ways' = Tail(ways)
      /\ nodes' = all /\ edges' = more
      /\ osm' = osm /\ unread' = unread /\ ctx' = ctx /\ document' = document
      /\ Len(way.nodes) >= 2
  BY DEF AddWay, readerVars, Usable
<1>2. /\ ReaderInv /\ osm \in OsmDoc /\ ways \in Seq(OsmWay)
      /\ AreNodes(nodes) /\ AreEdges(edges, nodes)
  BY DEF GraphInv, ReaderInv
<1>3. way \in OsmWay /\ Tail(ways) \in Seq(OsmWay)
  BY <1>1, <1>2, HeadTailProperties
<1>4. way.nodes \in Seq(Int)
  BY <1>3 DEF OsmWay
<1>5. Len(way.nodes) \in Nat /\ DOMAIN way.nodes = 1 .. Len(way.nodes)
  BY <1>4, LenProperties
<1>6. gap = IF missing # {} THEN Min(missing) ELSE 0
  BY DEF SelectInSeq
<1> HIDE DEF way, gap
<1>7. missing # {} => gap \in missing /\ \A i \in missing : gap <= i
  <2>1. missing \in SUBSET Nat
    OBVIOUS
  <2> HIDE DEF missing
  <2> QED BY <1>6, <2>1, LeastOf
<1>8. /\ before \in Seq(Int) /\ \A i \in DOMAIN before : Known(before[i])
      /\ gap = 0 => before = way.nodes
  <2>1. CASE missing = {}
    <3>1. gap = 0 /\ before = way.nodes
      BY <1>6, <2>1
    <3> QED BY <1>4, <1>5, <2>1, <3>1
  <2>2. CASE missing # {}
    <3>1. gap \in 1 .. Len(way.nodes) /\ \A i \in 1 .. Len(way.nodes) : i < gap => Known(way.nodes[i])
      BY <1>5, <1>7, <2>2
    <3>2. gap # 0 /\ before = SubSeq(way.nodes, 1, gap - 1)
      BY <3>1
    <3> HIDE DEF before
    <3>3. /\ before \in Seq(Int) /\ Len(before) = gap - 1
          /\ \A i \in 1 .. gap - 1 : before[i] = way.nodes[i]
      <4>1. \A i \in 1 .. gap - 1 : i \in 1 .. Len(way.nodes)
        BY <1>5, <3>1
      <4>2. \A i \in 1 .. gap - 1 : way.nodes[i] \in Int
        BY <1>4, <1>5, <4>1, ElementOfSeq
      <4>3. before = [i \in 1 .. gap - 1 |-> way.nodes[i]]
        BY <1>4, <3>1, <3>2
      <4>4. gap - 1 \in Nat
        BY <3>1
      <4>5. before \in [1 .. gap - 1 -> Int]
        BY <4>2, <4>3
      <4> HIDE DEF missing
      <4>6. before \in Seq(Int) /\ Len(before) = gap - 1
        BY <4>4, <4>5
      <4> QED BY <4>3, <4>6
    <3>4. DOMAIN before = 1 .. gap - 1
      BY <3>3, LenProperties
    <3>5. \A i \in 1 .. gap - 1 : i \in 1 .. Len(way.nodes) /\ i < gap
      BY <1>5, <3>1
    <3> QED BY <3>1, <3>2, <3>3, <3>4, <3>5
  <2> QED BY <2>1, <2>2
<1> HIDE DEF before, missing
<1>9. /\ AreNodes(all) /\ GoesOn(nodes, all)
      /\ \A i \in DOMAIN before : Has(all, before[i])
  BY <1>2, <1>8, RegisterAllFacts
<1> HIDE DEF all
<1>10. AreEdges(edges, all)
  BY <1>2, <1>9, EdgesStay DEF AreNodes
<1>11. AreEdges(more, all)
  <2>1. CASE gap = 0
    <3>1. \A i \in DOMAIN way.nodes : Known(way.nodes[i]) /\ Has(all, way.nodes[i])
      BY <1>8, <1>9, <2>1
    <3>2. AreEdges(Stretches(way, all), all)
      BY <1>1, <1>2, <1>4, <1>9, <3>1, StretchesFacts
    <3> QED BY <1>10, <2>1, <3>2, EdgesJoin
  <2>2. CASE gap # 0
    BY <1>10, <2>2
  <2> QED BY <2>1, <2>2
<1> HIDE DEF more
<1>12. ReaderInv'
  BY <1>1, <1>2 DEF ReaderInv
<1>13. AreNodes(nodes)'
  BY <1>1, <1>9 DEF AreNodes
<1>14. AreEdges(edges, nodes)'
  BY <1>1, <1>11
<1> QED BY <1>1, <1>3, <1>12, <1>13, <1>14 DEF GraphInv, Built

LEMMA BuildKeeps ==
  ASSUME GraphInv, Build
  PROVE  GraphInv'
<1>1. UNCHANGED document
  BY DEF Build, askedVars
<1>2. /\ ReaderInv /\ osm \in OsmDoc /\ ways \in Seq(OsmWay)
      /\ AreNodes(nodes) /\ AreEdges(edges, nodes)
  BY DEF GraphInv, ReaderInv
<1>3. CASE ReadTag /\ UNCHANGED graphVars
  <2>1. ReaderInv'
    BY <1>1, <1>2, <1>3, ReadKeeps
  <2>2. /\ phase' = "reading" /\ ways' = <<>> /\ nodes' = <<>> /\ edges' = <<>>
    BY <1>3 DEF ReadTag, graphVars, GraphInv
  <2>3. AreNodes(nodes)' /\ AreEdges(edges, nodes)' /\ ways' \in Seq(OsmWay)
    <3>1. AreNodes(<<>>)'
      BY DEF AreNodes
    <3> QED BY <2>2, <3>1, NoGraph DEF AreNodes
  <2> QED BY <2>1, <2>2, <2>3 DEF GraphInv, Built
<1>4. CASE StartBuilding
  <2>1. /\ phase' = "building" /\ ways' = osm.ways /\ UNCHANGED <<unread, ctx, osm, nodes, edges>>
    BY <1>4 DEF StartBuilding, readerVars
  <2>2. ways' \in Seq(OsmWay)
    BY <1>2, <2>1 DEF OsmDoc
  <2>3. ReaderInv' /\ AreNodes(nodes)' /\ AreEdges(edges, nodes)'
    BY <1>1, <1>2, <2>1 DEF ReaderInv, AreNodes
  <2> QED BY <2>1, <2>2, <2>3 DEF GraphInv, Built
<1>5. CASE PassOver
  <2>1. /\ phase = "building" /\ phase' = phase /\ ways # <<>> /\ ways' = Tail(ways)
        /\ UNCHANGED <<unread, ctx, osm, nodes, edges>>
    BY <1>5 DEF PassOver, readerVars
  <2>2. ways' \in Seq(OsmWay)
    BY <1>2, <2>1, HeadTailProperties
  <2>3. ReaderInv' /\ AreNodes(nodes)' /\ AreEdges(edges, nodes)'
    BY <1>1, <1>2, <2>1 DEF ReaderInv, AreNodes
  <2> QED BY <2>1, <2>2, <2>3 DEF GraphInv, Built
<1>6. CASE AddWay
  BY <1>1, <1>6, AddWayKeeps
<1>7. CASE Pack
  <2>1. /\ phase' = "ready" /\ UNCHANGED <<unread, ctx, osm, ways, nodes>>
        /\ edges' = ByFrom(edges) /\ start' = Starts(edges, nodes)
    BY <1>7 DEF Pack, readerVars, ByFrom, Starts
  <2>2. Len(nodes) \in Nat
    BY <1>2, LenProperties DEF AreNodes
  <2>3. AreEdges(ByFrom(edges), nodes) /\ Packed(ByFrom(edges), nodes, Starts(edges, nodes))
    BY <1>2, <2>2, PackKeeps
  <2>4. AreEdges(edges, nodes)' /\ Packed(edges, nodes, start)'
    BY <2>1, <2>3
  <2>5. ReaderInv' /\ AreNodes(nodes)' /\ ways' \in Seq(OsmWay)
    BY <1>1, <1>2, <2>1 DEF ReaderInv, AreNodes
  <2> QED BY <2>1, <2>4, <2>5 DEF GraphInv
<1> QED BY <1>3, <1>4, <1>5, <1>6, <1>7 DEF Build

-----------------------------------------------------------------------------
(* What is known of the state once a query is made of a graph.              *)
IsAsked(q, ss, gs) ==
  /\ q \in QueriesOn(document)
  /\ ss = Snap(q.from)
  /\ gs = [t \in DOMAIN q.targets |-> Snap(q.targets[t])]

Asked == phase \in {"asked", "searching", "found", "answered"}

LEMMA GraphFacts ==
  ASSUME GraphInv
  PROVE  /\ document \in Documents
         /\ Len(nodes) \in Nat /\ Nodes = 1 .. Len(nodes)
         /\ Len(edges) \in Nat /\ DOMAIN edges = 1 .. Len(edges)
         /\ \A n \in Nodes : PlaceOf(n) \in Place
         /\ \A i \in DOMAIN edges : /\ edges[i] \in StreetEdge(Len(nodes))
                                    /\ edges[i].from \in Nodes /\ edges[i].to \in Nodes
                                    /\ edges[i].length
                                         = Dist(PlaceOf(edges[i].from), PlaceOf(edges[i].to))
                                    /\ edges[i].length \in Nat /\ edges[i].attrs \in Attrs
         /\ \A i \in DOMAIN edges : \E j \in DOMAIN edges : Opposite(edges[i], edges[j])
<1>1. AreNodes(nodes) /\ AreEdges(edges, nodes) /\ document \in Documents
  BY DEF GraphInv, ReaderInv
<1>2. nodes \in Seq(StreetNode) /\ edges \in Seq(StreetEdge(Len(nodes)))
  BY <1>1 DEF AreNodes, AreEdges
<1>3. /\ Len(nodes) \in Nat /\ Nodes = 1 .. Len(nodes)
      /\ Len(edges) \in Nat /\ DOMAIN edges = 1 .. Len(edges)
  BY <1>2, LenProperties DEF Nodes
<1>4. \A n \in Nodes : PlaceOf(n) \in Place
  <2> TAKE n \in Nodes
  <2>1. nodes[n] \in StreetNode
    BY <1>2, <1>3, ElementOfSeq
  <2> QED BY <2>1 DEF StreetNode, PlaceOf
<1>5. \A i \in DOMAIN edges : edges[i] \in StreetEdge(Len(nodes))
  BY <1>2, <1>3, ElementOfSeq
<1>6. \A i \in DOMAIN edges : /\ edges[i].from \in Nodes /\ edges[i].to \in Nodes
                              /\ edges[i].length \in Nat /\ edges[i].attrs \in Attrs
  BY <1>3, <1>5 DEF StreetEdge
<1>7. \A i \in DOMAIN edges : edges[i].length
                                = Dist(PlaceOf(edges[i].from), PlaceOf(edges[i].to))
  BY <1>1 DEF AreEdges, PlaceOf
<1>8. \A i \in DOMAIN edges : \E j \in DOMAIN edges : Opposite(edges[i], edges[j])
  BY <1>1 DEF AreEdges
<1> QED BY <1>1, <1>3, <1>4, <1>5, <1>6, <1>7, <1>8

LEMMA QueryFacts ==
  ASSUME document \in Documents, NEW q \in QueriesOn(document)
  PROVE  /\ q.from \in Place /\ q.kind \in Kinds
         /\ q.targets \in Seq(Place) /\ DOMAIN q.targets = 1 .. Len(q.targets)
         /\ Len(q.targets) \in Nat
         /\ \A u \in DOMAIN q.targets : q.targets[u] \in Place
         /\ q.kind = "route" => DOMAIN q.targets = {1}
         /\ q.profile.stairs \in Nat \ {0} /\ q.profile.unknown \in Nat \ {0}
         /\ q.profile.slope \in Nat /\ q.profile.forbid \in BOOLEAN
<1>1. IsQuery(q)
  BY QueriesAssumption
<1>2. /\ q.from \in Place /\ q.kind \in Kinds /\ q.targets \in Seq(Place)
      /\ q.profile \in Profiles /\ (q.kind = "route" => Len(q.targets) = 1)
  BY <1>1, Zenon DEF IsQuery, Place
<1>3. Len(q.targets) \in Nat /\ DOMAIN q.targets = 1 .. Len(q.targets)
  BY <1>2, LenProperties
<1>4. \A u \in DOMAIN q.targets : q.targets[u] \in Place
  BY <1>2, <1>3, ElementOfSeq
<1>5. q.profile \in [stairs : Nat \ {0}, unknown : Nat \ {0}, slope : Nat, forbid : BOOLEAN]
  BY <1>2, ProfilesAssumption
<1>6. q.kind = "route" => DOMAIN q.targets = {1}
  <2> HAVE q.kind = "route"
  <2>1. Len(q.targets) = 1
    BY <1>2
  <2>2. 1 .. 1 = {1}
    OBVIOUS
  <2> QED BY <1>3, <2>1, <2>2
<1> QED BY <1>2, <1>3, <1>4, <1>5, <1>6

(* The greatest of a finite set of numbers, of two, and of nought and others. *)
LEMMA GreatestIs ==
  ASSUME NEW S \in SUBSET Int, NEW m \in S, \A y \in S : y <= m
  PROVE  Max(S) \in S /\ \A y \in S : y <= Max(S)
<1>1. \A y \in S : m >= y
  OBVIOUS
<1>2. Max(S) \in S /\ \A y \in S : Max(S) >= y
  BY <1>1 DEF Max
<1>3. Max(S) \in Int /\ \A y \in S : y \in Int
  BY <1>2
<1> QED BY <1>2, <1>3

LEMMA GreaterOf ==
  ASSUME NEW a \in Nat, NEW b \in Int
  PROVE  /\ Max({a, b}) \in Nat /\ Max({a, b}) >= a /\ Max({a, b}) >= b
         /\ Max({a, b}) = a \/ Max({a, b}) = b
<1> DEFINE S == {a, b}
<1>1. S \in SUBSET Int /\ \E m \in S : \A y \in S : y <= m
  <2>1. CASE a <= b
    <3>1. \A y \in S : y <= b
      BY <2>1
    <3> QED BY <3>1
  <2>2. CASE b <= a
    <3>1. \A y \in S : y <= a
      BY <2>2
    <3> QED BY <3>1
  <2> QED BY <2>1, <2>2
<1>2. Max(S) \in S /\ \A y \in S : y <= Max(S)
  <2> HIDE DEF S
  <2> QED BY <1>1, GreatestIs
<1>3. Max({a, b}) \in {a, b} /\ a <= Max({a, b}) /\ b <= Max({a, b})
  BY <1>2
<1> QED BY <1>3

LEMMA GreatestAdded ==
  ASSUME NEW T, IsFiniteSet(T), NEW f, \A x \in T : f[x] \in Int
  PROVE  LET m == Max({0} \cup {f[x] : x \in T})
         IN  m \in Nat /\ \A x \in T : f[x] <= m
<1> DEFINE S == {0} \cup {f[x] : x \in T}
           h == [x \in T |-> f[x]]
<1>1. S \in SUBSET Int /\ 0 \in S /\ \A x \in T : f[x] \in S /\ f[x] = h[x]
  OBVIOUS
<1>2. h \in [T -> Int]
  OBVIOUS
<1>3. \A y \in S : y = 0 \/ \E x \in T : y = f[x]
  OBVIOUS
<1> HIDE DEF h, S
<1>4. \E m \in S : \A y \in S : y <= m
  <2>1. CASE T = {}
    <3>1. \A y \in S : y <= 0
      BY <1>3, <2>1
    <3> QED BY <1>1, <3>1
  <2>2. CASE T # {}
    <3>1. Facts!IsFiniteSet(T)
      BY DEF IsFiniteSet, Facts!IsFiniteSet
    <3>2. PICK i \in T : \A j \in T : h[j] <= h[i]
      BY <1>2, <2>2, <3>1, Facts!GreatestValue
    <3>3. CASE f[i] >= 0
      <4>1. \A y \in S : y <= f[i]
        BY <1>1, <1>3, <3>2, <3>3
      <4> QED BY <1>1, <4>1
    <3>4. CASE ~(f[i] >= 0)
      <4>1. f[i] \in Int /\ f[i] <= 0
        BY <3>4
      <4>2. \A y \in S : y <= 0
        <5> TAKE y \in S
        <5>1. CASE y = 0
          BY <5>1
        <5>2. CASE y # 0
          <6>1. PICK x \in T : y = f[x]
            BY <1>3, <5>2
          <6>2. f[x] \in Int /\ f[x] <= f[i]
            BY <1>1, <3>2
          <6> QED BY <4>1, <6>1, <6>2
        <5> QED BY <5>1, <5>2
      <4> QED BY <1>1, <4>2
    <3> QED BY <3>3, <3>4
  <2> QED BY <2>1, <2>2
<1>5. Max(S) \in S /\ \A y \in S : y <= Max(S)
  BY <1>1, <1>4, GreatestIs
<1>6. Max(S) \in Int /\ 0 <= Max(S) /\ \A x \in T : f[x] <= Max(S)
  BY <1>1, <1>5
<1> QED BY <1>6 DEF S

(* A product is not less than a factor when the other is one at least.      *)
LEMMA TimesMore ==
  ASSUME NEW a \in Nat, NEW b \in Nat \ {0}
  PROVE  a * b \in Nat /\ a <= a * b
<1>1. a * b = a + a * (b - 1) /\ a * (b - 1) >= 0
  OBVIOUS
<1> QED BY <1>1

LEMMA TimesAsMuch ==
  ASSUME NEW a \in Nat, NEW b \in Nat, NEW c \in Nat, a <= b
  PROVE  a * c \in Nat /\ a * c <= b * c
<1>1. b * c = a * c + (b - a) * c /\ (b - a) * c >= 0 /\ a * c >= 0
  OBVIOUS
<1> QED BY <1>1

(* No edge costs less than it is long, and its like costs the same.         *)
LEMMA EdgeCostFacts ==
  ASSUME NEW e, e.length \in Nat, e.attrs \in Attrs,
         NEW p, p.stairs \in Nat \ {0}, p.unknown \in Nat \ {0}, p.slope \in Nat
  PROVE  EdgeCost(e, p) \in Nat /\ e.length <= EdgeCost(e, p)
<1> DEFINE a == IF e.attrs.stairs THEN p.stairs ELSE 1
           b == CASE e.attrs.wheelchair = "no"      -> Max({p.stairs, 2})
                  [] e.attrs.wheelchair = "unknown" -> p.unknown
                  [] OTHER                          -> 1
           x == Max({0, e.attrs.slope - p.slope})
           l == e.length
<1>1. a \in Nat \ {0}
  OBVIOUS
<1>2. b \in Nat \ {0}
  <2>1. Max({p.stairs, 2}) \in Nat \ {0}
    BY GreaterOf
  <2> QED BY <2>1
<1>3. x \in Nat
  <2>1. e.attrs.slope \in Nat
    BY DEF Attrs
  <2> QED BY <2>1, GreaterOf
<1>4. EdgeCost(e, p) = (l * a * b * (10 + x)) \div 10
  BY Zenon DEF EdgeCost
<1> HIDE DEF a, b, x, l
<1>5. l \in Nat
  BY DEF l
<1>6. l * a \in Nat /\ l <= l * a
  BY <1>1, <1>5, TimesMore
<1> DEFINE y == l * a
<1>7. y * b \in Nat /\ y <= y * b
  BY <1>2, <1>6, TimesMore
<1> DEFINE z == y * b
<1>8. y \in Nat /\ l <= y
  BY <1>6
<1> HIDE DEF y
<1>9. z \in Nat /\ l <= z
  BY <1>5, <1>7, <1>8
<1>10. EdgeCost(e, p) = (z * (10 + x)) \div 10
  BY <1>4 DEF y
<1> HIDE DEF z
<1>11. z * (10 + x) = 10 * z + z * x /\ z * x \in Nat
  BY <1>3, <1>9
<1> DEFINE w == z * x
<1>12. EdgeCost(e, p) = (10 * z + w) \div 10 /\ w \in Nat
  BY <1>10, <1>11
<1> HIDE DEF w
<1> QED BY <1>5, <1>9, <1>12 DEF l

(* What is snapped to: nodes, and each within the radius if there are more.  *)
LEMMA WithinFacts ==
  ASSUME GraphInv, NEW p \in Place
  PROVE  /\ WithinRadius(p) \in Seq(Nodes)
         /\ \A c \in ToSet(WithinRadius(p)) : Dist(p, PlaceOf(c)) <= SnapRadius
<1> DEFINE last  == Min({r \in 0..MaxRing : r * Cell * Safety > 100 * SnapRadius} \cup {MaxRing})
           found == {n \in Visited(p, last) : Dist(p, PlaceOf(n)) <= SnapRadius}
           key   == [n \in found |-> Dist(p, PlaceOf(n))]
           order == InOrder(found, key)
           most  == Min({SnapMax, Cardinality(found)})
           W     == [k \in 1..most |-> order[k]]
<1>1. WithinRadius(p) = IF Nodes = {} THEN <<>> ELSE W
  BY Zenon DEF WithinRadius
<1>2. found \subseteq Nodes /\ \A n \in found : Dist(p, PlaceOf(n)) <= SnapRadius
  BY DEF Visited
<1> HIDE DEF found
<1>3. Nodes = 1 .. Len(nodes) /\ Len(nodes) \in Nat /\ \A n \in Nodes : PlaceOf(n) \in Place
  BY GraphFacts
<1>4. IsFiniteSet(found) /\ found \subseteq Int
  <2>1. IsFiniteSet(1 .. Len(nodes))
    BY <1>3, FS_Interval
  <2>2. found \subseteq 1 .. Len(nodes) /\ found \subseteq Int
    BY <1>2, <1>3
  <2> QED BY <2>1, <2>2, FS_Subset
<1>5. \A n \in found : key[n] \in Int
  <2> TAKE n \in found
  <2>1. Dist(p, PlaceOf(n)) \in Nat
    BY <1>2, <1>3, DistFacts
  <2> QED BY <2>1
<1> HIDE DEF key
<1>6. IsSort(found, key, order)
  BY <1>4, <1>5, InOrderSorts
<1> HIDE DEF order
<1>7. Cardinality(found) \in Nat /\ order \in [1 .. Cardinality(found) -> found]
  BY <1>6 DEF IsSort
<1>8. most \in Nat /\ most <= Cardinality(found)
  BY <1>7, LesserOf, GridAssumption
<1> HIDE DEF most
<1>9. \A k \in 1 .. most : order[k] \in found
  BY <1>7, <1>8
<1>10. W \in [1 .. most -> found]
  BY <1>9
<1> HIDE DEF W
<1>11. W \in Seq(found)
  BY <1>8, <1>10
<1>12. W \in Seq(Nodes) /\ ToSet(W) \subseteq found
  <2>1. W \in [1 .. most -> Nodes]
    BY <1>2, <1>10
  <2>2. ToSet(W) \subseteq found
    BY <1>10 DEF ToSet
  <2> QED BY <1>8, <2>1, <2>2
<1>13. <<>> \in Seq(Nodes) /\ ToSet(<<>>) = {}
  BY DEF ToSet
<1> QED BY <1>1, <1>2, <1>12, <1>13

LEMMA SnapFacts ==
  ASSUME GraphInv, NEW p \in Place
  PROVE  /\ Snap(p) \in Seq(Nodes)
         /\ \A c \in ToSet(Snap(p)) : \/ Dist(p, PlaceOf(c)) <= SnapRadius
                                      \/ ToSet(Snap(p)) = {c}
<1>1. CASE WithinRadius(p) # <<>>
  <2>1. Snap(p) = WithinRadius(p)
    BY <1>1 DEF Snap
  <2> QED BY <2>1, WithinFacts
<1>2. CASE WithinRadius(p) = <<>> /\ Nearest(p) # {}
  <2> DEFINE c == CHOOSE n \in Nearest(p) : TRUE
  <2>1. c \in Nearest(p) /\ Snap(p) = <<c>>
    BY <1>2 DEF Snap
  <2>2. Nearest(p) \subseteq Nodes
    BY DEF Nearest, NearestOf, Visited
  <2> HIDE DEF c
  <2>3. Snap(p) \in Seq(Nodes) /\ ToSet(Snap(p)) = {c}
    BY <2>1, <2>2 DEF ToSet
  <2> QED BY <2>3
<1>3. CASE WithinRadius(p) = <<>> /\ Nearest(p) = {}
  <2>1. Snap(p) = <<>>
    BY <1>3 DEF Snap
  <2> QED BY <2>1 DEF ToSet
<1> QED BY <1>1, <1>2, <1>3

LEMMA OffsetType ==
  ASSUME GraphInv, NEW p \in Place, NEW n \in Nodes
  PROVE  Dist(p, PlaceOf(n)) \in Nat /\ Offset(p, n) \in Nat
<1>1. PlaceOf(n) \in Place
  BY GraphFacts
<1>2. Dist(p, PlaceOf(n)) \in Nat
  BY <1>1, DistFacts
<1> DEFINE d == Dist(p, PlaceOf(n))
<1>3. Offset(p, n) = d * Reluctance
  BY DEF Offset
<1> HIDE DEF d
<1> QED BY <1>2, <1>3, CostsAssumption DEF d

LEMMA CostFacts ==
  ASSUME GraphInv, query \in QueriesOn(document), NEW i \in DOMAIN edges
  PROVE  CostOf(i) \in Nat /\ edges[i].length <= CostOf(i)
<1>1. edges[i].length \in Nat /\ edges[i].attrs \in Attrs
  BY GraphFacts
<1>2. /\ query.profile.stairs \in Nat \ {0} /\ query.profile.unknown \in Nat \ {0}
      /\ query.profile.slope \in Nat
  BY QueryFacts DEF GraphInv, ReaderInv
<1> QED BY <1>1, <1>2, EdgeCostFacts DEF CostOf

LEMMA AskedFacts ==
  ASSUME GraphInv, IsAsked(query, sources, goals)
  PROVE  /\ query.from \in Place
         /\ Targets = DOMAIN query.targets
         /\ query.kind = "route" => Targets = {1}
         /\ \A t \in Targets : query.targets[t] \in Place
         /\ sources \in Seq(Nodes) /\ Sources \subseteq Nodes
         /\ \A t \in Targets : goals[t] \in Seq(Nodes) /\ Goals(t) \subseteq Nodes
<1>1. /\ query \in QueriesOn(document) /\ sources = Snap(query.from)
      /\ goals = [t \in DOMAIN query.targets |-> Snap(query.targets[t])]
      /\ document \in Documents
  BY DEF IsAsked, GraphInv, ReaderInv
<1>2. /\ query.from \in Place /\ \A t \in DOMAIN query.targets : query.targets[t] \in Place
      /\ query.kind = "route" => DOMAIN query.targets = {1}
  BY <1>1, QueryFacts
<1>3. Targets = DOMAIN query.targets /\ \A t \in Targets : goals[t] = Snap(query.targets[t])
  BY <1>1 DEF Targets
<1>4. sources \in Seq(Nodes) /\ \A t \in Targets : goals[t] \in Seq(Nodes)
  BY <1>1, <1>2, <1>3, SnapFacts
<1>5. \A s \in Seq(Nodes) : ToSet(s) \subseteq Nodes
  BY DEF ToSet
<1> QED BY <1>2, <1>3, <1>4, <1>5 DEF Sources, Goals

(* What is left to walk from a node is never more than by an edge from it, and
   nothing from where it may end.                                          *)
LEMMA EstimateFacts ==
  ASSUME GraphInv, IsAsked(query, sources, goals)
  PROVE  /\ \A n \in Nodes : Estimate(n) \in Nat
         /\ \A i \in DOMAIN edges : Estimate(edges[i].from) <= CostOf(i) + Estimate(edges[i].to)
         /\ \A t \in Targets : \A n \in Goals(t) : Estimate(n) = 0
<1> DEFINE to    == query.targets[1]
           there(n) == Dist(to, PlaceOf(n))
           spare == Max({0} \cup {there(c) : c \in Goals(1)})
<1>1. /\ query \in QueriesOn(document) /\ Nodes = 1 .. Len(nodes) /\ Len(nodes) \in Nat
      /\ \A n \in Nodes : PlaceOf(n) \in Place
      /\ \A t \in Targets : query.targets[t] \in Place /\ Goals(t) \subseteq Nodes
  BY GraphFacts, AskedFacts DEF IsAsked
<1>2. CASE query.kind # "route"
  <2>1. \A n : Estimate(n) = 0
    BY <1>2 DEF Estimate
  <2>2. \A i \in DOMAIN edges : CostOf(i) \in Nat
    BY <1>1, CostFacts
  <2> QED BY <2>1, <2>2
<1>3. CASE query.kind = "route"
  <2>1. Targets = {1} /\ to \in Place /\ Goals(1) \subseteq Nodes
    BY <1>1, <1>3, AskedFacts
  <2>2. \A n : Estimate(n) = Max({0} \cup {there(n) - spare})
    BY <1>3, Zenon DEF Estimate
  <2>3. \A n \in Nodes : there(n) \in Nat
    BY <1>1, <2>1, DistFacts
  <2>4. spare \in Nat /\ \A c \in Goals(1) : there(c) <= spare
    <3> DEFINE f == [c \in Goals(1) |-> there(c)]
    <3>1. IsFiniteSet(Goals(1))
      <4>1. IsFiniteSet(1 .. Len(nodes))
        BY <1>1, FS_Interval
      <4>2. Goals(1) \subseteq 1 .. Len(nodes)
        BY <1>1, <2>1
      <4> QED BY <4>1, <4>2, FS_Subset
    <3>2. \A c \in Goals(1) : f[c] = there(c) /\ f[c] \in Int
      <4> HIDE DEF there
      <4> QED BY <2>1, <2>3
    <3>3. {f[c] : c \in Goals(1)} = {there(c) : c \in Goals(1)}
      <4> HIDE DEF there
      <4> QED OBVIOUS
    <3> DEFINE m == Max({0} \cup {f[c] : c \in Goals(1)})
    <3>4. m = spare
      BY <3>3
    <3> HIDE DEF there, f
    <3>5. m \in Nat /\ \A c \in Goals(1) : f[c] <= m
      BY <3>1, <3>2, GreatestAdded
    <3> QED BY <3>2, <3>4, <3>5
  <2> HIDE DEF spare, there, to
  <2>5. \A n \in Nodes : /\ Estimate(n) \in Nat /\ Estimate(n) >= there(n) - spare
                         /\ Estimate(n) = 0 \/ Estimate(n) = there(n) - spare
    <3> TAKE n \in Nodes
    <3>1. there(n) - spare \in Int /\ {0} \cup {there(n) - spare} = {0, there(n) - spare}
      BY <2>3, <2>4
    <3>2. Estimate(n) = Max({0, there(n) - spare})
      BY <2>2, <3>1
    <3> QED BY <3>1, <3>2, GreaterOf
  <2>6. \A i \in DOMAIN edges : Estimate(edges[i].from) <= CostOf(i) + Estimate(edges[i].to)
    <3> TAKE i \in DOMAIN edges
    <3> DEFINE a == edges[i].from
               b == edges[i].to
    <3>1. /\ a \in Nodes /\ b \in Nodes
          /\ edges[i].length = Dist(PlaceOf(a), PlaceOf(b))
      BY GraphFacts
    <3>2. CostOf(i) \in Nat /\ edges[i].length <= CostOf(i)
      BY <1>1, CostFacts
    <3> HIDE DEF a, b
    <3>3. /\ Dist(to, PlaceOf(a)) <= Dist(to, PlaceOf(b)) + Dist(PlaceOf(b), PlaceOf(a))
          /\ Dist(PlaceOf(a), PlaceOf(b)) = Dist(PlaceOf(b), PlaceOf(a))
          /\ Dist(PlaceOf(a), PlaceOf(b)) \in Nat
      BY <1>1, <2>1, <3>1, DistFacts
    <3>4. there(a) <= there(b) + CostOf(i)
      <4>1. there(a) <= there(b) + Dist(PlaceOf(a), PlaceOf(b))
        BY <3>3 DEF there
      <4>2. there(a) \in Nat /\ there(b) \in Nat
        BY <2>3, <3>1
      <4> QED BY <3>1, <3>2, <3>3, <4>1, <4>2
    <3>5. Estimate(a) <= CostOf(i) + Estimate(b)
      BY <2>3, <2>4, <2>5, <3>1, <3>2, <3>4
    <3> QED BY <3>5 DEF a, b
  <2>7. \A t \in Targets : \A n \in Goals(t) : Estimate(n) = 0
    BY <2>1, <2>3, <2>4, <2>5
  <2> QED BY <2>5, <2>6, <2>7
<1> QED BY <1>2, <1>3

(* Every source is within the limit.                                       *)
LEMMA CapFacts ==
  ASSUME GraphInv, IsAsked(query, sources, goals), Sources # {}
  PROVE  /\ CostCap \in Nat
         /\ \A s \in Sources : Offset(query.from, s) \in Nat /\ Offset(query.from, s) <= CostCap
<1> DEFINE S == {Offset(query.from, c) : c \in Sources}
<1>1. query.from \in Place /\ Sources \subseteq Nodes /\ MaxSearchCost \in Nat
  BY AskedFacts, CostsAssumption
<1>2. \A s \in Sources : Offset(query.from, s) \in Nat
  BY <1>1, OffsetType
<1>3. S \in SUBSET Nat /\ S # {}
  <2> HIDE DEF IsAsked
  <2> QED BY <1>2
<1>4. Min(S) \in S /\ Min(S) \in Nat
  <2> HIDE DEF S
  <2> QED BY <1>3, LeastOf
<1>5. CostCap = MaxSearchCost + Min(S)
  BY Zenon DEF CostCap
<1>6. \A s \in Sources : Offset(query.from, s) <= CostCap
  <2> TAKE s \in Sources
  <2>1. Dist(query.from, PlaceOf(s)) <= SnapRadius \/ Sources = {s}
    <3>1. Sources = ToSet(Snap(query.from))
      BY DEF Sources, IsAsked
    <3> QED BY <1>1, <3>1, SnapFacts
  <2>2. CASE Dist(query.from, PlaceOf(s)) <= SnapRadius
    <3>1. Dist(query.from, PlaceOf(s)) \in Nat /\ SnapRadius \in Nat /\ Reluctance \in Nat
          /\ SnapRadius * Reluctance <= MaxSearchCost
      BY <1>1, OffsetType, GridAssumption, CostsAssumption
    <3>2. Offset(query.from, s) <= SnapRadius * Reluctance
      <4> DEFINE d == Dist(query.from, PlaceOf(s))
      <4>1. Offset(query.from, s) = d * Reluctance
        BY DEF Offset
      <4>2. d \in Nat /\ d <= SnapRadius
        BY <2>2, <3>1
      <4> HIDE DEF d
      <4> QED BY <3>1, <4>1, <4>2, TimesAsMuch
    <3>3. SnapRadius * Reluctance \in Nat
      BY <3>1, TimesAsMuch
    <3> HIDE DEF S
    <3> QED BY <1>1, <1>2, <1>4, <1>5, <3>1, <3>2, <3>3
  <2>3. CASE Sources = {s}
    <3>1. S = {Offset(query.from, s)}
      BY <2>3
    <3>2. Min(S) = Offset(query.from, s)
      BY <1>4, <3>1
    <3> HIDE DEF S
    <3> QED BY <1>1, <1>2, <1>5, <3>2
  <2> QED BY <2>1, <2>2, <2>3
<1> HIDE DEF S
<1> QED BY <1>1, <1>2, <1>4, <1>5, <1>6

-----------------------------------------------------------------------------
(* The graph and the query, as the town that is searched.                   *)
Town ==
  [size    |-> Len(nodes),
   count   |-> Len(edges),
   from    |-> [i \in DOMAIN edges |-> edges[i].from],
   to      |-> [i \in DOMAIN edges |-> edges[i].to],
   cost    |-> [i \in DOMAIN edges |-> CostOf(i)],
   barred  |-> {i \in DOMAIN edges : Barred(i)},
   first   |-> start,
   rest    |-> [n \in Nodes |-> Estimate(n)],
   sources |-> Sources,
   offset  |-> [n \in Nodes |-> Offset(query.from, n)],
   cap     |-> CostCap,
   far     |-> Cheapest,
   goals   |-> [t \in Targets |-> Goals(t)],
   dues    |-> [t \in Targets |-> [n \in Nodes |-> Offset(query.targets[t], n)]],
   alike   |-> {t \in Targets : SameNearest(t)},
   near    |-> sources[1]]

LEMMA TownIs ==
  /\ Town.size = Len(nodes) /\ Town.count = Len(edges)
  /\ Town.from = [i \in DOMAIN edges |-> edges[i].from]
  /\ Town.to = [i \in DOMAIN edges |-> edges[i].to]
  /\ Town.cost = [i \in DOMAIN edges |-> CostOf(i)]
  /\ Town.barred = {i \in DOMAIN edges : Barred(i)}
  /\ Town.first = start /\ Town.rest = [n \in Nodes |-> Estimate(n)]
  /\ Town.sources = Sources /\ Town.offset = [n \in Nodes |-> Offset(query.from, n)]
  /\ Town.cap = CostCap /\ Town.far = Cheapest
  /\ Town.goals = [t \in Targets |-> Goals(t)]
  /\ Town.dues = [t \in Targets |-> [n \in Nodes |-> Offset(query.targets[t], n)]]
  /\ Town.alike = {t \in Targets : SameNearest(t)} /\ Town.near = sources[1]
BY Zenon DEF Town

(* The cheapest of a step is that of one of its edges, if there are any.    *)
LEMMA CheapestEdgeFacts ==
  ASSUME GraphInv, query \in QueriesOn(document), CostCap \in Nat
  PROVE  \A m, n \in Nodes :
           /\ CheapestEdge(m, n) \in Nat
           /\ \A i \in DOMAIN edges :
                edges[i].from = m /\ edges[i].to = n /\ ~Barred(i) => CheapestEdge(m, n) <= CostOf(i)
           /\ \/ CheapestEdge(m, n) = CostCap + 1
              \/ \E i \in DOMAIN edges : /\ edges[i].from = m /\ edges[i].to = n /\ ~Barred(i)
                                         /\ CheapestEdge(m, n) = CostOf(i)
<1> TAKE m, n \in Nodes
<1> DEFINE I == {j \in DOMAIN edges : edges[j].from = m /\ edges[j].to = n /\ ~Barred(j)}
           S == {Beyond} \cup {CostOf(i) : i \in I}
<1>1. \A i \in DOMAIN edges : CostOf(i) \in Nat
  BY CostFacts
<1>2. S \in SUBSET Nat /\ S # {}
  BY <1>1 DEF Beyond
<1>3. Min(S) \in S /\ \A y \in S : Min(S) <= y
  <2> HIDE DEF S
  <2> QED BY <1>2, LeastOf
<1>4. CheapestEdge(m, n) = Min(S)
  BY Zenon DEF CheapestEdge
<1>5. \A i \in I : CostOf(i) \in S
  OBVIOUS
<1>6. \A y \in S : y = Beyond \/ \E i \in I : y = CostOf(i)
  OBVIOUS
<1> HIDE DEF S
<1> QED BY <1>2, <1>3, <1>4, <1>5, <1>6 DEF Beyond

LEMMA CheapestFacts ==
  ASSUME GraphInv, query \in QueriesOn(document), CostCap \in Nat
  PROVE  /\ IsSquare(Len(nodes), Direct)
         /\ AreShortest(Len(nodes), Direct, Cheapest)
<1> DEFINE N == Len(nodes)
<1>1. N \in Nat /\ Nodes = 1 .. N
  BY GraphFacts
<1>2. \A m, n \in 1 .. N : Direct[m][n] = IF m = n THEN 0 ELSE CheapestEdge(m, n)
  BY <1>1 DEF Direct
<1>3. IsSquare(N, Direct)
  <2>1. \A m, n \in 1 .. N : (IF m = n THEN 0 ELSE CheapestEdge(m, n)) \in Nat
    BY <1>1, CheapestEdgeFacts
  <2>2. Direct \in [1 .. N -> [1 .. N -> Nat]]
    BY <1>1, <2>1 DEF Direct
  <2> QED BY <1>2, <2>2 DEF IsSquare
<1>4. \A w, k : Through(w, k) = Via(N, w, k)
  BY <1>1, Zenon DEF Through, Via
<1>5. Cheapest = Chosen(N, Direct)
  BY <1>4, Zenon DEF Cheapest, Chosen
<1> QED BY <1>1, <1>3, <1>5, ShortestWays

LEMMA TownSizes ==
  ASSUME GraphInv
  PROVE  /\ NodesOf(Town) = Nodes /\ EdgesOf(Town) = DOMAIN edges
         /\ Nodes = 1 .. Len(nodes) /\ Len(nodes) \in Nat
         /\ Roads(Town) = {i \in DOMAIN edges : ~Barred(i)}
         /\ \A i \in DOMAIN edges : Town.from[i] = edges[i].from /\ Town.to[i] = edges[i].to
                                    /\ Town.cost[i] = CostOf(i)
<1>1. NodesOf(Town) = Nodes /\ EdgesOf(Town) = DOMAIN edges
  BY GraphFacts, TownIs DEF NodesOf, EdgesOf
<1>2. Roads(Town) = {i \in DOMAIN edges : ~Barred(i)}
  BY <1>1, TownIs DEF Roads
<1> QED BY <1>1, <1>2, GraphFacts, TownIs

LEMMA TownIsPacked ==
  ASSUME GraphInv, Built, query \in QueriesOn(document)
  PROVE  IsPacked(Town)
<1>1. Packed(edges, nodes, start)
  BY DEF GraphInv
<1>2. /\ Len(nodes) \in Nat /\ Nodes = 1 .. Len(nodes)
      /\ Len(edges) \in Nat /\ DOMAIN edges = 1 .. Len(edges)
      /\ \A i \in DOMAIN edges : edges[i].from \in Nodes /\ edges[i].to \in Nodes
  BY GraphFacts
<1>3. \A i \in DOMAIN edges : CostOf(i) \in Nat
  BY CostFacts
<1>4. /\ Town.from \in [EdgesOf(Town) -> NodesOf(Town)]
      /\ Town.to \in [EdgesOf(Town) -> NodesOf(Town)]
      /\ Town.cost \in [EdgesOf(Town) -> Nat]
  BY <1>2, <1>3, TownIs, TownSizes
<1>5. Town.first \in [1 .. Town.size + 1 -> 1 .. Town.count + 1]
  BY <1>1, TownIs DEF Packed
<1>6. \A n \in NodesOf(Town) :
        /\ Town.first[n] <= Town.first[n + 1]
        /\ \A i \in EdgesOf(Town) : Town.from[i] = n <=> (Town.first[n] <= i /\ i < Town.first[n + 1])
  <2>1. \A n \in 1 .. Len(nodes) :
          /\ start[n] <= start[n + 1]
          /\ \A i \in 1 .. Len(edges) : edges[i].from = n <=> (start[n] <= i /\ i < start[n + 1])
    BY <1>1 DEF Packed
  <2>2. Town.first = start /\ NodesOf(Town) = 1 .. Len(nodes) /\ EdgesOf(Town) = 1 .. Len(edges)
        /\ \A i \in 1 .. Len(edges) : Town.from[i] = edges[i].from
    BY <1>2, TownIs, TownSizes
  <2> QED BY <2>1, <2>2
<1>7. Town.size \in Nat /\ Town.count \in Nat
  BY <1>2, TownIs
<1> QED BY <1>4, <1>5, <1>6, <1>7 DEF IsPacked

LEMMA TownIsGuided ==
  ASSUME GraphInv, IsAsked(query, sources, goals)
  PROVE  IsGuided(Town)
<1>1. /\ \A n \in Nodes : Estimate(n) \in Nat
      /\ \A i \in DOMAIN edges : Estimate(edges[i].from) <= CostOf(i) + Estimate(edges[i].to)
      /\ \A i \in DOMAIN edges : edges[i].from \in Nodes /\ edges[i].to \in Nodes
  BY EstimateFacts, GraphFacts
<1>2. /\ Town.rest = [n \in Nodes |-> Estimate(n)]
      /\ NodesOf(Town) = Nodes /\ EdgesOf(Town) = DOMAIN edges
      /\ \A i \in DOMAIN edges : Town.from[i] = edges[i].from /\ Town.to[i] = edges[i].to
                                 /\ Town.cost[i] = CostOf(i)
  BY TownIs, TownSizes
<1>3. \A n \in Nodes : Town.rest[n] = Estimate(n)
  BY <1>2
<1>4. Town.rest \in [NodesOf(Town) -> Nat]
  BY <1>1, <1>2
<1>5. \A i \in EdgesOf(Town) : Town.rest[Town.from[i]] <= Town.cost[i] + Town.rest[Town.to[i]]
  BY <1>1, <1>2, <1>3
<1> QED BY <1>4, <1>5 DEF IsGuided

LEMMA TownIsEntered ==
  ASSUME GraphInv, IsAsked(query, sources, goals), Sources # {}
  PROVE  IsEntered(Town)
<1>1. /\ CostCap \in Nat /\ \A s \in Sources : Offset(query.from, s) <= CostCap
      /\ Sources \subseteq Nodes /\ query.from \in Place
  BY CapFacts, AskedFacts
<1>2. \A n \in Nodes : Offset(query.from, n) \in Nat
  BY <1>1, OffsetType
<1>3. /\ Town.offset = [n \in Nodes |-> Offset(query.from, n)] /\ Town.cap = CostCap
      /\ Town.sources = Sources /\ NodesOf(Town) = Nodes
  BY TownIs, TownSizes
<1>4. Town.offset \in [NodesOf(Town) -> Nat]
  BY <1>2, <1>3
<1>5. \A s \in Sources : Town.offset[s] = Offset(query.from, s)
  BY <1>1, <1>3
<1> QED BY <1>1, <1>3, <1>4, <1>5 DEF IsEntered

LEMMA TownIsMeasured ==
  ASSUME GraphInv, IsAsked(query, sources, goals), Sources # {}
  PROVE  IsMeasured(Town)
<1> DEFINE N == Len(nodes)
<1>1. /\ query \in QueriesOn(document) /\ CostCap \in Nat
      /\ Nodes = 1 .. N /\ N \in Nat
      /\ \A i \in DOMAIN edges : edges[i].from \in Nodes /\ edges[i].to \in Nodes
                                 /\ CostOf(i) \in Nat
  BY CapFacts, GraphFacts, CostFacts DEF IsAsked
<1>2. /\ IsSquare(N, Direct) /\ IsSquare(N, Cheapest) /\ Shorter(N, Cheapest, Direct)
      /\ Triangles(N, Cheapest, N)
      /\ \A height : Slopes(N, Direct, height) => Slopes(N, Cheapest, height)
  BY <1>1, CheapestFacts DEF AreShortest
<1>3. /\ \A m, n \in 1 .. N : Direct[m][n] = IF m = n THEN 0 ELSE CheapestEdge(m, n)
      /\ \A m, n \in 1 .. N : Direct[m][n] \in Nat /\ Cheapest[m][n] \in Nat
                              /\ Cheapest[m][n] <= Direct[m][n]
  BY <1>1, <1>2 DEF Direct, IsSquare, Shorter
<1>4. /\ Town.size = N /\ Town.far = Cheapest /\ Town.cap = CostCap
      /\ NodesOf(Town) = 1 .. N
      /\ Roads(Town) = {i \in DOMAIN edges : ~Barred(i)}
      /\ \A i \in DOMAIN edges : Town.from[i] = edges[i].from /\ Town.to[i] = edges[i].to
                                 /\ Town.cost[i] = CostOf(i)
  BY <1>1, TownIs, TownSizes
<1>5. \A i \in Roads(Town) : Town.far[Town.from[i]][Town.to[i]] <= Town.cost[i]
  <2> SUFFICES ASSUME NEW i \in DOMAIN edges, ~Barred(i)
               PROVE  Cheapest[edges[i].from][edges[i].to] <= CostOf(i)
    BY <1>4
  <2> DEFINE a == edges[i].from
             b == edges[i].to
  <2>1. a \in 1 .. N /\ b \in 1 .. N /\ CostOf(i) \in Nat
    BY <1>1
  <2>2. CheapestEdge(a, b) \in Nat /\ CheapestEdge(a, b) <= CostOf(i)
    BY <1>1, CheapestEdgeFacts
  <2> HIDE DEF a, b
  <2>3. Direct[a][b] <= CostOf(i)
    BY <1>3, <2>1, <2>2
  <2>4. Cheapest[a][b] <= CostOf(i)
    BY <1>3, <2>1, <2>3
  <2> QED BY <2>4 DEF a, b
<1>6. ASSUME NEW height, IsHeight(Town, height)
      PROVE  Slopes(N, Direct, height)
  <2>1. /\ height \in [1 .. N -> 0 .. CostCap + 1]
        /\ \A i \in Roads(Town) : height[Town.to[i]] <= height[Town.from[i]] + Town.cost[i]
    BY <1>4, <1>6 DEF IsHeight
  <2>2. \A i \in DOMAIN edges : ~Barred(i) =>
          height[edges[i].to] <= height[edges[i].from] + CostOf(i)
    BY <1>4, <2>1
  <2>3. \A n \in 1 .. N : height[n] \in Int /\ 0 <= height[n] /\ height[n] <= CostCap + 1
    BY <1>1, <2>1
  <2>4. \A m, n \in 1 .. N : height[n] <= height[m] + Direct[m][n]
    <3> TAKE m, n \in 1 .. N
    <3>1. CASE m = n
      BY <1>3, <2>3, <3>1
    <3>2. CASE m # n
      <4>1. Direct[m][n] = CheapestEdge(m, n)
        BY <1>3, <3>2
      <4>2. \/ CheapestEdge(m, n) = CostCap + 1
            \/ \E i \in DOMAIN edges : /\ edges[i].from = m /\ edges[i].to = n /\ ~Barred(i)
                                       /\ CheapestEdge(m, n) = CostOf(i)
        BY <1>1, CheapestEdgeFacts
      <4>3. CASE CheapestEdge(m, n) = CostCap + 1
        BY <1>1, <2>3, <4>1, <4>3
      <4>4. CASE \E i \in DOMAIN edges : /\ edges[i].from = m /\ edges[i].to = n /\ ~Barred(i)
                                         /\ CheapestEdge(m, n) = CostOf(i)
        BY <2>2, <4>1, <4>4
      <4> QED BY <4>2, <4>3, <4>4
    <3> QED BY <3>1, <3>2
  <2>5. height \in [1 .. N -> Int]
    BY <2>1, <2>3
  <2> QED BY <2>4, <2>5 DEF Slopes
<1>7. \A height : IsHeight(Town, height) => Slopes(Town.size, Town.far, height)
  BY <1>2, <1>4, <1>6
<1> QED BY <1>2, <1>4, <1>5, <1>7 DEF IsMeasured

LEMMA TownIsTown ==
  ASSUME GraphInv, Built, IsAsked(query, sources, goals), Sources # {}
  PROVE  IsTown(Town) /\ IsServed(Town)
<1>1. IsTown(Town)
  BY TownIsPacked, TownIsGuided, TownIsEntered, TownIsMeasured DEF IsTown, IsAsked
<1>2. /\ \A t \in Targets : query.targets[t] \in Place /\ Goals(t) \subseteq Nodes
      /\ \A t \in Targets : goals[t] \in Seq(Nodes)
      /\ sources \in Seq(Nodes)
      /\ \A t \in Targets : \A n \in Goals(t) : Estimate(n) = 0
  BY AskedFacts, EstimateFacts
<1>3. /\ Town.goals = [t \in Targets |-> Goals(t)]
      /\ Town.dues = [t \in Targets |-> [n \in Nodes |-> Offset(query.targets[t], n)]]
      /\ Town.alike = {t \in Targets : SameNearest(t)} /\ Town.near = sources[1]
      /\ Town.rest = [n \in Nodes |-> Estimate(n)]
      /\ Town.sources = Sources /\ NodesOf(Town) = Nodes
  BY TownIs, TownSizes
<1>4. \A t \in Targets : /\ Town.goals[t] = Goals(t)
                         /\ Town.dues[t] = [n \in Nodes |-> Offset(query.targets[t], n)]
  BY <1>3
<1>5. ASSUME NEW t \in Targets
      PROVE  /\ Town.goals[t] \subseteq NodesOf(Town)
             /\ Town.dues[t] \in [NodesOf(Town) -> Nat]
             /\ \A n \in Town.goals[t] : Town.rest[n] = 0
  <2>1. \A n \in Nodes : Offset(query.targets[t], n) \in Nat
    BY <1>2, OffsetType
  <2>2. Town.dues[t] \in [NodesOf(Town) -> Nat]
    BY <1>3, <1>4, <2>1
  <2>3. \A n \in Goals(t) : Town.rest[n] = 0
    BY <1>2, <1>3
  <2> QED BY <1>2, <1>3, <1>4, <2>2, <2>3
<1>6. ASSUME NEW s \in Seq(Nodes), ToSet(s) # {}
      PROVE  s[1] \in ToSet(s)
  <2>1. Len(s) \in Nat /\ DOMAIN s = 1 .. Len(s)
    BY LenProperties
  <2>2. DOMAIN s # {}
    BY <1>6 DEF ToSet
  <2>3. 1 \in DOMAIN s
    BY <2>1, <2>2
  <2> QED BY <2>3 DEF ToSet
<1>7. ASSUME NEW t \in Town.alike
      PROVE  t \in Targets /\ Town.near \in Town.sources /\ Town.near \in Town.goals[t]
  <2>1. t \in Targets /\ Goals(t) # {} /\ sources[1] = goals[t][1]
    BY <1>3 DEF SameNearest
  <2>2. sources[1] \in Sources /\ goals[t][1] \in Goals(t)
    BY <1>2, <1>6, <2>1 DEF Sources, Goals
  <2> QED BY <1>3, <1>4, <2>1, <2>2
<1>8. DOMAIN Town.goals = Targets
  BY <1>3
<1> QED BY <1>1, <1>5, <1>7, <1>8 DEF IsServed

-----------------------------------------------------------------------------
(* The search of the town.                                                 *)
townVars == <<nodes, edges, start, query, sources, goals>>

LEMMA TownStays ==
  ASSUME UNCHANGED townVars
  PROVE  Town' = Town
<1>1. /\ nodes' = nodes /\ edges' = edges /\ start' = start
      /\ query' = query /\ sources' = sources /\ goals' = goals
  BY DEF townVars
<1>2. Nodes' = Nodes /\ Targets' = Targets /\ Sources' = Sources
  BY <1>1 DEF Nodes, Targets, Sources
<1>3. \A i : CostOf(i)' = CostOf(i) /\ (Barred(i)' <=> Barred(i)) /\ PlaceOf(i)' = PlaceOf(i)
             /\ Goals(i)' = Goals(i)
  BY <1>1, Zenon DEF CostOf, Barred, PlaceOf, Goals
<1>4. \A p, n : Offset(p, n)' = Offset(p, n)
  BY <1>3, Zenon DEF Offset
<1>5. \A n : Estimate(n)' = Estimate(n)
  BY <1>1, <1>3, <1>4, Zenon DEF Estimate
<1>6. \A t : SameNearest(t)' <=> SameNearest(t)
  BY <1>1, <1>3, Zenon DEF SameNearest
<1>7. CostCap' = CostCap
  BY <1>1, <1>2, <1>4, Zenon DEF CostCap
<1>8. \A m, n : CheapestEdge(m, n)' = CheapestEdge(m, n)
  BY <1>1, <1>3, <1>7, Zenon DEF CheapestEdge, Beyond
<1>9. Direct' = Direct
  BY <1>2, <1>8, Zenon DEF Direct
<1>10. \A past, k : Through(past, k)' = Through(past, k)
  BY <1>2, Zenon DEF Through
<1>11. Cheapest' = Cheapest
  BY <1>1, <1>9, <1>10, Zenon DEF Cheapest
<1>12. \A t : [n \in Nodes |-> Offset(query.targets[t], n)]'
                = [n \in Nodes |-> Offset(query.targets[t], n)]
  BY <1>1, <1>2, <1>4, Zenon
<1> QED BY <1>1, <1>2, <1>3, <1>4, <1>5, <1>6, <1>7, <1>11, <1>12, Zenon DEF Town

Searches(cur, at) ==
  /\ Explored(Town, g, came, closed, open, cur, at)
  /\ Found(Town, g, closed, Walked(Town, closed, cur, at), arrival, best, resolved)

(* How a search ended: no entry was left, or every target was resolved.     *)
Ended(cur, at) ==
  /\ Searches(cur, at) /\ Stands(Town, open, cur, at)
  /\ cur # 0 => Targets \subseteq resolved

NothingYet ==
  /\ g = <<>> /\ came = <<>> /\ closed = {} /\ open = {}
  /\ best = <<>> /\ arrival = <<>> /\ resolved = {} /\ result = <<>>
  /\ current = 0 /\ cursor = 0

Begun == phase \in {"searching", "found"} \/ (phase = "answered" /\ Sources # {})

SearchInv ==
  /\ Asked => IsAsked(query, sources, goals)
  /\ ~Begun => NothingYet
  /\ Begun => Sources # {}
  /\ phase = "searching" => Searches(current, cursor) /\ (current = 0 => cursor = 0)
  /\ phase \in {"found", "answered"} /\ Begun => \E cur : \E at : Ended(cur, at)
  /\ phase \in {"found", "answered"} => current = 0
  /\ phase = "answered" /\ Begun => result = [t \in DOMAIN best |-> Assemble(t)]

StreetInv == GraphInv /\ SearchInv

LEMMA GraphStays ==
  ASSUME GraphInv, Built, UNCHANGED <<builtVars, document>>,
         phase' \in {"asked", "searching", "found", "answered"}
  PROVE  GraphInv'
<1>1. /\ nodes' = nodes /\ edges' = edges /\ start' = start /\ ways' = ways
      /\ unread' = unread /\ osm' = osm /\ ctx' = ctx /\ document' = document
  BY DEF builtVars, readerVars, graphVars
<1>2. ReaderInv'
  BY <1>1 DEF GraphInv, ReaderInv
<1>3. AreNodes(nodes)'
  BY <1>1 DEF GraphInv, AreNodes
<1>4. AreEdges(edges, nodes)' /\ Packed(edges, nodes, start)' /\ (ways \in Seq(OsmWay))'
  BY <1>1 DEF GraphInv
<1> QED BY <1>2, <1>3, <1>4 DEF GraphInv

LEMMA SnapStays ==
  ASSUME nodes' = nodes
  PROVE  \A p : Snap(p)' = Snap(p)
<1>1. Nodes' = Nodes /\ \A n : PlaceOf(n)' = PlaceOf(n)
  BY DEF Nodes, PlaceOf
<1>2. \A axis : Origin(axis)' = Origin(axis)
  BY <1>1, Zenon DEF Origin
<1>3. \A p : CellOf(p)' = CellOf(p)
  BY <1>2, Zenon DEF CellOf
<1>4. MaxRing' = MaxRing
  <2> DEFINE apart(m, n, axis) == CellOf(PlaceOf(m))[axis] - CellOf(PlaceOf(n))[axis]
             S == {apart(m, n, axis) : m \in Nodes, n \in Nodes, axis \in 1..2}
  <2>1. \A m, n, axis : apart(m, n, axis)' = apart(m, n, axis)
    BY <1>1, <1>3, Zenon
  <2>2. S' = S
    <3>1. Nodes' = Nodes
      BY <1>1
    <3> HIDE DEF apart
    <3> QED BY <2>1, <3>1
  <2>3. MaxRing = 2 + Max(S)
    BY DEF MaxRing
  <2>4. MaxRing' = 2 + Max(S')
    BY DEF MaxRing
  <2> HIDE DEF S
  <2> QED BY <2>2, <2>3, <2>4
<1>5. \A p, r : Visited(p, r)' = Visited(p, r)
  BY <1>1, <1>3, Zenon DEF Visited
<1>6. \A p, m, n : Nearer(p, m, n)' <=> Nearer(p, m, n)
  BY <1>1, Zenon DEF Nearer
<1>7. \A p, S : NearestOf(p, S)' = NearestOf(p, S)
  BY <1>6, Zenon DEF NearestOf
<1>8. \A p : Nearest(p)' = Nearest(p)
  BY <1>1, <1>4, <1>5, <1>7, Zenon DEF Nearest
<1>9. \A p : WithinRadius(p)' = WithinRadius(p)
  BY <1>1, <1>4, <1>5, Zenon DEF WithinRadius
<1> QED BY <1>8, <1>9, Zenon DEF Snap

LEMMA AskedStays ==
  ASSUME IsAsked(query, sources, goals), UNCHANGED <<builtVars, askedVars>>
  PROVE  /\ IsAsked(query, sources, goals)' /\ Town' = Town
         /\ Sources' = Sources /\ Targets' = Targets
<1>1. /\ document' = document /\ query' = query /\ sources' = sources /\ goals' = goals
      /\ nodes' = nodes /\ edges' = edges /\ start' = start
  BY DEF askedVars, builtVars, graphVars
<1>2. IsAsked(query, sources, goals)'
  BY <1>1, SnapStays, Zenon DEF IsAsked
<1> QED BY <1>1, <1>2, TownStays DEF townVars, Sources, Targets

LEMMA AskKeeps ==
  ASSUME StreetInv, Ask
  PROVE  StreetInv'
<1>1. /\ phase = "ready" /\ phase' = "asked" /\ UNCHANGED <<builtVars, document, searchVars>>
      /\ query' \in QueriesOn(document)
      /\ sources' = Snap(query'.from)
      /\ goals' = [t \in DOMAIN query'.targets |-> Snap(query'.targets[t])]
  BY DEF Ask
<1>2. GraphInv'
  BY <1>1, GraphStays DEF StreetInv, Built
<1>3. IsAsked(query, sources, goals)'
  <2>1. \A p : Snap(p)' = Snap(p)
    BY <1>1, SnapStays DEF builtVars, graphVars
  <2>2. document' = document
    BY <1>1
  <2> QED BY <1>1, <2>1, <2>2, Zenon DEF IsAsked
<1>4. NothingYet /\ ~Begun'
  BY <1>1 DEF StreetInv, SearchInv, Begun
<1>5. NothingYet'
  BY <1>1, <1>4 DEF NothingYet, searchVars
<1> QED BY <1>1, <1>2, <1>3, <1>4, <1>5 DEF StreetInv, SearchInv

LEMMA NowhereKeeps ==
  ASSUME StreetInv, Nowhere
  PROVE  StreetInv'
<1>1. /\ phase = "asked" /\ phase' = "answered" /\ Sources = {}
      /\ UNCHANGED <<builtVars, askedVars, searchVars>>
  BY DEF Nowhere
<1>2. GraphInv'
  BY <1>1, GraphStays DEF StreetInv, Built, askedVars
<1>3. /\ document' = document /\ query' = query /\ sources' = sources /\ goals' = goals
      /\ nodes' = nodes
  BY <1>1 DEF askedVars, builtVars, graphVars
<1>4. /\ IsAsked(query, sources, goals)' /\ NothingYet
      /\ Sources' = {} /\ ~Begun'
  BY <1>1, <1>3, AskedStays DEF StreetInv, SearchInv, Begun, Asked, Sources
<1>5. NothingYet'
  BY <1>1, <1>4 DEF NothingYet, searchVars
<1>6. current' = 0
  BY <1>5 DEF NothingYet
<1> QED BY <1>1, <1>2, <1>4, <1>5, <1>6 DEF StreetInv, SearchInv

(* A search goes on, or stops.                                             *)
LEMMA SearchFacts ==
  ASSUME StreetInv, Begun
  PROVE  /\ IsAsked(query, sources, goals) /\ Sources # {}
         /\ IsTown(Town) /\ IsServed(Town) /\ GraphInv /\ Built
<1>1. IsAsked(query, sources, goals) /\ Sources # {} /\ GraphInv /\ Built
  BY DEF StreetInv, SearchInv, Begun, Asked, Built
<1> QED BY <1>1, TownIsTown

LEMMA GoesOnSearching ==
  ASSUME StreetInv, phase = "searching", phase' = "searching",
         UNCHANGED <<builtVars, askedVars>>,
         Searches(current, cursor)', current' = 0 => cursor' = 0
  PROVE  StreetInv'
<1>1. Begun /\ Begun'
  BY DEF Begun
<1>2. IsAsked(query, sources, goals)' /\ Sources' = Sources /\ Sources # {}
  BY <1>1, SearchFacts, AskedStays
<1>3. GraphInv'
  BY <1>1, SearchFacts, GraphStays DEF askedVars
<1> QED BY <1>1, <1>2, <1>3 DEF StreetInv, SearchInv

LEMMA StopsSearching ==
  ASSUME StreetInv, phase = "searching", phase' = "found",
         UNCHANGED <<builtVars, askedVars>>,
         NEW cur, NEW at, Ended(cur, at)', current' = 0
  PROVE  StreetInv'
<1>1. Begun /\ Begun'
  BY DEF Begun
<1>2. IsAsked(query, sources, goals)' /\ Sources' = Sources /\ Sources # {}
  BY <1>1, SearchFacts, AskedStays
<1>3. GraphInv'
  BY <1>1, SearchFacts, GraphStays DEF askedVars
<1>4. (\E c : \E a : Ended(c, a))'
  OBVIOUS
<1> QED BY <1>1, <1>2, <1>3, <1>4 DEF StreetInv, SearchInv

LEMMA SeedKeeps ==
  ASSUME StreetInv, Seed
  PROVE  StreetInv'
<1>1. /\ phase = "asked" /\ phase' = "searching" /\ Sources # {}
      /\ g' = [n \in Sources |-> Offset(query.from, n)]
      /\ open' = {[f |-> g'[n] + Estimate(n), node |-> n] : n \in Sources}
      /\ resolved' = {t \in Targets : Goals(t) = {}}
      /\ UNCHANGED <<builtVars, askedVars, came, closed, arrival, current, cursor, result>>
  BY DEF Seed
<1>2. best' = [t \in {u \in Targets : SameNearest(u)} |->
                 [total |-> Offset(query.from, sources[1]) + Offset(query.targets[t], sources[1]),
                  node |-> sources[1], real |-> FALSE]]
  BY DEF Seed
<1>3. IsAsked(query, sources, goals) /\ GraphInv /\ Built /\ NothingYet
  BY <1>1 DEF StreetInv, SearchInv, Asked, Built, Begun
<1>4. IsTown(Town) /\ IsServed(Town)
  BY <1>1, <1>3, TownIsTown
<1>5. /\ came' = <<>> /\ closed' = {} /\ arrival' = <<>> /\ current' = 0 /\ cursor' = 0
      /\ Town' = Town /\ Sources' = Sources
      /\ IsAsked(query, sources, goals)' /\ Begun'
  BY <1>1, <1>3, AskedStays DEF NothingYet, Begun
<1>6. /\ Sources \subseteq Nodes /\ Town.sources = Sources
      /\ \A n \in Nodes : Town.offset[n] = Offset(query.from, n) /\ Town.rest[n] = Estimate(n)
      /\ \A t \in Targets : /\ Town.goals[t] = Goals(t)
                            /\ \A n \in Nodes : Town.dues[t][n] = Offset(query.targets[t], n)
      /\ Town.alike = {t \in Targets : SameNearest(t)} /\ Town.near = sources[1]
      /\ DOMAIN Town.goals = Targets
  BY <1>3, TownIs, AskedFacts
<1>7. g' = [n \in Town.sources |-> Town.offset[n]]
  BY <1>1, <1>6
<1>8. open' = {[f |-> g'[n] + Town.rest[n], node |-> n] : n \in Town.sources}
  BY <1>1, <1>6
<1>9. Explored(Town, g', <<>>, {}, open', 0, 0)
  BY <1>4, <1>7, <1>8, Seeded
<1>10. Found(Town, g', {}, {}, <<>>, best', resolved')
  <2>1. resolved' = {t \in DOMAIN Town.goals : Town.goals[t] = {}}
    BY <1>1, <1>6
  <2>2. DOMAIN best' = Town.alike
    BY <1>2, <1>6
  <2>3. ASSUME NEW u \in Town.alike
        PROVE  /\ best'[u].real = FALSE /\ best'[u].node = Town.near
               /\ best'[u].total = Town.offset[Town.near] + Town.dues[u][Town.near]
    <3>1. /\ best'[u].real = FALSE /\ best'[u].node = sources[1]
          /\ best'[u].total = Offset(query.from, sources[1]) + Offset(query.targets[u], sources[1])
      BY <1>2, <1>6
    <3>2. u \in Targets /\ Town.near \in Nodes
      BY <1>4, <1>6 DEF IsServed
    <3> QED BY <1>6, <3>1, <3>2
  <2> QED BY <1>4, <2>1, <2>2, <2>3, NothingFound
<1>11. Walked(Town, {}, 0, 0) = {}
  BY DEF Walked
<1>12. Searches(current, cursor)'
  BY <1>5, <1>9, <1>10, <1>11 DEF Searches
<1>13. GraphInv'
  BY <1>1, <1>3, GraphStays DEF askedVars
<1> QED BY <1>1, <1>5, <1>12, <1>13 DEF StreetInv, SearchInv

LEMMA SearchingFacts ==
  ASSUME StreetInv, phase = "searching"
  PROVE  /\ IsTown(Town) /\ IsServed(Town) /\ IsAsked(query, sources, goals) /\ GraphInv
         /\ Explored(Town, g, came, closed, open, current, cursor)
         /\ Found(Town, g, closed, Walked(Town, closed, current, cursor), arrival, best, resolved)
         /\ current = 0 => cursor = 0
<1>1. Begun
  BY DEF Begun
<1>2. Searches(current, cursor) /\ (current = 0 => cursor = 0)
  BY DEF StreetInv, SearchInv
<1> QED BY <1>1, <1>2, SearchFacts DEF Searches

(* The first entry's node is closed.                                       *)
LEMMA SettleFacts ==
  ASSUME StreetInv, phase = "searching", current = 0,
         NEW x, Popped(x), x.node \notin closed,
         NEW more, more = resolved \cup Sure(x)
  PROVE  /\ Explored(Town, g, came, closed \cup {x.node}, open \ {x}, x.node, start[x.node])
         /\ Found(Town, g, closed \cup {x.node},
                  Walked(Town, closed \cup {x.node}, x.node, start[x.node]), arrival, best, more)
         /\ x.node # 0
<1>1. /\ IsTown(Town) /\ Explored(Town, g, came, closed, open, 0, 0)
      /\ Found(Town, g, closed, Walked(Town, closed, 0, 0), arrival, best, resolved)
  BY SearchingFacts
<1>2. x \in open /\ \A y \in open : x.f <= y.f
  BY DEF Popped
<1>3. /\ Explored(Town, g, came, closed \cup {x.node}, open \ {x}, x.node, Town.first[x.node])
      /\ Walked(Town, closed \cup {x.node}, x.node, Town.first[x.node])
           = Walked(Town, closed, 0, 0)
      /\ x.node \in NodesOf(Town) /\ x.f = Key(Town, g, x.node)
  BY <1>1, <1>2, FirstSettles
<1>4. \A u \in more : u \in resolved \/ (u \in DOMAIN best /\ best[u].total <= Key(Town, g, x.node))
  BY <1>3 DEF Sure
<1>5. Found(Town, g, closed \cup {x.node}, Walked(Town, closed, 0, 0), arrival, best, more)
  BY <1>1, <1>4, FoundMore
<1> QED BY <1>3, <1>5, TownIs DEF NodesOf

LEMMA PopKeeps ==
  ASSUME StreetInv, Pop
  PROVE  StreetInv'
<1>1. /\ phase = "searching" /\ current = 0
      /\ UNCHANGED <<builtVars, askedVars, g, came, best, arrival, result>>
  BY DEF Pop
<1>2. PICK x : Popped(x) /\ open' = open \ {x} /\ (Stale(x) \/ Settle(x) \/ Enough(x))
  BY Zenon DEF Pop
<1>3. /\ IsTown(Town) /\ Explored(Town, g, came, closed, open, 0, 0) /\ cursor = 0
      /\ Found(Town, g, closed, Walked(Town, closed, 0, 0), arrival, best, resolved)
      /\ Town' = Town /\ Targets' = Targets /\ DOMAIN Town.goals = Targets
  BY <1>1, SearchingFacts, AskedStays, TownIs
<1>4. CASE Stale(x)
  <2>1. /\ x.node \in closed /\ phase' = phase /\ closed' = closed /\ resolved' = resolved
        /\ current' = current /\ cursor' = cursor
    BY <1>4 DEF Stale
  <2>2. Explored(Town, g, came, closed, open \ {x}, 0, 0)
    BY <1>2, <1>3, <2>1, StaleGoes DEF Popped
  <2>3. Searches(current, cursor)'
    BY <1>1, <1>2, <1>3, <2>1, <2>2 DEF Searches
  <2> QED BY <1>1, <1>3, <2>1, <2>3, GoesOnSearching
<1>5. CASE Settle(x)
  <2>1. /\ x.node \notin closed /\ closed' = closed \cup {x.node}
        /\ resolved' = resolved \cup Sure(x) /\ phase' = phase
        /\ current' = x.node /\ cursor' = start[x.node]
    BY <1>5 DEF Settle
  <2>2. /\ Explored(Town, g, came, closed', open', x.node, start[x.node])
        /\ Found(Town, g, closed', Walked(Town, closed', x.node, start[x.node]),
                 arrival, best, resolved')
        /\ x.node # 0
    BY <1>1, <1>2, <2>1, SettleFacts
  <2>3. Searches(current, cursor)'
    BY <1>1, <1>3, <2>1, <2>2 DEF Searches
  <2> QED BY <1>1, <2>1, <2>2, <2>3, GoesOnSearching
<1>6. CASE Enough(x)
  <2>1. /\ x.node \notin closed /\ closed' = closed \cup {x.node}
        /\ resolved' = resolved \cup Sure(x) /\ resolved' = Targets
        /\ phase' = "found" /\ current' = 0
    BY <1>1, <1>6 DEF Enough
  <2>2. /\ Explored(Town, g, came, closed', open', x.node, start[x.node])
        /\ Found(Town, g, closed', Walked(Town, closed', x.node, start[x.node]),
                 arrival, best, resolved')
        /\ x.node # 0
    BY <1>1, <1>2, <2>1, SettleFacts
  <2>3. Searches(x.node, start[x.node])'
    <3>1. start' = start
      BY <1>1 DEF builtVars, graphVars
    <3> QED BY <1>1, <1>3, <2>2, <3>1 DEF Searches
  <2>4. Ended(x.node, start[x.node])'
    <3>1. start' = start
      BY <1>1 DEF builtVars, graphVars
    <3> QED BY <1>3, <2>1, <2>2, <2>3, <3>1, TownIs DEF Ended, Stands
  <2> QED BY <1>1, <2>1, <2>4, StopsSearching
<1> QED BY <1>2, <1>4, <1>5, <1>6

LEMMA ExhaustedKeeps ==
  ASSUME StreetInv, Exhausted
  PROVE  StreetInv'
<1>1. /\ phase = "searching" /\ phase' = "found" /\ current = 0 /\ open = {}
      /\ UNCHANGED <<builtVars, askedVars, searchVars>>
  BY DEF Exhausted
<1>2. /\ g' = g /\ came' = came /\ closed' = closed /\ open' = open /\ best' = best
      /\ arrival' = arrival /\ resolved' = resolved /\ current' = 0
  BY <1>1 DEF searchVars
<1>3. /\ Explored(Town, g, came, closed, open, 0, 0)
      /\ Found(Town, g, closed, Walked(Town, closed, 0, 0), arrival, best, resolved)
      /\ Town' = Town
  BY <1>1, SearchingFacts, AskedStays
<1>4. Ended(0, 0)'
  BY <1>1, <1>2, <1>3 DEF Ended, Searches, Stands
<1> QED BY <1>1, <1>2, <1>4, StopsSearching

LEMMA RelaxedKeeps ==
  ASSUME StreetInv, Relaxed
  PROVE  StreetInv'
<1>1. /\ phase = "searching" /\ phase' = "searching" /\ current # 0
      /\ cursor = start[current + 1] /\ current' = 0 /\ cursor' = 0
      /\ UNCHANGED <<builtVars, askedVars, g, came, closed, open, best, arrival, resolved>>
  BY DEF Relaxed
<1>2. /\ IsTown(Town) /\ Explored(Town, g, came, closed, open, current, cursor)
      /\ Found(Town, g, closed, Walked(Town, closed, current, cursor), arrival, best, resolved)
      /\ Town' = Town
  BY <1>1, SearchingFacts, AskedStays
<1>3. /\ Explored(Town, g, came, closed, open, 0, 0)
      /\ Walked(Town, closed, 0, 0) = Walked(Town, closed, current, cursor)
  <2>1. cursor = Town.first[current + 1]
    BY <1>1, TownIs
  <2> QED BY <1>1, <1>2, <2>1, NodeDone
<1>4. Searches(current, cursor)'
  BY <1>1, <1>2, <1>3 DEF Searches
<1> QED BY <1>1, <1>4, GoesOnSearching

LEMMA WalkedFacts ==
  ASSUME NEW t, IsTown(t), NEW came1, NEW g1, NEW closed1, NEW open1, NEW cur, NEW at,
         Explored(t, g1, came1, closed1, open1, cur, at)
  PROVE  /\ \A j \in Walked(t, closed1, cur, at) : /\ j \in EdgesOf(t) /\ t.from[j] \in closed1
                                                   /\ By(t, g1, j) \in Nat
         /\ \A m \in closed1 : g1[m] \in Nat /\ Key(t, g1, m) \in Nat
<1>1. \A m \in closed1 : g1[m] \in Nat /\ m \in NodesOf(t)
  BY DEF Explored, Reached
<1>2. \A m \in closed1 : Key(t, g1, m) \in Nat
  BY <1>1, TownFacts DEF Key
<1>3. \A j \in Walked(t, closed1, cur, at) : j \in EdgesOf(t) /\ t.from[j] \in closed1
  BY TownFacts DEF Walked
<1>4. \A j \in Walked(t, closed1, cur, at) : By(t, g1, j) \in Nat
  BY <1>1, <1>3, TownFacts DEF By
<1> QED BY <1>1, <1>2, <1>3, <1>4

(* One edge of the current node.                                           *)
LEMMA RelaxingFacts ==
  ASSUME StreetInv, Relaxing
  PROVE  /\ cursor \in DOMAIN edges /\ edges[cursor].from = current /\ current \in closed
         /\ cursor < Town.first[current + 1]
         /\ Walked(Town, closed, current, cursor + 1)
              = Walked(Town, closed, current, cursor) \cup ({cursor} \cap Roads(Town))
         /\ Tentative = By(Town, g, cursor) /\ Tentative \in Nat
         /\ Tentative = g[current] + Town.cost[cursor]
         /\ cursor \in Roads(Town) <=> ~Barred(cursor)
         /\ Town.to[cursor] = edges[cursor].to
<1>1. /\ phase = "searching" /\ current # 0 /\ cursor < start[current + 1]
  BY DEF Relaxing
<1>2. /\ IsTown(Town) /\ Explored(Town, g, came, closed, open, current, cursor) /\ GraphInv
  BY <1>1, SearchingFacts
<1>3. cursor < Town.first[current + 1]
  BY <1>1, TownIs
<1>4. /\ cursor \in EdgesOf(Town) /\ Town.from[cursor] = current /\ current \in closed
      /\ Walked(Town, closed, current, cursor + 1)
              = Walked(Town, closed, current, cursor) \cup ({cursor} \cap Roads(Town))
  BY <1>1, <1>2, <1>3, NextEdge
<1>5. /\ cursor \in DOMAIN edges /\ Town.from[cursor] = edges[cursor].from
      /\ Town.to[cursor] = edges[cursor].to /\ Town.cost[cursor] = CostOf(cursor)
      /\ cursor \in Roads(Town) <=> ~Barred(cursor)
  BY <1>2, <1>4, TownSizes
<1>6. Tentative = By(Town, g, cursor) /\ Tentative = g[current] + Town.cost[cursor]
  BY <1>4, <1>5 DEF Tentative, By
<1>7. Tentative \in Nat
  <2>1. g[current] \in Nat /\ Town.cost[cursor] \in Nat
    BY <1>2, <1>4, WalkedFacts, TownFacts
  <2> QED BY <1>6, <2>1
<1> QED BY <1>3, <1>4, <1>5, <1>6, <1>7

LEMMA PassByKeeps ==
  ASSUME StreetInv, PassBy
  PROVE  StreetInv'
<1>1. /\ Relaxing /\ (Barred(cursor) \/ Tentative > CostCap) /\ cursor' = cursor + 1
      /\ UNCHANGED <<phase, builtVars, askedVars, g, came, closed, open, best, arrival,
                     resolved, current>>
  BY DEF PassBy
<1>2. /\ phase = "searching" /\ current # 0
  BY <1>1 DEF Relaxing
<1>3. /\ IsTown(Town) /\ Explored(Town, g, came, closed, open, current, cursor)
      /\ Found(Town, g, closed, Walked(Town, closed, current, cursor), arrival, best, resolved)
      /\ Town' = Town /\ Town.cap = CostCap /\ CostCap \in Nat
  BY <1>1, <1>2, SearchingFacts, AskedStays, TownIs, TownFacts
<1> DEFINE W == Walked(Town, closed, current, cursor)
<1>4. /\ cursor < Town.first[current + 1]
      /\ Walked(Town, closed, current, cursor + 1) = W \cup ({cursor} \cap Roads(Town))
      /\ Tentative = By(Town, g, cursor) /\ Tentative \in Nat
      /\ Tentative = g[current] + Town.cost[cursor]
      /\ cursor \in Roads(Town) <=> ~Barred(cursor)
  BY <1>1, RelaxingFacts
<1>5. Explored(Town, g, came, closed, open, current, cursor + 1)
  BY <1>1, <1>2, <1>3, <1>4, PassesBy
<1>6. Found(Town, g, closed, W \cup ({cursor} \cap Roads(Town)), arrival, best, resolved)
  <2>1. CASE cursor \notin Roads(Town)
    <3>1. W \cup ({cursor} \cap Roads(Town)) = W
      BY <2>1
    <3> QED BY <1>3, <3>1
  <2>2. CASE cursor \in Roads(Town)
    <3>1. W \cup ({cursor} \cap Roads(Town)) = W \cup {cursor}
      BY <2>2
    <3>2. ~(By(Town, g, cursor) <= Town.cap)
      BY <1>1, <1>3, <1>4, <2>2
    <3> HIDE DEF W
    <3>3. Found(Town, g, closed, W, arrival, best, resolved)
      BY <1>3 DEF W
    <3> QED BY <3>1, <3>2, <3>3, NoArrival
  <2> QED BY <2>1, <2>2
<1>7. Searches(current, cursor)'
  <2>1. /\ g' = g /\ came' = came /\ closed' = closed /\ open' = open /\ best' = best
        /\ arrival' = arrival /\ resolved' = resolved /\ current' = current
    BY <1>1
  <2> QED BY <1>1, <1>3, <1>4, <1>5, <1>6, <2>1 DEF Searches
<1>8. current' # 0 /\ phase' = "searching"
  BY <1>1, <1>2
<1> QED BY <1>1, <1>2, <1>7, <1>8, GoesOnSearching

(* A candidate is walked to, or nothing new is found.                       *)
LEMMA RelaxFinds ==
  ASSUME StreetInv, Relax
  PROVE  Found(Town, g, closed, Walked(Town, closed, current, cursor) \cup {cursor},
               arrival', best', resolved)
<1> DEFINE W == Walked(Town, closed, current, cursor)
           n == edges[cursor].to
<1>1. /\ Relaxing /\ ~Barred(cursor) /\ Tentative <= CostCap
      /\ IF Arrives(n)
         THEN /\ arrival' = Put(arrival, n, [cost |-> Tentative, edge |-> cursor])
              /\ best' = [t \in DOMAIN best \cup Served(n) |->
                            IF t \notin Served(n) THEN best[t]
                            ELSE [total |-> Tentative + Offset(query.targets[t], n),
                                  node |-> n, real |-> TRUE]]
         ELSE arrival' = arrival /\ best' = best
  BY DEF Relax
<1>2. phase = "searching"
  BY <1>1 DEF Relaxing
<1>3. /\ IsTown(Town) /\ IsServed(Town) /\ GraphInv /\ IsAsked(query, sources, goals)
      /\ Explored(Town, g, came, closed, open, current, cursor)
      /\ Found(Town, g, closed, W, arrival, best, resolved)
      /\ Town.cap = CostCap
  BY <1>2, SearchingFacts, TownIs
<1>4. /\ cursor \in DOMAIN edges /\ Town.to[cursor] = n
      /\ Tentative = By(Town, g, cursor) /\ Tentative \in Nat
  BY <1>1, RelaxingFacts
<1>5. /\ \A j \in W : j \in EdgesOf(Town) /\ By(Town, g, j) \in Nat
      /\ \A m \in closed : Key(Town, g, m) \in Nat
  BY <1>3, WalkedFacts
<1>6. /\ DOMAIN Town.goals = Targets /\ \A t \in Targets : Town.goals[t] = Goals(t)
      /\ n \in Nodes /\ cursor \in EdgesOf(Town)
      /\ \A t \in Targets : Town.dues[t][n] = Offset(query.targets[t], n)
  <2>1. n \in Nodes /\ cursor \in EdgesOf(Town)
    BY <1>3, <1>4, GraphFacts, TownSizes
  <2> QED BY <2>1, TownIs
<1> HIDE DEF W, n
<1>7. CASE Arrives(n)
  <2>1. n \in DOMAIN arrival => Tentative < arrival[n].cost
    BY <1>7 DEF Arrives
  <2>2. /\ DOMAIN arrival' = DOMAIN arrival \cup {n}
        /\ arrival'[n].cost = Tentative /\ arrival'[n].edge = cursor
        /\ \A m \in DOMAIN arrival : m # n => arrival'[m] = arrival[m]
    BY <1>1, <1>7 DEF Put, n
  <2> DEFINE S == Served(n)
  <2>3. S = {u \in DOMAIN Town.goals :
               /\ n \in Town.goals[u]
               /\ u \in DOMAIN best => Tentative + Town.dues[u][n] < best[u].total}
    BY <1>6 DEF Served
  <2>4. S \subseteq Targets
    BY DEF Served
  <2>5. best' = [t \in DOMAIN best \cup S |->
                   IF t \notin S THEN best[t]
                   ELSE [total |-> Tentative + Offset(query.targets[t], n),
                         node |-> n, real |-> TRUE]]
    BY <1>1, <1>7 DEF n
  <2> HIDE DEF S
  <2>6. /\ DOMAIN best' = DOMAIN best \cup S
        /\ \A u \in S : /\ best'[u].real = TRUE /\ best'[u].node = n
                        /\ best'[u].total = Tentative + Town.dues[u][n]
        /\ \A u \in DOMAIN best \ S : best'[u] = best[u]
    BY <1>6, <2>4, <2>5
  <2> DEFINE arrival1 == arrival'
             best1    == best'
             sum      == Tentative
  <2>7. Found(Town, g, closed, W \cup {cursor}, arrival1, best1, resolved)
    <3> HIDE DEF arrival1, best1, sum
    <3>1. /\ NewArrival(arrival, arrival1, n, sum, cursor)
          /\ n \in DOMAIN arrival => sum < arrival[n].cost
      BY <2>1, <2>2 DEF arrival1, sum, NewArrival
    <3>2. /\ sum \in Nat /\ sum = By(Town, g, cursor) /\ sum <= Town.cap
          /\ n = Town.to[cursor] /\ cursor \in EdgesOf(Town)
      BY <1>1, <1>3, <1>4, <1>6 DEF sum
    <3>3. S = Better(Town, best, n, sum)
      BY <2>3, Zenon DEF sum, Better
    <3>4. NewAnswers(Town, best, best1, n, sum)
      BY <2>6, <3>3, Zenon DEF best1, sum, NewAnswers
    <3> QED BY <1>3, <1>5, <3>1, <3>2, <3>4, Arrival
  <2> QED BY <2>7 DEF W
<1>8. CASE ~Arrives(n)
  <2>1. arrival' = arrival /\ best' = best
    BY <1>1, <1>8 DEF n
  <2>2. \/ \A u \in DOMAIN Town.goals : Town.to[cursor] \notin Town.goals[u]
        \/ Town.to[cursor] \in DOMAIN arrival /\ ~(Tentative < arrival[n].cost)
    BY <1>4, <1>6, <1>8 DEF Arrives
  <2>3. \A m \in DOMAIN arrival : arrival[m].cost \in Nat
    BY <1>3, <1>5, AnswersType DEF Found
  <2>4. \/ \A u \in DOMAIN Town.goals : Town.to[cursor] \notin Town.goals[u]
        \/ Town.to[cursor] \in DOMAIN arrival /\ arrival[Town.to[cursor]].cost <= By(Town, g, cursor)
    BY <1>4, <2>2, <2>3
  <2>5. Found(Town, g, closed, W \cup {cursor}, arrival, best, resolved)
    BY <1>3, <2>4, NoArrival
  <2> QED BY <2>1, <2>5 DEF W
<1> QED BY <1>7, <1>8 DEF W

LEMMA RelaxKeeps ==
  ASSUME StreetInv, Relax
  PROVE  StreetInv'
<1> DEFINE W == Walked(Town, closed, current, cursor)
           n == edges[cursor].to
<1>1. /\ Relaxing /\ ~Barred(cursor) /\ Tentative <= CostCap /\ cursor' = cursor + 1
      /\ IF Improves(n)
         THEN /\ g' = Put(g, n, Tentative)
              /\ came' = Put(came, n, cursor)
              /\ open' = open \cup {[f |-> Tentative + Estimate(n), node |-> n]}
         ELSE g' = g /\ came' = came /\ open' = open
      /\ UNCHANGED <<phase, builtVars, askedVars, closed, resolved, current>>
  BY DEF Relax
<1>2. phase = "searching" /\ current # 0
  BY <1>1 DEF Relaxing
<1>3. /\ IsTown(Town) /\ GraphInv /\ IsAsked(query, sources, goals)
      /\ Explored(Town, g, came, closed, open, current, cursor)
      /\ Town.cap = CostCap /\ Town' = Town
  BY <1>1, <1>2, SearchingFacts, AskedStays, TownIs
<1>4. /\ cursor \in DOMAIN edges /\ Town.to[cursor] = n
      /\ cursor < Town.first[current + 1] /\ current \in closed
      /\ Walked(Town, closed, current, cursor + 1) = W \cup {cursor}
      /\ Tentative = g[current] + Town.cost[cursor]
      /\ cursor \in Roads(Town) /\ Town.from[cursor] = current
  <2>1. cursor \in Roads(Town)
    BY <1>1, RelaxingFacts
  <2> QED BY <1>1, <1>3, <2>1, RelaxingFacts, TownSizes
<1>5. n \in Nodes /\ Town.rest[n] = Estimate(n)
  BY <1>3, <1>4, GraphFacts, TownIs
<1>6. Found(Town, g, closed, W \cup {cursor}, arrival', best', resolved)
  BY RelaxFinds
<1>7. /\ Explored(Town, g', came', closed, open', current, cursor + 1)
      /\ \A m \in closed : g'[m] = g[m]
  <2> HIDE DEF W, n
  <2>1. CASE Improves(n)
    <3>1. n \notin closed /\ (n \in DOMAIN g => Tentative < g[n])
      BY <2>1 DEF Improves
    <3>2. /\ DOMAIN g' = DOMAIN g \cup {n} /\ g'[n] = Tentative
          /\ \A m \in DOMAIN g : m # n => g'[m] = g[m]
          /\ DOMAIN came' = DOMAIN came \cup {n} /\ came'[n] = cursor
          /\ \A m \in DOMAIN came : m # n => came'[m] = came[m]
      BY <1>1, <2>1 DEF Put, n
    <3>3. open' = open \cup {[f |-> Tentative + Town.rest[n], node |-> n]}
      BY <1>1, <1>5, <2>1 DEF n
    <3> DEFINE g1    == g'
               came1 == came'
               sum   == Tentative
    <3>4. Explored(Town, g1, came1, closed,
                   open \cup {[f |-> sum + Town.rest[n], node |-> n]}, current, cursor + 1)
      <4> HIDE DEF g1, came1, sum
      <4>1. /\ DOMAIN g1 = DOMAIN g \cup {n} /\ g1[n] = sum
            /\ \A m \in DOMAIN g : m # n => g1[m] = g[m]
            /\ DOMAIN came1 = DOMAIN came \cup {n} /\ came1[n] = cursor
            /\ \A m \in DOMAIN came : m # n => came1[m] = came[m]
        BY <3>2 DEF g1, came1, sum
      <4>2. /\ n = Town.to[cursor] /\ sum = g[current] + Town.cost[cursor]
            /\ sum <= Town.cap /\ (n \in DOMAIN g => sum < g[n])
        BY <1>1, <1>3, <1>4, <3>1 DEF sum
      <4> QED BY <1>2, <1>3, <1>4, <3>1, <4>1, <4>2, Improved
    <3>5. \A m \in closed : g'[m] = g[m]
      <4>1. closed \subseteq DOMAIN g
        BY <1>3 DEF Explored, Reached
      <4> QED BY <3>1, <3>2, <4>1
    <3> QED BY <3>3, <3>4, <3>5
  <2>2. CASE ~Improves(n)
    <3>1. g' = g /\ came' = came /\ open' = open
      BY <1>1, <2>2 DEF n
    <3>2. n \in closed \/ (n \in DOMAIN g /\ ~(Tentative < g[n]))
      BY <2>2 DEF Improves
    <3>3. Explored(Town, g, came, closed, open, current, cursor + 1)
      BY <1>2, <1>3, <1>4, <3>2, Keeps
    <3> QED BY <3>1, <3>3
  <2> QED BY <2>1, <2>2
<1>8. Found(Town, g', closed, W \cup {cursor}, arrival', best', resolved)
  <2>1. \A i \in W \cup {cursor} : Town.from[i] \in closed
    BY <1>3, <1>4, WalkedFacts
  <2> DEFINE g1 == g'
             X  == W \cup {cursor}
             arrival1 == arrival'
             best1 == best'
  <2>2. /\ Found(Town, g, closed, X, arrival1, best1, resolved)
        /\ \A i \in X : Town.from[i] \in closed
        /\ \A m \in closed : g1[m] = g[m]
    BY <1>6, <1>7, <2>1
  <2>3. Found(Town, g1, closed, X, arrival1, best1, resolved)
    <3> HIDE DEF g1, X, arrival1, best1
    <3> QED BY <2>2, FoundStays
  <2> QED BY <2>3
<1>9. Searches(current, cursor)'
  <2>1. closed' = closed /\ resolved' = resolved /\ current' = current
    BY <1>1
  <2> QED BY <1>1, <1>3, <1>4, <1>7, <1>8, <2>1 DEF Searches
<1>10. current' # 0 /\ phase' = "searching"
  BY <1>1, <1>2
<1> QED BY <1>1, <1>2, <1>9, <1>10, GoesOnSearching

LEMMA AssembleStays ==
  ASSUME UNCHANGED <<nodes, edges, query, came, best, arrival>>
  PROVE  \A t : Assemble(t)' = Assemble(t)
<1>1. /\ nodes' = nodes /\ edges' = edges /\ query' = query /\ came' = came
      /\ best' = best /\ arrival' = arrival
  OBVIOUS
<1>2. Nodes' = Nodes /\ \A i : CostOf(i)' = CostOf(i)
  BY <1>1, Zenon DEF Nodes, CostOf
<1>3. Chain' = Chain
  BY <1>1, <1>2, Zenon DEF Chain
<1>4. \A t : EdgesTo(t)' = EdgesTo(t)
  BY <1>1, <1>3, Zenon DEF EdgesTo
<1> QED BY <1>1, <1>2, <1>4, Zenon DEF Assemble, HasStairs, HasElevator

LEMMA AnswerKeeps ==
  ASSUME StreetInv, Answer
  PROVE  StreetInv'
<1>1. /\ phase = "found" /\ phase' = "answered"
      /\ result' = [t \in DOMAIN best |-> Assemble(t)]
      /\ UNCHANGED <<builtVars, askedVars, g, came, closed, open, best, arrival, resolved,
                     current, cursor>>
  BY DEF Answer
<1>2. /\ IsAsked(query, sources, goals) /\ Sources # {} /\ GraphInv /\ Built
      /\ current = 0 /\ \E cur : \E at : Ended(cur, at)
  <2>1. Begun
    BY <1>1 DEF Begun
  <2> QED BY <1>1, <2>1, SearchFacts DEF StreetInv, SearchInv
<1>3. /\ IsAsked(query, sources, goals)' /\ Sources' = Sources /\ Town' = Town
      /\ Targets' = Targets /\ start' = start
      /\ UNCHANGED <<nodes, edges, query, came, best, arrival>>
  BY <1>1, <1>2, AskedStays DEF builtVars, graphVars, askedVars
<1>4. GraphInv'
  BY <1>1, <1>2, GraphStays DEF askedVars
<1>5. \A cur, at : Ended(cur, at)' <=> Ended(cur, at)
  BY <1>1, <1>3 DEF Ended, Searches, Stands
<1>6. (\E cur : \E at : Ended(cur, at))'
  BY <1>2, <1>5
<1>7. result' = [t \in DOMAIN best |-> Assemble(t)]'
  <2>1. \A t : Assemble(t)' = Assemble(t)
    BY <1>3, AssembleStays
  <2>2. best' = best
    BY <1>3
  <2> QED BY <1>1, <2>1, <2>2, Zenon
<1>8. current' = 0 /\ Begun'
  BY <1>1, <1>2, <1>3 DEF Begun
<1> QED BY <1>1, <1>2, <1>3, <1>4, <1>6, <1>7, <1>8 DEF StreetInv, SearchInv

LEMMA BuildKeepsAll ==
  ASSUME StreetInv, Build
  PROVE  StreetInv'
<1>1. /\ UNCHANGED <<askedVars, searchVars>>
      /\ phase \in {"reading", "building"} /\ phase' \in {"reading", "building", "ready"}
  BY DEF Build, ReadTag, StartBuilding, PassOver, AddWay, Pack
<1>2. GraphInv'
  BY BuildKeeps DEF StreetInv
<1>3. ~Asked' /\ ~Begun' /\ NothingYet
  BY <1>1 DEF Asked, Begun, StreetInv, SearchInv
<1>4. NothingYet'
  BY <1>1, <1>3 DEF NothingYet, searchVars
<1> QED BY <1>1, <1>2, <1>3, <1>4 DEF StreetInv, SearchInv

LEMMA StreetStarts ==
  ASSUME Init
  PROVE  StreetInv
<1>1. /\ phase = "reading" /\ document \in Documents /\ unread = document
      /\ ctx = Outside /\ osm = EmptyDoc
      /\ ways = <<>> /\ nodes = <<>> /\ edges = <<>>
      /\ NothingYet
  BY DEF Init, NothingYet
<1>2. ReaderInv
  <2>1. IsExtract(document)
    BY <1>1, DocumentsAssumption
  <2>2. unread \in Seq(ToSet(document))
    BY <1>1, <2>1 DEF IsExtract, ToSet
  <2>3. osm \in OsmDoc
    BY <1>1, NoGraph DEF OsmDoc, EmptyDoc
  <2>4. IsContext(ctx)
    BY <1>1 DEF IsContext, Outside
  <2> QED BY <1>1, <2>2, <2>3, <2>4 DEF ReaderInv
<1>3. AreNodes(nodes) /\ AreEdges(edges, nodes) /\ ways \in Seq(OsmWay)
  BY <1>1, NoGraph
<1>4. GraphInv
  BY <1>1, <1>2, <1>3 DEF GraphInv, Built
<1>5. ~Asked /\ ~Begun
  BY <1>1 DEF Asked, Begun
<1> QED BY <1>1, <1>4, <1>5 DEF StreetInv, SearchInv

LEMMA StreetStutters ==
  ASSUME StreetInv, UNCHANGED vars
  PROVE  StreetInv'
<1>1. /\ phase' = phase /\ UNCHANGED <<builtVars, askedVars, searchVars>>
  BY DEF vars
<1>2. /\ document' = document /\ unread' = unread /\ osm' = osm /\ ctx' = ctx
      /\ ways' = ways /\ nodes' = nodes /\ edges' = edges /\ start' = start
      /\ query' = query /\ sources' = sources /\ goals' = goals
      /\ g' = g /\ came' = came /\ closed' = closed /\ open' = open /\ best' = best
      /\ arrival' = arrival /\ resolved' = resolved /\ current' = current /\ cursor' = cursor
      /\ result' = result
  BY <1>1 DEF builtVars, askedVars, searchVars, readerVars, graphVars
<1>3. GraphInv'
  <2>1. ReaderInv' /\ AreNodes(nodes)'
    BY <1>2 DEF StreetInv, GraphInv, ReaderInv, AreNodes
  <2> QED BY <1>1, <1>2, <2>1 DEF StreetInv, GraphInv, Built
<1>4. /\ Asked' = Asked /\ Begun' = Begun /\ Sources' = Sources /\ Targets' = Targets
      /\ NothingYet' = NothingYet
  BY <1>1, <1>2 DEF Asked, Begun, Sources, Targets, NothingYet
<1>5. Asked => IsAsked(query, sources, goals)' /\ Town' = Town
  BY <1>1, AskedStays DEF StreetInv, SearchInv
<1>6. Asked => \A cur, at : /\ Searches(cur, at)' <=> Searches(cur, at)
                            /\ Ended(cur, at)' <=> Ended(cur, at)
  BY <1>2, <1>4, <1>5 DEF Ended, Searches, Stands
<1>7. \A t : Assemble(t)' = Assemble(t)
  BY <1>2, AssembleStays
<1>8. [t \in DOMAIN best |-> Assemble(t)]' = [t \in DOMAIN best |-> Assemble(t)]
  BY <1>2, <1>7, Zenon
<1>9. Begun => Asked
  BY DEF Begun, Asked
<1>10. Asked => (Searches(current, cursor)' <=> Searches(current, cursor))
  BY <1>2, <1>4, <1>5 DEF Searches
<1>11. (Asked => IsAsked(query, sources, goals))' /\ (~Begun => NothingYet)'
  BY <1>4, <1>5 DEF StreetInv, SearchInv
<1>12. /\ (Begun => Sources # {})'
       /\ (phase = "searching" => Searches(current, cursor) /\ (current = 0 => cursor = 0))'
       /\ (phase \in {"found", "answered"} => current = 0)'
  <2>1. phase = "searching" => Asked
    BY DEF Asked
  <2> QED BY <1>1, <1>2, <1>4, <1>10, <2>1 DEF StreetInv, SearchInv
<1>13. (phase \in {"found", "answered"} /\ Begun => \E cur : \E at : Ended(cur, at))'
  BY <1>1, <1>4, <1>6, <1>9 DEF StreetInv, SearchInv
<1>14. (phase = "answered" /\ Begun => result = [t \in DOMAIN best |-> Assemble(t)])'
  <2>1. phase = "answered" /\ Begun => result = [t \in DOMAIN best |-> Assemble(t)]
    BY DEF StreetInv, SearchInv
  <2> QED BY <1>1, <1>2, <1>4, <1>8, <2>1
<1> QED BY <1>3, <1>11, <1>12, <1>13, <1>14 DEF StreetInv, SearchInv

LEMMA StreetStep ==
  ASSUME StreetInv, [Next]_vars
  PROVE  StreetInv'
<1>1. CASE Next
  BY <1>1, BuildKeepsAll, AskKeeps, NowhereKeeps, SeedKeeps, PopKeeps, ExhaustedKeeps,
     PassByKeeps, RelaxKeeps, RelaxedKeeps, AnswerKeeps, Zenon DEF Next
<1>2. CASE UNCHANGED vars
  BY <1>2, StreetStutters
<1> QED BY <1>1, <1>2

(* The invariant of the search: the graph is packed, and what has been found of it
   is what the edges looked at so far can tell.                            *)
THEOREM StreetInvariant == Spec => []StreetInv
<1>1. Init => StreetInv
  BY StreetStarts
<1>2. StreetInv /\ [Next]_vars => StreetInv'
  BY StreetStep
<1> QED BY <1>1, <1>2, PTL DEF Spec

(* What was reached, and by what, are functions.                            *)
AreMaps ==
  /\ g = [n \in DOMAIN g |-> g[n]]
  /\ came = [n \in DOMAIN came |-> came[n]]

LEMMA MapsStay ==
  ASSUME AreMaps, [Next]_vars
  PROVE  AreMaps'
<1>1. CASE g' = g /\ came' = came
  BY <1>1 DEF AreMaps
<1>2. CASE Seed
  BY <1>2 DEF Seed, AreMaps
<1>3. CASE Relax
  <2>1. \/ g' = g /\ came' = came
        \/ \E n : g' = Put(g, n, Tentative) /\ came' = Put(came, n, cursor)
    BY <1>3 DEF Relax
  <2>2. CASE \E n : g' = Put(g, n, Tentative) /\ came' = Put(came, n, cursor)
    BY <2>2 DEF Put, AreMaps
  <2> QED BY <1>1, <2>1, <2>2
<1>4. CASE ~(g' = g /\ came' = came)
  BY <1>2, <1>3, <1>4 DEF Next, Build, Ask, Nowhere, Pop, Exhausted, PassBy, Relaxed, Answer,
                          vars, searchVars
<1> QED BY <1>1, <1>4

LEMMA MapsStart ==
  ASSUME Init
  PROVE  AreMaps
<1>1. g = <<>> /\ came = <<>>
  BY DEF Init
<1> QED BY <1>1 DEF AreMaps

LEMMA BegunSearches ==
  ASSUME StreetInv, Begun
  PROVE  \E cur : \E at : Searches(cur, at)
BY DEF StreetInv, SearchInv, Begun, Ended

LEMMA StreetTypes ==
  ASSUME StreetInv, AreMaps
  PROVE  TypeOK
<1>1. /\ phase \in {"reading", "building", "ready", "asked", "searching", "found", "answered"}
      /\ ctx.in \in {"none", "node", "way", "skip"}
  BY DEF StreetInv, GraphInv, ReaderInv, IsContext
<1>2. /\ Nodes = 1 .. Len(nodes) /\ DOMAIN edges = 1 .. Len(edges)
      /\ \A i \in DOMAIN edges : edges[i].from \in Nodes /\ edges[i].to \in Nodes
                                 /\ edges[i].length \in Nat
  BY GraphFacts DEF StreetInv
<1>3. \A e \in ToSet(edges) : e.from \in Nodes /\ e.to \in Nodes /\ e.length \in Nat
  BY <1>2 DEF ToSet
<1>4. Built => start \in [1..(Len(nodes) + 1) -> 1..(Len(edges) + 1)]
  BY DEF StreetInv, GraphInv, Packed
<1>5. /\ DOMAIN g \subseteq Nodes /\ \A n \in DOMAIN g : g[n] \in Nat
      /\ DOMAIN came \subseteq DOMAIN g /\ \A n \in DOMAIN came : came[n] \in DOMAIN edges
      /\ closed \subseteq DOMAIN g
      /\ \A x \in open : x.node \in DOMAIN g
      /\ \A n \in DOMAIN arrival : arrival[n].edge \in DOMAIN edges /\ edges[arrival[n].edge].to = n
      /\ current \in Nodes \cup {0}
  <2>1. CASE ~Begun
    <3>1. /\ g = <<>> /\ came = <<>> /\ closed = {} /\ open = {} /\ arrival = <<>> /\ current = 0
      BY <2>1 DEF StreetInv, SearchInv, NothingYet
    <3>2. DOMAIN <<>> = {}
      OBVIOUS
    <3> QED BY <3>1, <3>2
  <2>2. CASE Begun
    <3>1. PICK cur, at : Searches(cur, at)
      BY <2>2, BegunSearches
    <3>2. IsTown(Town) /\ GraphInv
      BY <2>2, SearchFacts
    <3>3. /\ Reached(Town, g, closed, open) /\ Led(Town, g, came, Walked(Town, closed, cur, at))
          /\ Arrivals(Town, g, Walked(Town, closed, cur, at), arrival)
      BY <3>1 DEF Searches, Explored, Found
    <3>4. /\ NodesOf(Town) = Nodes
          /\ \A i \in Walked(Town, closed, cur, at) : i \in DOMAIN edges /\ Town.to[i] = edges[i].to
      BY <3>2, TownSizes DEF Walked
    <3>5. current \in Nodes \cup {0}
      <4>1. CASE phase = "searching"
        <5>1. InTurn(Town, g, closed, open, current) /\ Reached(Town, g, closed, open)
          BY <4>1, SearchingFacts DEF Explored
        <5> QED BY <3>4, <5>1 DEF InTurn, Reached
      <4>2. CASE phase # "searching"
        BY <2>2, <4>2 DEF StreetInv, SearchInv, Begun
      <4> QED BY <4>1, <4>2
    <3>6. /\ DOMAIN g \subseteq Nodes /\ \A n \in DOMAIN g : g[n] \in Nat
          /\ closed \subseteq DOMAIN g /\ \A x \in open : x.node \in DOMAIN g
      BY <3>3, <3>4 DEF Reached
    <3>7. DOMAIN came \subseteq DOMAIN g /\ \A n \in DOMAIN came : came[n] \in DOMAIN edges
      BY <3>3, <3>4 DEF Led
    <3>8. \A n \in DOMAIN arrival : arrival[n].edge \in DOMAIN edges /\ edges[arrival[n].edge].to = n
      BY <3>3, <3>4 DEF Arrivals
    <3> QED BY <3>5, <3>6, <3>7, <3>8
  <2> QED BY <2>1, <2>2
<1>6. g \in [DOMAIN g -> Nat] /\ came \in [DOMAIN came -> DOMAIN edges]
  BY <1>5 DEF AreMaps
<1> QED BY <1>1, <1>3, <1>4, <1>5, <1>6 DEF TypeOK

(* Every variable has its type, whatever the document and the query: no edge
   leads out of the graph, and what is searched is what has been built.     *)
THEOREM StreetTypeCorrect == Spec => []TypeOK
<1>1. Init => AreMaps
  BY MapsStart
<1>2. AreMaps /\ [Next]_vars => AreMaps'
  BY MapsStay
<1>3. StreetInv /\ AreMaps => TypeOK
  BY StreetTypes
<1> QED BY <1>1, <1>2, <1>3, StreetInvariant, PTL DEF Spec

LEMMA CheapestIsSettled ==
  ASSUME StreetInv
  PROVE  SettledIsCheapest
<1> SUFFICES ASSUME phase = "searching", current # 0, cursor = start[current]
             PROVE  g[current] = Min({Offset(query.from, s) + Cheapest[s][current] : s \in Sources})
  BY Zenon DEF SettledIsCheapest
<1> DEFINE S == {Offset(query.from, s) + Cheapest[s][current] : s \in Sources}
<1>1. /\ IsTown(Town) /\ Explored(Town, g, came, closed, open, current, Town.first[current])
      /\ GraphInv /\ IsAsked(query, sources, goals)
  BY SearchingFacts, TownIs
<1>2. /\ current \in NodesOf(Town) /\ g[current] \in Nat
      /\ \A s \in Town.sources : Town.offset[s] + Town.far[s][current] >= g[current]
      /\ \E s \in Town.sources : Town.offset[s] + Town.far[s][current] <= g[current]
  BY <1>1, SettledAtLeast
<1>3. /\ Town.sources = Sources /\ Town.far = Cheapest /\ Sources \subseteq Nodes
      /\ \A s \in Sources : Town.offset[s] = Offset(query.from, s)
      /\ NodesOf(Town) = Nodes
  BY <1>1, TownIs, AskedFacts, TownSizes
<1>4. \A s \in Sources : Offset(query.from, s) + Cheapest[s][current] \in Nat
  <2> TAKE s \in Sources
  <2>1. Town.offset[s] \in Nat
    BY <1>1, <1>3, TownFacts
  <2>2. Town.far[s][current] \in Nat
    BY <1>1, <1>2, <1>3 DEF IsTown, IsMeasured, IsSquare, NodesOf
  <2> QED BY <1>3, <2>1, <2>2
<1>5. g[current] \in S /\ \A y \in S : g[current] <= y
  <2>1. \A s \in Sources : Offset(query.from, s) + Cheapest[s][current] >= g[current]
    BY <1>2, <1>3
  <2>2. PICK s \in Sources : Offset(query.from, s) + Cheapest[s][current] <= g[current]
    BY <1>2, <1>3
  <2>3. Offset(query.from, s) + Cheapest[s][current] = g[current]
    BY <1>2, <1>4, <2>1, <2>2
  <2> QED BY <2>1, <2>3
<1>6. S \in SUBSET Nat /\ S # {}
  <2>1. \A y \in S : y \in Nat
    BY <1>4
  <2> HIDE DEF S
  <2> QED BY <1>5, <2>1
<1> HIDE DEF S
<1>7. Min(S) \in S /\ \A y \in S : Min(S) <= y
  BY <1>6, LeastOf
<1>8. g[current] = Min(S)
  <2>1. Min(S) <= g[current] /\ g[current] <= Min(S) /\ Min(S) \in Nat /\ g[current] \in Nat
    BY <1>2, <1>5, <1>6, <1>7
  <2> QED BY <2>1
<1> QED BY <1>8 DEF S

(* A node that is settled was reached as cheaply as it can be from any source: the
   estimate never closes a node too early, whatever the graph and the profile. *)
THEOREM NodesSettleCheapest == Spec => []SettledIsCheapest
<1>1. StreetInv => SettledIsCheapest
  BY CheapestIsSettled
<1> QED BY <1>1, StreetInvariant, PTL

-----------------------------------------------------------------------------
(* The walks that are answered.                                             *)
LEMMA ChainLinks ==
  ASSUME StreetInv, Begun
  PROVE  Chain = Links(Town, came, Chain)
<1> DEFINE Body(c) == [n \in Nodes |->
             IF n \in DOMAIN came THEN Append(c[edges[came[n]].from], came[n]) ELSE <<>>]
<1>1. PICK cur, at : Explored(Town, g, came, closed, open, cur, at)
  BY BegunSearches DEF Searches
<1>2. IsTown(Town) /\ GraphInv
  BY SearchFacts
<1>3. PICK c : c = Links(Town, came, c)
  BY <1>1, <1>2, LinksExist
<1>4. \A n \in DOMAIN came : Town.from[came[n]] = edges[came[n]].from
  BY <1>1, <1>2, TownSizes DEF Explored, Led, Walked
<1>5. NodesOf(Town) = Nodes
  BY <1>2, TownSizes
<1>6. \A f : Links(Town, came, f) = Body(f)
  <2> TAKE f
  <2>1. \A n \in Nodes :
          (IF n \in DOMAIN came THEN Append(f[Town.from[came[n]]], came[n]) ELSE <<>>)
            = (IF n \in DOMAIN came THEN Append(f[edges[came[n]].from], came[n]) ELSE <<>>)
    BY <1>4, Zenon
  <2> QED BY <1>5, <2>1, Zenon DEF Links
<1>7. Chain = CHOOSE f : f = Body(f)
  BY Zenon DEF Chain
<1>8. c = Body(c)
  BY <1>3, <1>6, Zenon
<1> HIDE DEF Body
<1>9. Chain = Body(Chain)
  BY <1>7, <1>8, Zenon
<1> QED BY <1>6, <1>9, Zenon

(* How the search ended that an answer is of.                               *)
LEMMA AnsweredFacts ==
  ASSUME StreetInv, phase = "answered", Sources # {}
  PROVE  /\ Begun /\ GraphInv /\ IsAsked(query, sources, goals)
         /\ IsTown(Town) /\ IsServed(Town)
         /\ result = [u \in DOMAIN best |-> Assemble(u)]
         /\ \E cur : \E at : Ended(cur, at)
<1>1. Begun
  BY DEF Begun
<1> QED BY <1>1, SearchFacts DEF StreetInv, SearchInv

LEMMA AnswerIsTrodden ==
  ASSUME StreetInv, phase = "answered", Sources # {}, NEW u \in DOMAIN best
  PROVE  /\ u \in Targets /\ best[u].node \in Goals(u)
         /\ \E cost \in Nat :
              /\ IsTrail(Town, Lowest(Town), EdgesTo(u), best[u].node, cost)
              /\ best[u].total = cost + Offset(query.targets[u], best[u].node)
<1> DEFINE n == best[u].node
           i == arrival[n].edge
<1>1. PICK cur, at : Ended(cur, at)
  BY AnsweredFacts
<1>2. /\ Explored(Town, g, came, closed, open, cur, at) /\ Stands(Town, open, cur, at)
      /\ Found(Town, g, closed, Walked(Town, closed, cur, at), arrival, best, resolved)
  BY <1>1 DEF Ended, Searches
<1>3. IsTown(Town) /\ IsServed(Town) /\ GraphInv /\ IsAsked(query, sources, goals) /\ Begun
  BY AnsweredFacts
<1>4. Chain = Links(Town, came, Chain)
  BY <1>3, ChainLinks
<1>5. Answers(Town, arrival, best)
  BY <1>2 DEF Found
<1>6. u \in DOMAIN Town.goals /\ IsAnswer(Town, arrival, u, best[u])
  BY <1>5 DEF Answers
<1>7. /\ DOMAIN Town.goals = Targets /\ Town.sources = Sources /\ Sources \subseteq Nodes
      /\ u \in Targets => /\ Town.goals[u] = Goals(u) /\ Goals(u) \subseteq Nodes
                          /\ \A m \in Nodes : Town.dues[u][m] = Offset(query.targets[u], m)
      /\ \A m \in Nodes : Town.offset[m] = Offset(query.from, m)
      /\ Town.near = sources[1] /\ Roads(Town) \subseteq DOMAIN edges
      /\ \A j \in DOMAIN edges : Town.from[j] = edges[j].from
  BY <1>3, TownIs, TownSizes, AskedFacts
<1>8. CASE best[u].real = TRUE
  <2>0. Trodden(Town, g, closed, arrival, best, Chain, u, n, i)
    <3>1. n = best[u].node /\ i = arrival[n].edge
      OBVIOUS
    <3> HIDE DEF n, i
    <3>2. Explored(Town, g, came, closed, open, cur, at)
      BY <1>2
    <3>3. Stands(Town, open, cur, at)
      BY <1>2
    <3>4. Found(Town, g, closed, Walked(Town, closed, cur, at), arrival, best, resolved)
      BY <1>2
    <3>5. IsTown(Town)
      BY <1>3
    <3>6. IsServed(Town)
      BY <1>3
    <3>7. n = best[u].node
      BY <3>1
    <3>8. i = arrival[n].edge
      BY <3>1
    <3> QED BY <1>4, <1>8, <3>2, <3>3, <3>4, <3>5, <3>6, <3>7, <3>8, AnswerIsTrail, Zenon
  <2>1. /\ n \in Town.goals[u] /\ u \in DOMAIN Town.goals /\ i \in Lowest(Town)
        /\ Town.from[i] \in closed
        /\ best[u].total = arrival[n].cost + Town.dues[u][n]
        /\ arrival[n].cost = g[Town.from[i]] + Town.cost[i]
        /\ IsTrail(Town, Lowest(Town), Append(Chain[Town.from[i]], i), n, arrival[n].cost)
    BY <2>0, Zenon DEF Trodden
  <2>2. i \in DOMAIN edges /\ i \in EdgesOf(Town)
    BY <1>7, <2>1, TownFacts, <1>3 DEF Lowest
  <2>3. EdgesTo(u) = Append(Chain[Town.from[i]], i)
    BY <1>7, <1>8, <2>2 DEF EdgesTo
  <2>4. arrival[n].cost \in Nat
    <3>1. g[Town.from[i]] \in Nat
      BY <1>2, <2>1 DEF Explored, Reached
    <3> HIDE DEF i
    <3>2. Town.cost[i] \in Nat
      BY <1>3, <2>2, TownFacts
    <3> QED BY <2>1, <3>1, <3>2
  <2> HIDE DEF i
  <2> QED BY <1>7, <2>1, <2>3, <2>4
<1>9. CASE best[u].real = FALSE
  <2>1. /\ u \in Town.alike /\ n = Town.near
        /\ best[u].total = Town.offset[n] + Town.dues[u][n]
    BY <1>6, <1>9 DEF IsAnswer
  <2>2. n \in Town.sources /\ n \in Town.goals[u]
    BY <1>3, <2>1 DEF IsServed
  <2>3. IsTrail(Town, Lowest(Town), <<>>, n, Town.offset[n])
    BY <1>3, <2>2, NoEdge
  <2>4. EdgesTo(u) = <<>>
    BY <1>9 DEF EdgesTo
  <2>5. Town.offset[n] \in Nat
    BY <1>3, <2>2, TownFacts
  <2> QED BY <1>6, <1>7, <2>1, <2>2, <2>3, <2>4, <2>5
<1>10. best[u].real \in BOOLEAN
  BY <1>6 DEF IsAnswer
<1> QED BY <1>8, <1>9, <1>10

(* An answer is put together of the edges of its trail.                      *)
Assembled(u, es, n, ns) ==
  /\ DOMAIN result = DOMAIN best /\ IsWay(Town, es, n, ns)
  /\ Len(es) \in Nat /\ DOMAIN es = 1 .. Len(es)
  /\ result[u].nodes = IF query.kind = "from_many" THEN Reverse(ns) ELSE ns
  /\ result[u].duration = Total(CostsOf(Town, es))
  /\ result[u].distance = Total([k \in 1 .. Len(es) |-> edges[es[k]].length])
  /\ result[u].stairs = HasStairs(es) /\ result[u].elevator = HasElevator(es)

LEMMA AnswerIsAssembled ==
  ASSUME StreetInv, phase = "answered", Sources # {}, NEW u \in DOMAIN best,
         NEW es, es = EdgesTo(u), NEW n, n = best[u].node
  PROVE  Assembled(u, es, n, Way(Town, es, n))
<1>1. IsTown(Town) /\ GraphInv /\ result = [v \in DOMAIN best |-> Assemble(v)]
  BY AnsweredFacts
<1>2. PICK cost \in Nat : IsTrail(Town, Lowest(Town), es, n, cost)
  BY AnswerIsTrodden
<1>3. Lowest(Town) \in SUBSET EdgesOf(Town)
  BY DEF Lowest, Roads
<1>4. IsWay(Town, es, n, Way(Town, es, n))
  BY <1>1, <1>2, <1>3, WayFacts
<1>5. /\ Len(es) \in Nat /\ DOMAIN es = 1 .. Len(es) /\ \A k \in 1 .. Len(es) : es[k] \in DOMAIN edges
      /\ es # <<>> => 1 \in 1 .. Len(es)
  <2>1. es \in Seq(Lowest(Town)) /\ Lowest(Town) \subseteq DOMAIN edges
    BY <1>1, <1>2, <1>3, TownSizes DEF IsTrail
  <2> HIDE DEF Lowest
  <2> QED BY <2>1
<1>6. \A j \in DOMAIN edges : Town.from[j] = edges[j].from /\ Town.to[j] = edges[j].to
                              /\ Town.cost[j] = CostOf(j)
  BY <1>1, TownSizes
<1> DEFINE first == IF es = <<>> THEN n ELSE edges[es[1]].from
           ns    == <<first>> \o [k \in DOMAIN es |-> edges[es[k]].to]
           fs    == [k \in DOMAIN es |-> CostOf(es[k])]
           ls    == [k \in DOMAIN es |-> edges[es[k]].length]
           steps == HasStairs(es)
           lifts == HasElevator(es)
<1>7. result[u] = [nodes    |-> IF query.kind = "from_many" THEN Reverse(ns) ELSE ns,
                   distance |-> SumOf(ls),
                   duration |-> SumOf(fs),
                   stairs   |-> steps,
                   elevator |-> lifts]
  <2>1. result[u] = Assemble(u)
    BY <1>1
  <2> QED BY <2>1, Zenon DEF Assemble
<1>8. first = Begins(Town, es, n)
  BY <1>5, <1>6 DEF Begins
<1>9. ns = Way(Town, es, n)
  <2>1. \A k \in DOMAIN es : edges[es[k]].to = Town.to[es[k]]
    BY <1>5, <1>6
  <2>2. [k \in DOMAIN es |-> edges[es[k]].to] = [k \in DOMAIN es |-> Town.to[es[k]]]
    BY <2>1, Zenon
  <2> HIDE DEF first
  <2> QED BY <1>8, <2>2, Zenon DEF Way
<1>10. fs = CostsOf(Town, es)
  <2>1. \A k \in DOMAIN es : CostOf(es[k]) = Town.cost[es[k]]
    BY <1>5, <1>6
  <2> QED BY <1>5, <2>1, Zenon DEF CostsOf
<1>11. ls = [k \in 1 .. Len(es) |-> edges[es[k]].length]
  BY <1>5, Zenon
<1>12. \A f : SumOf(f) = Total(f)
  BY Zenon DEF SumOf, Total
<1>13. DOMAIN result = DOMAIN best
  BY <1>1
<1> HIDE DEF ns, fs, ls, steps, lifts
<1>14. result[u].duration = SumOf(fs) /\ result[u].distance = SumOf(ls)
  BY <1>7
<1>15. result[u].nodes = IF query.kind = "from_many" THEN Reverse(ns) ELSE ns
  BY <1>7
<1>16. result[u].stairs = steps /\ result[u].elevator = lifts
  BY <1>7
<1> QED BY <1>4, <1>5, <1>9, <1>10, <1>11, <1>12, <1>13, <1>14, <1>15, <1>16, Zenon
   DEF Assembled, steps, lifts

(* Whichever way the nodes are given, the walk is between the ends of its trail. *)
LEMMA EndsFacts ==
  ASSUME NEW u, NEW es, NEW n, NEW ns, Assembled(u, es, n, ns)
  PROVE  Ends(u)[1] = Begins(Town, es, n) /\ Ends(u)[2] = n
<1> DEFINE N == Len(es)
           walk == result[u].nodes
<1>1. /\ N \in Nat /\ ns \in Seq(NodesOf(Town)) /\ Len(ns) = N + 1
      /\ ns[1] = Begins(Town, es, n) /\ ns[N + 1] = n
      /\ walk = IF query.kind = "from_many" THEN Reverse(ns) ELSE ns
  BY DEF Assembled, IsWay
<1>2. Ends(u) = IF query.kind = "from_many" THEN <<walk[Len(walk)], walk[1]>>
                ELSE <<walk[1], walk[Len(walk)]>>
  BY Zenon DEF Ends
<1> HIDE DEF N, walk
<1>3. CASE query.kind = "from_many"
  <2>1. Reverse(ns) = [k \in 1 .. N + 1 |-> ns[(N + 1) - k + 1]]
    BY <1>1, Zenon DEF Reverse
  <2>2. Len(Reverse(ns)) = N + 1 /\ Reverse(ns)[1] = ns[N + 1] /\ Reverse(ns)[N + 1] = ns[1]
    BY <1>1, <2>1
  <2> QED BY <1>1, <1>2, <1>3, <2>2
<1>4. CASE query.kind # "from_many"
  BY <1>1, <1>2, <1>4
<1> QED BY <1>3, <1>4

-----------------------------------------------------------------------------
(* What an answer is worth.                                                 *)
LEMMA TownTargets ==
  ASSUME StreetInv, phase = "answered", Sources # {}
  PROVE  /\ DOMAIN Town.goals = Targets /\ Town.sources = Sources /\ Sources \subseteq Nodes
         /\ Town.cap = CostCap /\ CostCap \in Nat /\ Town.near = sources[1]
         /\ \A n \in Nodes : Town.offset[n] = Offset(query.from, n)
         /\ \A u \in Targets :
              /\ Town.goals[u] = Goals(u) /\ Goals(u) \subseteq Nodes
              /\ u \in Town.alike <=> SameNearest(u)
              /\ \A n \in Nodes : /\ Town.dues[u][n] = Offset(query.targets[u], n)
                                  /\ Offset(query.targets[u], n) \in Nat
<1>1. IsTown(Town) /\ GraphInv /\ IsAsked(query, sources, goals)
  BY AnsweredFacts
<1>2. CostCap \in Nat
  BY <1>1, TownFacts, TownIs
<1>3. \A u \in Targets : query.targets[u] \in Place /\ Goals(u) \subseteq Nodes
  BY <1>1, AskedFacts
<1>4. Sources \subseteq Nodes
  BY <1>1, AskedFacts
<1>5. \A u \in Targets : \A n \in Nodes : Offset(query.targets[u], n) \in Nat
  BY <1>1, <1>3, OffsetType
<1> QED BY <1>2, <1>3, <1>4, <1>5, TownIs

IsPrice(u, p) ==
  \/ \E s \in Sources : \E i \in Roads(Town) : \E n \in Goals(u) :
       /\ Along(Town, s, i, n) <= CostCap
       /\ p = Along(Town, s, i, n) + Offset(query.targets[u], n)
  \/ /\ SameNearest(u)
     /\ p = Offset(query.from, sources[1]) + Offset(query.targets[u], sources[1])

LEMMA PricesAre ==
  ASSUME StreetInv, phase = "answered", Sources # {}, NEW u \in Targets
  PROVE  \A p : p \in Prices(u) <=> IsPrice(u, p)
<1> DEFINE A(w) == Offset(query.from, w[1]) + Cheapest[w[1]][edges[w[2]].from]
                     + CostOf(w[2]) + Cheapest[edges[w[2]].to][w[3]]
           due(w) == Offset(query.targets[u], w[3])
           all    == Sources \X (DOMAIN edges) \X Goals(u)
           walks  == {w \in all : ~Barred(w[2]) /\ A(w) <= CostCap}
           none   == Offset(query.from, sources[1]) + Offset(query.targets[u], sources[1])
<1>1. Prices(u) = {A(w) + due(w) : w \in walks} \cup {none : x \in {y \in {u} : SameNearest(y)}}
  BY Zenon DEF Prices
<1>2. GraphInv
  BY AnsweredFacts
<1>3. /\ Roads(Town) = {i \in DOMAIN edges : ~Barred(i)}
      /\ \A i \in DOMAIN edges : /\ Town.from[i] = edges[i].from /\ Town.to[i] = edges[i].to
                                 /\ Town.cost[i] = CostOf(i)
      /\ Town.far = Cheapest /\ Sources \subseteq Nodes
      /\ \A n \in Nodes : Town.offset[n] = Offset(query.from, n)
  BY <1>2, TownSizes, TownIs, TownTargets
<1>4. \A s \in Sources : \A i \in DOMAIN edges : \A n \in Goals(u) :
        A(<<s, i, n>>) = Along(Town, s, i, n)
  <2> SUFFICES ASSUME NEW s \in Sources, NEW i \in DOMAIN edges, NEW n \in Goals(u)
               PROVE  A(<<s, i, n>>) = Along(Town, s, i, n)
    OBVIOUS
  <2>1. /\ Town.offset[s] = Offset(query.from, s) /\ Town.from[i] = edges[i].from
        /\ Town.to[i] = edges[i].to /\ Town.cost[i] = CostOf(i) /\ Town.far = Cheapest
    BY <1>3
  <2>2. A(<<s, i, n>>) = Offset(query.from, s) + Cheapest[s][edges[i].from]
                           + CostOf(i) + Cheapest[edges[i].to][n]
    OBVIOUS
  <2> HIDE DEF A
  <2> QED BY <2>1, <2>2, Zenon DEF Along
<1>5. \A s, i, n : due(<<s, i, n>>) = Offset(query.targets[u], n)
  OBVIOUS
<1>6. /\ \A w \in all : \E s \in Sources : \E i \in DOMAIN edges : \E n \in Goals(u) :
           w = <<s, i, n>>
      /\ \A s \in Sources : \A i \in DOMAIN edges : \A n \in Goals(u) : <<s, i, n>> \in all
  OBVIOUS
<1> TAKE p
<1>7. (\E w \in walks : p = A(w) + due(w)) <=>
        \E s \in Sources : \E i \in Roads(Town) : \E n \in Goals(u) :
          /\ Along(Town, s, i, n) <= CostCap
          /\ p = Along(Town, s, i, n) + Offset(query.targets[u], n)
  <2>1. \A w \in walks : w \in all /\ ~Barred(w[2]) /\ A(w) <= CostCap
    OBVIOUS
  <2>2. \A w \in all : ~Barred(w[2]) /\ A(w) <= CostCap => w \in walks
    OBVIOUS
  <2>3. \A i : i \in Roads(Town) <=> i \in DOMAIN edges /\ ~Barred(i)
    BY <1>3
  <2> HIDE DEF A, due, all, walks
  <2>4. ASSUME NEW w \in walks, p = A(w) + due(w)
        PROVE  \E s \in Sources : \E i \in Roads(Town) : \E n \in Goals(u) :
                 /\ Along(Town, s, i, n) <= CostCap
                 /\ p = Along(Town, s, i, n) + Offset(query.targets[u], n)
    <3>1. PICK s \in Sources, i \in DOMAIN edges, n \in Goals(u) : w = <<s, i, n>>
      BY <1>6, <2>1, <2>4
    <3>2. w[2] = i
      BY <3>1
    <3>3. i \in Roads(Town) /\ A(w) <= CostCap
      BY <2>1, <2>3, <2>4, <3>2
    <3>4. A(w) = Along(Town, s, i, n) /\ due(w) = Offset(query.targets[u], n)
      BY <1>4, <1>5, <3>1
    <3> QED BY <2>4, <3>3, <3>4
  <2>5. ASSUME NEW s \in Sources, NEW i \in Roads(Town), NEW n \in Goals(u),
               Along(Town, s, i, n) <= CostCap,
               p = Along(Town, s, i, n) + Offset(query.targets[u], n)
        PROVE  \E w \in walks : p = A(w) + due(w)
    <3>1. i \in DOMAIN edges /\ ~Barred(i)
      BY <2>3
    <3>2. A(<<s, i, n>>) = Along(Town, s, i, n) /\ due(<<s, i, n>>) = Offset(query.targets[u], n)
      BY <1>4, <1>5, <3>1
    <3>3. <<s, i, n>> \in walks
      BY <1>6, <2>2, <2>5, <3>1, <3>2
    <3> QED BY <2>5, <3>2, <3>3
  <2> QED BY <2>4, <2>5
<1>8. p \in {A(w) + due(w) : w \in walks} <=> \E w \in walks : p = A(w) + due(w)
  BY Zenon
<1>9. p \in {none : x \in {y \in {u} : SameNearest(y)}} <=> SameNearest(u) /\ p = none
  BY Zenon
<1>10. p \in Prices(u) <=> (\E w \in walks : p = A(w) + due(w)) \/ (SameNearest(u) /\ p = none)
  BY <1>1, <1>8, <1>9, Zenon
<1> QED BY <1>7, <1>10, Zenon DEF IsPrice

(* An answer is at a price that a walk has, and no walk has a lower one.     *)
LEMMA BestOfPrices ==
  ASSUME StreetInv, phase = "answered", Sources # {}, NEW u \in Targets
  PROVE  /\ \A p : IsPrice(u, p) => p \in Nat /\ u \in DOMAIN best /\ best[u].total <= p
         /\ u \in DOMAIN best => IsPrice(u, best[u].total)
<1>1. PICK cur, at : Ended(cur, at)
  BY AnsweredFacts
<1>2. IsTown(Town) /\ IsServed(Town) /\ GraphInv
  BY AnsweredFacts
<1>3. Explored(Town, g, came, closed, open, cur, at)
  BY <1>1 DEF Ended, Searches
<1>4. Stands(Town, open, cur, at)
  BY <1>1 DEF Ended
<1>5. Found(Town, g, closed, Walked(Town, closed, cur, at), arrival, best, resolved)
  BY <1>1 DEF Ended, Searches
<1>6. cur # 0 => DOMAIN Town.goals \subseteq resolved
  BY <1>1, TownTargets DEF Ended
<1>7. /\ u \in DOMAIN Town.goals /\ Town.goals[u] = Goals(u) /\ Goals(u) \subseteq Nodes
      /\ u \in Town.alike <=> SameNearest(u)
      /\ \A n \in Nodes : /\ Town.dues[u][n] = Offset(query.targets[u], n)
                          /\ Offset(query.targets[u], n) \in Nat
      /\ \A n \in Nodes : Town.offset[n] = Offset(query.from, n)
      /\ Town.sources = Sources /\ Sources \subseteq Nodes /\ Town.cap = CostCap
      /\ Town.near = sources[1] /\ NodesOf(Town) = Nodes /\ EdgesOf(Town) = DOMAIN edges
  BY <1>2, TownTargets, TownSizes
<1>8. Answers(Town, arrival, best)
  BY <1>5 DEF Found
<1>9. ASSUME SameNearest(u)
      PROVE  /\ sources[1] \in Nodes /\ u \in DOMAIN best
             /\ Offset(query.from, sources[1]) \in Nat
             /\ best[u].total <= Offset(query.from, sources[1]) + Offset(query.targets[u], sources[1])
  <2>1. Town.near \in Town.sources /\ u \in Town.alike
    BY <1>2, <1>7, <1>9 DEF IsServed
  <2>2. u \in DOMAIN best /\ best[u].total <= Town.offset[Town.near] + Town.dues[u][Town.near]
    BY <1>8, <2>1 DEF Answers
  <2>3. Town.offset[Town.near] \in Nat
    BY <1>2, <2>1, TownFacts
  <2> QED BY <1>7, <2>1, <2>2, <2>3
<1>10. ASSUME NEW s \in Sources, NEW i \in Roads(Town), NEW n \in Goals(u),
              Along(Town, s, i, n) <= CostCap
       PROVE  /\ Along(Town, s, i, n) \in Nat /\ u \in DOMAIN best
              /\ best[u].total <= Along(Town, s, i, n) + Offset(query.targets[u], n)
  <2>1. Along(Town, s, i, n)
          = Town.offset[s] + Town.far[s][Town.from[i]] + Town.cost[i] + Town.far[Town.to[i]][n]
    BY Zenon DEF Along
  <2>2. /\ i \in EdgesOf(Town) /\ Town.from[i] \in NodesOf(Town) /\ Town.to[i] \in NodesOf(Town)
        /\ Town.cost[i] \in Nat /\ s \in NodesOf(Town) /\ n \in NodesOf(Town)
        /\ Town.offset[s] \in Nat
    BY <1>2, <1>7, TownFacts
  <2>3. \A m, k \in NodesOf(Town) : Town.far[m][k] \in Nat
    BY <1>2 DEF IsTown, IsMeasured, IsSquare, NodesOf
  <2>4. Along(Town, s, i, n) \in Nat
    BY <2>1, <2>2, <2>3
  <2>5. Along(Town, s, i, n) <= Town.cap /\ s \in Town.sources /\ n \in Town.goals[u]
    BY <1>7, <1>10
  <2>6. u \in DOMAIN best /\ best[u].total <= Along(Town, s, i, n) + Town.dues[u][n]
    BY <1>2, <1>3, <1>4, <1>5, <1>6, <1>7, <2>1, <2>5, NoneIsBetter
  <2> QED BY <1>7, <2>2, <2>4, <2>6
<1>11. ASSUME NEW p, IsPrice(u, p)
       PROVE  p \in Nat /\ u \in DOMAIN best /\ best[u].total <= p
  <2>1. CASE \E s \in Sources : \E i \in Roads(Town) : \E n \in Goals(u) :
               /\ Along(Town, s, i, n) <= CostCap
               /\ p = Along(Town, s, i, n) + Offset(query.targets[u], n)
    <3>1. PICK s \in Sources, i \in Roads(Town), n \in Goals(u) :
            /\ Along(Town, s, i, n) <= CostCap
            /\ p = Along(Town, s, i, n) + Offset(query.targets[u], n)
      BY <2>1
    <3>2. Offset(query.targets[u], n) \in Nat
      BY <1>7
    <3> QED BY <1>10, <3>1, <3>2
  <2>2. CASE /\ SameNearest(u)
             /\ p = Offset(query.from, sources[1]) + Offset(query.targets[u], sources[1])
    <3>1. Offset(query.targets[u], sources[1]) \in Nat
      BY <1>7, <1>9, <2>2
    <3> QED BY <1>9, <2>2, <3>1
  <2> QED BY <1>11, <2>1, <2>2 DEF IsPrice
<1>12. ASSUME u \in DOMAIN best PROVE IsPrice(u, best[u].total)
  <2> DEFINE n == best[u].node
             i == arrival[n].edge
  <2>1. IsAnswer(Town, arrival, u, best[u])
    BY <1>8, <1>12 DEF Answers
  <2>2. CASE best[u].real = TRUE
    <3>1. Chain = Links(Town, came, Chain)
      BY AnsweredFacts, ChainLinks
    <3>2. Trodden(Town, g, closed, arrival, best, Chain, u, n, i)
      <4>1. n = best[u].node /\ i = arrival[n].edge
        OBVIOUS
      <4> HIDE DEF n, i
      <4> QED BY <1>2, <1>3, <1>4, <1>5, <1>12, <2>2, <3>1, <4>1, AnswerIsTrail, Zenon
    <3>3. /\ n \in Town.goals[u] /\ i \in Roads(Town) /\ Town.to[i] = n /\ Town.from[i] \in closed
          /\ best[u].total = arrival[n].cost + Town.dues[u][n]
          /\ arrival[n].cost = g[Town.from[i]] + Town.cost[i] /\ arrival[n].cost <= Town.cap
      BY <3>2, Zenon DEF Trodden, Lowest
    <3>4. n = best[u].node
      OBVIOUS
    <3>5. i = arrival[n].edge
      OBVIOUS
    <3> HIDE DEF n, i
    <3>6. IsPriceOf(Town, u, i, n, best[u].total)
      <4>1. IsTown(Town) /\ IsServed(Town) /\ u \in DOMAIN Town.goals
        BY <1>2, <1>7
      <4> QED BY <1>3, <1>4, <1>5, <1>6, <1>12, <2>2, <3>3, <3>4, <3>5, <4>1,
                 AnswerHasPrice, Zenon
    <3> QED BY <1>7, <3>3, <3>6 DEF IsPrice, IsPriceOf
  <2>3. CASE best[u].real = FALSE
    <3>1. u \in Town.alike /\ best[u].total = Town.offset[Town.near] + Town.dues[u][Town.near]
      BY <2>1, <2>3 DEF IsAnswer
    <3>2. Town.near \in Town.sources
      BY <1>2, <3>1 DEF IsServed
    <3> QED BY <1>7, <3>1, <3>2 DEF IsPrice
  <2> QED BY <2>1, <2>2, <2>3 DEF IsAnswer
<1> QED BY <1>11, <1>12

LEMMA WorthOfAnswer ==
  ASSUME StreetInv, phase = "answered", Sources # {}, NEW u \in DOMAIN best
  PROVE  Offset(query.from, Ends(u)[1]) + result[u].duration
           + Offset(query.targets[u], Ends(u)[2]) = best[u].total
<1> DEFINE es == EdgesTo(u)
           n  == best[u].node
           ns == Way(Town, es, n)
           b  == Begins(Town, es, n)
           d  == Total(CostsOf(Town, es))
<1>1. PICK cost \in Nat : /\ IsTrail(Town, Lowest(Town), es, n, cost)
                          /\ best[u].total = cost + Offset(query.targets[u], n)
  BY AnswerIsTrodden
<1>2. Assembled(u, es, n, ns)
  BY AnswerIsAssembled
<1>3. cost = Town.offset[b] + d /\ b \in Town.sources
  BY <1>1 DEF IsTrail
<1>4. result[u].duration = d
  BY <1>2 DEF Assembled
<1>5. Ends(u)[1] = b /\ Ends(u)[2] = n
  BY <1>2, EndsFacts
<1>6. Town.offset[b] = Offset(query.from, b)
  BY <1>3, AnsweredFacts, TownTargets
<1> HIDE DEF es, n, ns, b, d
<1>7. Offset(query.from, b) + d + Offset(query.targets[u], n) = best[u].total
  BY <1>1, <1>3, <1>6
<1> QED BY <1>4, <1>5, <1>7, Zenon

LEMMA AnswersAreBest ==
  ASSUME StreetInv
  PROVE  WalkIsBest
<1> SUFFICES ASSUME phase = "answered", Sources # {}, NEW t \in Targets
             PROVE  /\ t \in DOMAIN result <=> Prices(t) # {}
                    /\ t \in DOMAIN result =>
                         Offset(query.from, Ends(t)[1]) + result[t].duration
                           + Offset(query.targets[t], Ends(t)[2]) = Min(Prices(t))
  BY Zenon DEF WalkIsBest
<1>1. DOMAIN result = DOMAIN best
  BY AnsweredFacts
<1>2. /\ \A p : p \in Prices(t) => p \in Nat /\ t \in DOMAIN best /\ best[t].total <= p
      /\ t \in DOMAIN best => best[t].total \in Prices(t)
  BY BestOfPrices, PricesAre
<1>3. t \in DOMAIN result <=> Prices(t) # {}
  BY <1>1, <1>2
<1>4. ASSUME t \in DOMAIN result
      PROVE  Offset(query.from, Ends(t)[1]) + result[t].duration
               + Offset(query.targets[t], Ends(t)[2]) = Min(Prices(t))
  <2> DEFINE S     == Prices(t)
             total == best[t].total
  <2>1. S \in SUBSET Nat /\ S # {} /\ total \in S /\ \A p \in S : total <= p
    BY <1>1, <1>2, <1>4
  <2>2. Offset(query.from, Ends(t)[1]) + result[t].duration
          + Offset(query.targets[t], Ends(t)[2]) = total
    BY <1>1, <1>4, WorthOfAnswer
  <2> SUFFICES total = Min(S)
    BY <2>2, Zenon
  <2> HIDE DEF S, total
  <2>3. Min(S) \in S /\ \A p \in S : Min(S) <= p
    BY <2>1, LeastOf
  <2>4. Min(S) <= total /\ total <= Min(S) /\ Min(S) \in Nat /\ total \in Nat
    BY <2>1, <2>3
  <2> QED BY <2>4
<1> QED BY <1>3, <1>4

(* Of all the walks within the limit between what the two ends may snap to, a
   target's answer is the cheapest, and there is one whenever there is such a
   walk: for every graph, query and profile, and any order of equal entries. *)
THEOREM WalksAreBest == Spec => []WalkIsBest
<1> QED BY AnswersAreBest, StreetInvariant, PTL

-----------------------------------------------------------------------------
(* What is walked.  Edges as long and with the same attributes cost as much. *)
CostOfLike(length, attrs, profile) ==
  LET byStairs == IF attrs.stairs THEN profile.stairs ELSE 1
      byWheel  == CASE attrs.wheelchair = "no"      -> Max({profile.stairs, 2})
                    [] attrs.wheelchair = "unknown" -> profile.unknown
                    [] OTHER                        -> 1
      excess   == Max({0, attrs.slope - profile.slope})
  IN  (length * byStairs * byWheel * (10 + excess)) \div 10

LEMMA CostIsOfLike ==
  ASSUME NEW i, NEW j, Opposite(edges[i], edges[j])
  PROVE  CostOf(j) = CostOf(i) /\ Barred(j) = Barred(i)
<1>1. edges[j].length = edges[i].length /\ edges[j].attrs = edges[i].attrs
  BY DEF Opposite
<1>2. \A k : CostOf(k) = CostOfLike(edges[k].length, edges[k].attrs, query.profile)
  BY Zenon DEF CostOf, EdgeCost, CostOfLike
<1>3. CostOf(j) = CostOf(i)
  BY <1>1, <1>2, Zenon
<1>4. Barred(j) = Barred(i)
  BY <1>1, Zenon DEF Barred
<1> QED BY <1>3, <1>4

(* The edges that a hop may have been made by, in either direction.          *)
On(walk, k) ==
  {i \in DOMAIN edges :
     {walk[k], walk[k + 1]} = {edges[i].from, edges[i].to} /\ ~Barred(i)}

(* The cheapest of them, and those with stairs or an elevator.               *)
LeastOn(walk, k) == {i \in On(walk, k) : \A j \in On(walk, k) : CostOf(i) <= CostOf(j)}

Stairs    == {i \in DOMAIN edges : edges[i].attrs.stairs}
Elevators == {i \in DOMAIN edges : edges[i].attrs.elevator}

LEMMA HopIsLowest ==
  ASSUME GraphInv, query \in QueriesOn(document), NEW j \in Lowest(Town), NEW walk, NEW k,
         {walk[k], walk[k + 1]} = {edges[j].from, edges[j].to}
  PROVE  /\ j \in On(walk, k) /\ j \in LeastOn(walk, k)
         /\ Min({CostOf(i) : i \in On(walk, k)}) = CostOf(j)
<1> DEFINE S == {CostOf(i) : i \in On(walk, k)}
<1>1. /\ Roads(Town) = {i \in DOMAIN edges : ~Barred(i)}
      /\ \A i \in DOMAIN edges : Town.from[i] = edges[i].from /\ Town.to[i] = edges[i].to
                                 /\ Town.cost[i] = CostOf(i)
  BY TownSizes
<1>2. /\ j \in DOMAIN edges /\ ~Barred(j)
      /\ \A i \in DOMAIN edges :
           ~Barred(i) /\ edges[i].from = edges[j].from /\ edges[i].to = edges[j].to =>
             CostOf(j) <= CostOf(i)
  BY <1>1 DEF Lowest
<1>3. j \in On(walk, k)
  BY <1>2 DEF On
<1>4. ASSUME NEW i \in On(walk, k) PROVE CostOf(j) <= CostOf(i)
  <2>1. /\ i \in DOMAIN edges /\ ~Barred(i)
        /\ {edges[i].from, edges[i].to} = {edges[j].from, edges[j].to}
    BY DEF On
  <2>2. \/ edges[i].from = edges[j].from /\ edges[i].to = edges[j].to
        \/ edges[i].from = edges[j].to /\ edges[i].to = edges[j].from
    <3> DEFINE a == edges[i].from
               b == edges[i].to
               c == edges[j].from
               d == edges[j].to
    <3>1. {a, b} = {c, d}
      BY <2>1
    <3> HIDE DEF a, b, c, d
    <3>2. (a = c /\ b = d) \/ (a = d /\ b = c)
      BY <3>1
    <3> QED BY <3>2 DEF a, b, c, d
  <2>3. CASE edges[i].from = edges[j].from /\ edges[i].to = edges[j].to
    BY <1>2, <2>1, <2>3
  <2>4. CASE edges[i].from = edges[j].to /\ edges[i].to = edges[j].from
    <3>1. PICK h \in DOMAIN edges : Opposite(edges[i], edges[h])
      BY <2>1, GraphFacts
    <3>2. CostOf(h) = CostOf(i) /\ Barred(h) = Barred(i)
      BY <3>1, CostIsOfLike
    <3>3. edges[h].from = edges[j].from /\ edges[h].to = edges[j].to
      BY <2>4, <3>1 DEF Opposite
    <3> QED BY <1>2, <2>1, <3>2, <3>3
  <2> QED BY <2>2, <2>3, <2>4
<1>5. \A i \in DOMAIN edges : CostOf(i) \in Nat
  BY CostFacts
<1>6. S \in SUBSET Nat /\ S # {} /\ CostOf(j) \in S /\ \A y \in S : CostOf(j) <= y
  BY <1>3, <1>4, <1>5 DEF On
<1> DEFINE c == CostOf(j)
<1>7. c \in S /\ c \in Nat /\ \A y \in S : c <= y
  BY <1>6
<1> SUFFICES Min(S) = c
  BY <1>3, <1>4 DEF LeastOn
<1> HIDE DEF S, c
<1>8. Min(S) \in S /\ \A y \in S : Min(S) <= y
  BY <1>6, LeastOf
<1>9. Min(S) <= c /\ c <= Min(S) /\ Min(S) \in Nat
  BY <1>6, <1>7, <1>8
<1> QED BY <1>7, <1>9

(* The k-th hop is made by this edge of the trail.                           *)
Turn(n, k) == IF query.kind = "from_many" THEN n + 1 - k ELSE k

LEMMA HopsAreEdges ==
  ASSUME NEW u, NEW es, NEW n, NEW ns, Assembled(u, es, n, ns), NEW walk, walk = result[u].nodes
  PROVE  /\ Len(walk) = Len(es) + 1
         /\ \A k \in 1 .. Len(es) :
              /\ Turn(Len(es), k) \in 1 .. Len(es)
              /\ \/ /\ walk[k] = Town.from[es[Turn(Len(es), k)]]
                    /\ walk[k + 1] = Town.to[es[Turn(Len(es), k)]]
                 \/ /\ walk[k] = Town.to[es[Turn(Len(es), k)]]
                    /\ walk[k + 1] = Town.from[es[Turn(Len(es), k)]]
<1> DEFINE N == Len(es)
<1>1. /\ N \in Nat /\ ns \in Seq(NodesOf(Town)) /\ Len(ns) = N + 1
      /\ \A k \in 1 .. N : ns[k] = Town.from[es[k]] /\ ns[k + 1] = Town.to[es[k]]
      /\ walk = IF query.kind = "from_many" THEN Reverse(ns) ELSE ns
  BY DEF Assembled, IsWay
<1> HIDE DEF N
<1> SUFFICES /\ Len(walk) = N + 1
             /\ \A k \in 1 .. N :
                  /\ Turn(N, k) \in 1 .. N
                  /\ \/ walk[k] = Town.from[es[Turn(N, k)]] /\ walk[k + 1] = Town.to[es[Turn(N, k)]]
                     \/ walk[k] = Town.to[es[Turn(N, k)]] /\ walk[k + 1] = Town.from[es[Turn(N, k)]]
  BY DEF N
<1>2. CASE query.kind = "from_many"
  <2>1. walk = [k \in 1 .. N + 1 |-> ns[(N + 1) - k + 1]]
    BY <1>1, <1>2, Zenon DEF Reverse
  <2>2. Len(walk) = N + 1
    BY <1>1, <2>1
  <2>3. ASSUME NEW k \in 1 .. N
        PROVE  /\ Turn(N, k) \in 1 .. N
               /\ walk[k] = ns[Turn(N, k) + 1] /\ walk[k + 1] = ns[Turn(N, k)]
    <3>1. Turn(N, k) = N + 1 - k
      BY <1>2 DEF Turn
    <3>2. /\ k \in 1 .. N + 1 /\ k + 1 \in 1 .. N + 1 /\ N + 1 - k \in 1 .. N
          /\ (N + 1) - k + 1 = (N + 1 - k) + 1 /\ (N + 1) - (k + 1) + 1 = N + 1 - k
      BY <1>1
    <3> QED BY <2>1, <3>1, <3>2
  <2> QED BY <1>1, <2>2, <2>3
<1>3. CASE query.kind # "from_many"
  BY <1>1, <1>3 DEF Turn
<1> QED BY <1>2, <1>3

LEMMA EitherWay ==
  ASSUME NEW n \in Nat, NEW f \in [1 .. n -> Int], NEW h \in [1 .. n -> Int],
         \A k \in 1 .. n : h[k] = f[Turn(n, k)]
  PROVE  Total(h) = Total(f)
<1>1. CASE query.kind = "from_many"
  <2>1. \A k \in 1 .. n : h[k] = f[n + 1 - k]
    BY <1>1 DEF Turn
  <2> QED BY <2>1, TotalBackwards
<1>2. CASE query.kind # "from_many"
  <2>1. h = f
    BY <1>2 DEF Turn
  <2> QED BY <2>1, Zenon
<1> QED BY <1>1, <1>2

IsReal(t, walk) ==
  LET hops == 1 .. (Len(walk) - 1)
  IN  /\ \A k \in hops : On(walk, k) # {}
      /\ result[t].distance
           = SumOf([k \in hops |-> Dist(PlaceOf(walk[k]), PlaceOf(walk[k + 1]))])
      /\ result[t].duration = SumOf([k \in hops |-> Min({CostOf(i) : i \in On(walk, k)})])
      /\ result[t].stairs => ~query.profile.forbid
      /\ Tells(result[t].stairs, [k \in hops |-> LeastOn(walk, k)], Stairs)
      /\ Tells(result[t].elevator, [k \in hops |-> LeastOn(walk, k)], Elevators)

LEMMA AnswersAreReal ==
  ASSUME StreetInv
  PROVE  WalkIsReal
<1> SUFFICES ASSUME phase = "answered", NEW t \in DOMAIN result,
                    NEW walk, walk = result[t].nodes
             PROVE  IsReal(t, walk)
  <2>1. WalkIsReal <=>
          (phase = "answered" => \A t \in DOMAIN result : IsReal(t, result[t].nodes))
    BY ZenonT(30) DEF WalkIsReal, IsReal, On, LeastOn, Stairs, Elevators
  <2> QED BY <2>1, Zenon
<1>1. Sources # {}
  <2> SUFFICES ASSUME Sources = {} PROVE FALSE
    OBVIOUS
  <2>1. ~Begun
    BY DEF Begun
  <2>2. result = <<>>
    BY <2>1 DEF StreetInv, SearchInv, NothingYet
  <2>3. DOMAIN result = {}
    BY <2>2
  <2> QED BY <2>3
<1> DEFINE es == EdgesTo(t)
           n  == best[t].node
           N  == Len(es)
           at(k) == es[Turn(N, k)]
<1>2. GraphInv /\ IsTown(Town) /\ query \in QueriesOn(document) /\ t \in DOMAIN best
  BY <1>1, AnsweredFacts DEF IsAsked
<1>3. Assembled(t, es, n, Way(Town, es, n))
  BY <1>1, <1>2, AnswerIsAssembled
<1>4. \E cost \in Nat : IsTrail(Town, Lowest(Town), es, n, cost)
  BY <1>1, <1>2, AnswerIsTrodden
<1>5. /\ N \in Nat /\ DOMAIN es = 1 .. N
      /\ \A k \in 1 .. N : es[k] \in Lowest(Town)
  <2>1. es \in Seq(Lowest(Town))
    BY <1>4 DEF IsTrail
  <2> HIDE DEF es
  <2> QED BY <2>1
<1>6. /\ \A j \in Lowest(Town) : j \in DOMAIN edges /\ ~Barred(j)
      /\ \A j \in DOMAIN edges : Town.from[j] = edges[j].from /\ Town.to[j] = edges[j].to
                                 /\ Town.cost[j] = CostOf(j)
  BY <1>2, TownSizes DEF Lowest
<1>7. /\ Len(walk) = N + 1
      /\ \A k \in 1 .. N :
           /\ Turn(N, k) \in 1 .. N
           /\ \/ walk[k] = Town.from[at(k)] /\ walk[k + 1] = Town.to[at(k)]
              \/ walk[k] = Town.to[at(k)] /\ walk[k + 1] = Town.from[at(k)]
  BY <1>3, HopsAreEdges
<1> HIDE DEF es, n, N
<1>8. ASSUME NEW k \in 1 .. N
      PROVE  /\ at(k) \in Lowest(Town) /\ at(k) \in DOMAIN edges
             /\ \/ walk[k] = edges[at(k)].from /\ walk[k + 1] = edges[at(k)].to
                \/ walk[k] = edges[at(k)].to /\ walk[k + 1] = edges[at(k)].from
             /\ at(k) \in On(walk, k) /\ at(k) \in LeastOn(walk, k)
             /\ Min({CostOf(i) : i \in On(walk, k)}) = CostOf(at(k))
  <2>1. Turn(N, k) \in 1 .. N
    BY <1>7
  <2>2. at(k) \in Lowest(Town) /\ at(k) \in DOMAIN edges
    BY <1>5, <1>6, <2>1
  <2>3. \/ walk[k] = edges[at(k)].from /\ walk[k + 1] = edges[at(k)].to
        \/ walk[k] = edges[at(k)].to /\ walk[k + 1] = edges[at(k)].from
    BY <1>6, <1>7, <2>2
  <2> DEFINE j == at(k)
  <2>4. j \in Lowest(Town) /\ {walk[k], walk[k + 1]} = {edges[j].from, edges[j].to}
    <3>1. \/ walk[k] = edges[j].from /\ walk[k + 1] = edges[j].to
          \/ walk[k] = edges[j].to /\ walk[k + 1] = edges[j].from
      BY <2>3
    <3> HIDE DEF j
    <3>2. {walk[k], walk[k + 1]} = {edges[j].from, edges[j].to}
      BY <3>1
    <3> QED BY <2>2, <3>2 DEF j
  <2> HIDE DEF j
  <2>5. /\ j \in On(walk, k) /\ j \in LeastOn(walk, k)
        /\ Min({CostOf(i) : i \in On(walk, k)}) = CostOf(j)
    BY <1>2, <2>4, HopIsLowest
  <2> QED BY <2>2, <2>3, <2>5 DEF j
<1> DEFINE hops == 1 .. (Len(walk) - 1)
<1>9. hops = 1 .. N
  BY <1>5, <1>7
<1>10. \A k \in hops : On(walk, k) # {}
  BY <1>8, <1>9
<1>11. result[t].distance
         = SumOf([k \in hops |-> Dist(PlaceOf(walk[k]), PlaceOf(walk[k + 1]))])
  <2> DEFINE f == [k \in 1 .. N |-> edges[es[k]].length]
             h == [k \in 1 .. N |-> Dist(PlaceOf(walk[k]), PlaceOf(walk[k + 1]))]
  <2>1. ASSUME NEW k \in 1 .. N
        PROVE  /\ Dist(PlaceOf(walk[k]), PlaceOf(walk[k + 1])) = edges[at(k)].length
               /\ edges[es[k]].length \in Int
    <3>1. /\ edges[at(k)].length
               = Dist(PlaceOf(edges[at(k)].from), PlaceOf(edges[at(k)].to))
          /\ PlaceOf(edges[at(k)].from) \in Place /\ PlaceOf(edges[at(k)].to) \in Place
      BY <1>2, <1>8, GraphFacts
    <3>2. Dist(PlaceOf(edges[at(k)].from), PlaceOf(edges[at(k)].to))
            = Dist(PlaceOf(edges[at(k)].to), PlaceOf(edges[at(k)].from))
      BY <3>1, DistFacts
    <3>3. es[k] \in DOMAIN edges
      BY <1>5, <1>6
    <3>4. edges[es[k]].length \in Int
      BY <1>2, <3>3, GraphFacts
    <3> HIDE DEF at
    <3>5. Dist(PlaceOf(walk[k]), PlaceOf(walk[k + 1])) = edges[at(k)].length
      BY <1>8, <3>1, <3>2
    <3> QED BY <3>4, <3>5 DEF at
  <2>2. \A k \in 1 .. N : h[k] = f[Turn(N, k)]
    BY <1>7, <2>1
  <2>3. f \in [1 .. N -> Int]
    BY <2>1
  <2>4. h \in [1 .. N -> Int]
    <3>1. \A k \in 1 .. N : h[k] \in Int
      BY <1>7, <2>2, <2>3
    <3> QED BY <3>1
  <2>5. result[t].distance = Total(f)
    BY <1>3 DEF Assembled, N
  <2>6. SumOf(h) = Total(h)
    BY Zenon DEF SumOf, Total
  <2> SUFFICES result[t].distance = SumOf(h)
    BY <1>9, Zenon
  <2> HIDE DEF f, h
  <2>7. Total(h) = Total(f)
    BY <1>5, <2>2, <2>3, <2>4, EitherWay
  <2> QED BY <2>5, <2>6, <2>7
<1>12. result[t].duration = SumOf([k \in hops |-> Min({CostOf(i) : i \in On(walk, k)})])
  <2> DEFINE f == [k \in 1 .. N |-> Town.cost[es[k]]]
             h == [k \in 1 .. N |-> Min({CostOf(i) : i \in On(walk, k)})]
  <2>1. \A k \in 1 .. N : Town.cost[es[k]] \in Int
    BY <1>2, <1>5, TownFacts DEF Lowest, Roads
  <2>2. \A k \in 1 .. N : Min({CostOf(i) : i \in On(walk, k)}) = Town.cost[at(k)]
    BY <1>6, <1>8
  <2>3. \A k \in 1 .. N : h[k] = f[Turn(N, k)]
    BY <1>7, <2>2
  <2>4. f \in [1 .. N -> Int]
    BY <2>1
  <2>5. h \in [1 .. N -> Int]
    <3>1. \A k \in 1 .. N : h[k] \in Int
      BY <1>7, <2>3, <2>4
    <3> QED BY <3>1
  <2>6. f = CostsOf(Town, es)
    BY Zenon DEF CostsOf, N
  <2>7. result[t].duration = Total(CostsOf(Town, es))
    BY <1>3 DEF Assembled
  <2>8. SumOf(h) = Total(h)
    BY Zenon DEF SumOf, Total
  <2> SUFFICES result[t].duration = SumOf(h)
    BY <1>9, Zenon
  <2> HIDE DEF f, h
  <2>9. Total(h) = Total(f)
    BY <1>5, <2>3, <2>4, <2>5, EitherWay
  <2> QED BY <2>6, <2>7, <2>8, <2>9
<1>13. result[t].stairs => ~query.profile.forbid
  <2> SUFFICES ASSUME result[t].stairs PROVE ~query.profile.forbid
    OBVIOUS
  <2>1. \E k \in DOMAIN es : edges[es[k]].attrs.stairs
    BY <1>3, Zenon DEF Assembled, HasStairs
  <2>2. PICK m \in 1 .. N : edges[es[m]].attrs.stairs
    BY <1>5, <2>1, Zenon
  <2>3. ~Barred(es[m])
    BY <1>5, <1>6
  <2> QED BY <2>2, <2>3, Zenon DEF Barred
<1> DEFINE least == [k \in hops |-> LeastOn(walk, k)]
<1>14. ASSUME NEW said, NEW marked, said = \E k \in DOMAIN es : es[k] \in marked
       PROVE  Tells(said, least, marked)
  <2>1. DOMAIN least = 1 .. N /\ \A k \in 1 .. N : at(k) \in least[k]
    BY <1>8, <1>9
  <2>2. \A m \in 1 .. N : \E k \in 1 .. N : at(k) = es[m]
    <3> TAKE m \in 1 .. N
    <3>1. Turn(N, m) \in 1 .. N /\ Turn(N, Turn(N, m)) = m
      BY <1>5 DEF Turn
    <3> QED BY <3>1
  <2>3. \A k \in 1 .. N : \E m \in 1 .. N : at(k) = es[m]
    BY <1>7
  <2> HIDE DEF least, at
  <2>4. CASE said
    BY <1>5, <1>14, <2>1, <2>2, <2>4, Zenon DEF Tells
  <2>5. CASE ~said
    BY <1>5, <1>14, <2>1, <2>3, <2>5, Zenon DEF Tells
  <2> QED BY <2>4, <2>5
<1>15. Tells(result[t].stairs, least, Stairs)
  <2>1. result[t].stairs = \E k \in DOMAIN es : es[k] \in Stairs
    <3>1. result[t].stairs = \E k \in DOMAIN es : edges[es[k]].attrs.stairs
      BY <1>3, Zenon DEF Assembled, HasStairs
    <3>2. \A k \in DOMAIN es : es[k] \in Stairs <=> edges[es[k]].attrs.stairs
      BY <1>5, <1>6, Zenon DEF Stairs
    <3> QED BY <3>1, <3>2, Zenon
  <2> QED BY <1>14, <2>1
<1>16. Tells(result[t].elevator, least, Elevators)
  <2>1. result[t].elevator = \E k \in DOMAIN es : es[k] \in Elevators
    <3>1. result[t].elevator = \E k \in DOMAIN es : edges[es[k]].attrs.elevator
      BY <1>3, Zenon DEF Assembled, HasElevator
    <3>2. \A k \in DOMAIN es : es[k] \in Elevators <=> edges[es[k]].attrs.elevator
      BY <1>5, <1>6, Zenon DEF Elevators
    <3> QED BY <3>1, <3>2, Zenon
  <2> QED BY <1>14, <2>1
<1> QED BY <1>10, <1>11, <1>12, <1>13, <1>15, <1>16, Zenon DEF IsReal

(* A walk that is answered is one that can be made: over roads that join its
   nodes and that the profile may use, as long and as dear as they are, said to
   have stairs or an elevator just when they have.                          *)
THEOREM WalksAreReal == Spec => []WalkIsReal
<1> QED BY AnswersAreReal, StreetInvariant, PTL

-----------------------------------------------------------------------------
(* The grid.  Two places whose cells are more than k apart along an axis are
   more than k cells apart along it.                                        *)
LEMMA CellsThenApart ==
  ASSUME NEW a \in Int, NEW b \in Int, NEW c \in Nat \ {0}, NEW k \in Nat,
         (a \div c) - (b \div c) > k
  PROVE  a - b > k * c
<1> DEFINE x == a \div c
           y == b \div c
<1>1. /\ x \in Int /\ y \in Int /\ a = (c * x) + (a % c) /\ b = (c * y) + (b % c)
      /\ a % c \in 0 .. c - 1 /\ b % c \in 0 .. c - 1 /\ x - y >= k + 1
  OBVIOUS
<1> HIDE DEF x, y
<1>2. PICK z \in Nat : x = y + k + 1 + z
  <2>1. x - y - k - 1 \in Nat /\ x = y + k + 1 + (x - y - k - 1)
    BY <1>1
  <2> QED BY <2>1
<1>3. c * x = c * y + k * c + c + c * z /\ c * z \in Nat
  <2>1. c * (y + k + 1 + z) = c * y + k * c + c + c * z /\ c * z \in Nat
    BY <1>1
  <2> QED BY <1>2, <2>1
<1>4. k * c \in Nat /\ c * y \in Int
  BY <1>1
<1> DEFINE kc == k * c
           cx == c * x
           cy == c * y
           cz == c * z
           ra == a % c
           rb == b % c
<1>5. /\ a = cx + ra /\ b = cy + rb /\ ra \in 0 .. c - 1 /\ rb \in 0 .. c - 1
      /\ cx = cy + kc + c + cz /\ cz \in Nat /\ kc \in Nat /\ cy \in Int
  BY <1>1, <1>3, <1>4
<1> HIDE DEF kc, cx, cy, cz, ra, rb
<1>6. a - b > kc
  BY <1>5
<1> QED BY <1>6 DEF kc

(* The least of a set of numbers that has one.                              *)
LEMMA LeastIs ==
  ASSUME NEW S \in SUBSET Int, NEW m \in S, \A y \in S : m <= y
  PROVE  Min(S) \in S /\ \A y \in S : Min(S) <= y
BY DEF Min

LEMMA LeastValue ==
  ASSUME NEW T, IsFiniteSet(T), T # {}, NEW f \in [T -> Int]
  PROVE  LET m == Min({f[x] : x \in T})
         IN  m \in Int /\ (\E x \in T : m = f[x]) /\ \A x \in T : m <= f[x]
<1> DEFINE h == [x \in T |-> -f[x]]
           S == {f[x] : x \in T}
<1>1. h \in [T -> Int] /\ \A x \in T : f[x] \in Int /\ h[x] = -f[x]
  OBVIOUS
<1>2. Facts!IsFiniteSet(T)
  BY DEF IsFiniteSet, Facts!IsFiniteSet
<1>3. S \in SUBSET Int /\ (\A x \in T : f[x] \in S) /\ \A y \in S : \E x \in T : y = f[x]
  OBVIOUS
<1> HIDE DEF h, S
<1>4. PICK i \in T : \A j \in T : h[j] <= h[i]
  BY <1>1, <1>2, Facts!GreatestValue
<1>5. \A j \in T : f[i] <= f[j]
  <2> TAKE j \in T
  <2>1. h[j] <= h[i] /\ f[i] \in Int /\ f[j] \in Int /\ h[i] = -f[i] /\ h[j] = -f[j]
    BY <1>1, <1>4
  <2> QED BY <2>1
<1>6. f[i] \in S /\ \A y \in S : f[i] <= y
  BY <1>3, <1>5
<1>7. Min(S) \in S /\ \A y \in S : Min(S) <= y
  BY <1>3, <1>6, LeastIs
<1>8. Min(S) \in Int /\ (\E x \in T : Min(S) = f[x]) /\ \A x \in T : Min(S) <= f[x]
  BY <1>3, <1>7
<1> QED BY <1>8 DEF S

LEMMA GreatestOfValues ==
  ASSUME NEW T, IsFiniteSet(T), T # {}, NEW f \in [T -> Int]
  PROVE  LET m == Max({f[x] : x \in T})
         IN  m \in Int /\ (\E x \in T : m = f[x]) /\ \A x \in T : f[x] <= m
<1> DEFINE S == {f[x] : x \in T}
<1>1. \A x \in T : f[x] \in Int
  OBVIOUS
<1>2. Facts!IsFiniteSet(T)
  BY DEF IsFiniteSet, Facts!IsFiniteSet
<1>3. S \in SUBSET Int /\ (\A x \in T : f[x] \in S) /\ \A y \in S : \E x \in T : y = f[x]
  OBVIOUS
<1> HIDE DEF S
<1>4. PICK i \in T : \A j \in T : f[j] <= f[i]
  BY <1>2, Facts!GreatestValue
<1>6. f[i] \in S /\ \A y \in S : y <= f[i]
  BY <1>3, <1>4
<1>7. Max(S) \in S /\ \A y \in S : y <= Max(S)
  BY <1>3, <1>6, GreatestIs
<1>8. Max(S) \in Int /\ (\E x \in T : Max(S) = f[x]) /\ \A x \in T : f[x] <= Max(S)
  BY <1>3, <1>7
<1> QED BY <1>8 DEF S

(* Where the nodes lie: from the origin up to the farthest along each axis.  *)
Farthest(axis) == Max({PlaceOf(n)[axis] : n \in Nodes})

IsSpanned(axis) ==
  /\ Origin(axis) \in Int /\ Farthest(axis) \in Int
  /\ \E n \in Nodes : PlaceOf(n)[axis] = Origin(axis)
  /\ \E n \in Nodes : PlaceOf(n)[axis] = Farthest(axis)
  /\ \A n \in Nodes : /\ PlaceOf(n)[axis] \in Int
                      /\ Origin(axis) <= PlaceOf(n)[axis] /\ PlaceOf(n)[axis] <= Farthest(axis)

LEMMA NodesSpan ==
  ASSUME GraphInv, Nodes # {}, NEW axis \in 1 .. 2
  PROVE  IsSpanned(axis)
<1> DEFINE f == [n \in Nodes |-> PlaceOf(n)[axis]]
           A == {f[n] : n \in Nodes}
           B == {PlaceOf(n)[axis] : n \in Nodes}
<1>1. Nodes = 1 .. Len(nodes) /\ Len(nodes) \in Nat /\ \A n \in Nodes : PlaceOf(n) \in Place
  BY GraphFacts
<1>2. \A n \in Nodes : PlaceOf(n)[axis] \in Int
  <2>1. \A p \in Place : p[1] \in Int /\ p[2] \in Int
    BY DEF Place
  <2>2. axis = 1 \/ axis = 2
    OBVIOUS
  <2> QED BY <1>1, <2>1, <2>2
<1>3. IsFiniteSet(Nodes)
  BY <1>1, FS_Interval
<1>4. f \in [Nodes -> Int] /\ A = B /\ \A n \in Nodes : f[n] = PlaceOf(n)[axis]
  BY <1>2
<1>5. Origin(axis) = Min(B) /\ Farthest(axis) = Max(B)
  BY DEF Origin, Farthest
<1> HIDE DEF f, B
<1>6. Min(A) \in Int /\ (\E n \in Nodes : Min(A) = f[n]) /\ \A n \in Nodes : Min(A) <= f[n]
  BY <1>3, <1>4, LeastValue
<1>7. Max(A) \in Int /\ (\E n \in Nodes : Max(A) = f[n]) /\ \A n \in Nodes : f[n] <= Max(A)
  BY <1>3, <1>4, GreatestOfValues
<1> HIDE DEF A
<1> QED BY <1>2, <1>4, <1>5, <1>6, <1>7 DEF IsSpanned

(* The rings reach from any node to any other, and two cells more.           *)
LEMMA RingsReach ==
  ASSUME GraphInv, Nodes # {}
  PROVE  /\ MaxRing \in Nat
         /\ \A m, n \in Nodes : \A axis \in 1 .. 2 :
              CellOf(PlaceOf(m))[axis] - CellOf(PlaceOf(n))[axis] <= MaxRing - 2
<1> DEFINE cell(n, axis) == CellOf(PlaceOf(n))[axis]
           P == Nodes \X Nodes
           T == P \X (1 .. 2)
           f == [x \in T |-> cell(x[1][1], x[2]) - cell(x[1][2], x[2])]
           A == {cell(m, axis) - cell(n, axis) : m \in Nodes, n \in Nodes, axis \in 1 .. 2}
           B == {f[x] : x \in T}
<1>1. \A n \in Nodes : \A axis \in 1 .. 2 : cell(n, axis) \in Int
  <2> TAKE n \in Nodes
  <2> TAKE axis \in 1 .. 2
  <2>1. PlaceOf(n)[axis] \in Int /\ Origin(axis) \in Int
    BY NodesSpan DEF IsSpanned
  <2> DEFINE x == PlaceOf(n)[axis] - Origin(axis)
  <2>2. cell(n, axis) = x \div Cell
    BY DEF CellOf
  <2>3. x \in Int
    BY <2>1
  <2> HIDE DEF x
  <2> QED BY <2>2, <2>3, GridAssumption
<1>2. MaxRing = 2 + Max(A)
  BY DEF MaxRing
<1> HIDE DEF cell
<1>3. \A x \in T : \E m, n \in Nodes : \E axis \in 1 .. 2 :
        x = <<<<m, n>>, axis>> /\ f[x] = cell(m, axis) - cell(n, axis)
  <2> TAKE x \in T
  <2>1. PICK m \in Nodes, n \in Nodes, axis \in 1 .. 2 : x = <<<<m, n>>, axis>>
    OBVIOUS
  <2>2. f[x] = cell(m, axis) - cell(n, axis)
    BY <2>1
  <2> QED BY <2>1, <2>2
<1>4. \A m, n \in Nodes : \A axis \in 1 .. 2 :
        <<<<m, n>>, axis>> \in T /\ f[<<<<m, n>>, axis>>] = cell(m, axis) - cell(n, axis)
  OBVIOUS
<1>5. f \in [T -> Int]
  BY <1>1
<1>6. IsFiniteSet(T) /\ T # {}
  <2>1. Nodes = 1 .. Len(nodes) /\ Len(nodes) \in Nat
    BY GraphFacts
  <2>2. IsFiniteSet(Nodes)
    BY <2>1, FS_Interval
  <2>3. IsFiniteSet(P)
    BY <2>2, FS_Product
  <2>4. IsFiniteSet(1 .. 2)
    <3>1. \A k \in Nat : IsFiniteSet(1 .. k)
      BY FS_Interval
    <3> QED BY <3>1
  <2>5. IsFiniteSet(T)
    <3> HIDE DEF P
    <3> QED BY <2>3, <2>4, FS_Product
  <2>6. PICK n : n \in Nodes
    OBVIOUS
  <2>7. <<<<n, n>>, 1>> \in T
    BY <2>6
  <2> QED BY <2>5, <2>7
<1> HIDE DEF f, T
<1>7. A = B
  <2>1. \A y \in A : \E m, n \in Nodes : \E axis \in 1 .. 2 : y = cell(m, axis) - cell(n, axis)
    OBVIOUS
  <2>2. \A m, n \in Nodes : \A axis \in 1 .. 2 : cell(m, axis) - cell(n, axis) \in A
    OBVIOUS
  <2>3. \A y \in B : \E x \in T : y = f[x]
    OBVIOUS
  <2>4. \A x \in T : f[x] \in B
    OBVIOUS
  <2> HIDE DEF A, B
  <2>5. A \subseteq B
    <3> SUFFICES ASSUME NEW y \in A PROVE y \in B
      OBVIOUS
    <3>1. PICK m \in Nodes, n \in Nodes, axis \in 1 .. 2 : y = cell(m, axis) - cell(n, axis)
      BY <2>1
    <3>2. <<<<m, n>>, axis>> \in T /\ f[<<<<m, n>>, axis>>] = cell(m, axis) - cell(n, axis)
      BY <1>4
    <3> QED BY <2>4, <3>1, <3>2
  <2>6. B \subseteq A
    BY <1>3, <2>2, <2>3
  <2> QED BY <2>5, <2>6
<1>8. Max(B) \in Int /\ \A x \in T : f[x] <= Max(B)
  BY <1>5, <1>6, GreatestOfValues
<1> HIDE DEF A, B
<1>9. \A m, n \in Nodes : \A axis \in 1 .. 2 : cell(m, axis) - cell(n, axis) <= Max(B)
  BY <1>4, <1>8
<1>10. Max(B) >= 0
  <2>1. PICK n : n \in Nodes
    OBVIOUS
  <2>2. cell(n, 1) \in Int /\ cell(n, 1) - cell(n, 1) <= Max(B)
    BY <1>1, <1>9, <2>1
  <2> QED BY <1>8, <2>2
<1>11. MaxRing \in Nat /\ MaxRing - 2 = Max(B)
  BY <1>2, <1>7, <1>8, <1>10
<1> QED BY <1>9, <1>11 DEF cell

-----------------------------------------------------------------------------
(* A place among the nodes, or up to two cells beyond, is a place, and once all
   rings are visited every node was.                                        *)
CellApart(p, n, axis) == CellOf(PlaceOf(n))[axis] - CellOf(p)[axis]

LEMMA CellsApartFacts ==
  ASSUME GraphInv, NEW p \in Place, NEW n \in Nodes, NEW r \in Int
  PROVE  /\ \A axis \in 1 .. 2 : CellApart(p, n, axis) \in Int
         /\ CellsApart(CellOf(PlaceOf(n)), CellOf(p)) <= r
              <=> \A axis \in 1 .. 2 : CellApart(p, n, axis) <= r /\ -CellApart(p, n, axis) <= r
<1>1. \A axis \in 1 .. 2 : /\ CellOf(PlaceOf(n))[axis] \in Int /\ CellOf(p)[axis] \in Int
  <2> TAKE axis \in 1 .. 2
  <2>1. PlaceOf(n)[axis] \in Int /\ Origin(axis) \in Int
    BY NodesSpan DEF IsSpanned
  <2>2. p[axis] \in Int
    <3>1. p[1] \in Int /\ p[2] \in Int /\ (axis = 1 \/ axis = 2)
      BY DEF Place
    <3> QED BY <3>1
  <2> DEFINE x == PlaceOf(n)[axis] - Origin(axis)
             y == p[axis] - Origin(axis)
  <2>3. CellOf(PlaceOf(n))[axis] = x \div Cell /\ CellOf(p)[axis] = y \div Cell
    BY DEF CellOf
  <2>4. x \in Int /\ y \in Int
    BY <2>1, <2>2
  <2> HIDE DEF x, y
  <2> QED BY <2>3, <2>4, GridAssumption
<1>2. \A axis \in 1 .. 2 : CellApart(p, n, axis) \in Int
  BY <1>1 DEF CellApart
<1> DEFINE a == CellApart(p, n, 1)
           b == CellApart(p, n, 2)
<1>3. CellsApart(CellOf(PlaceOf(n)), CellOf(p)) = Max({Abs(a), Abs(b)})
  BY DEF CellsApart, CellApart
<1>4. a \in Int /\ b \in Int
  BY <1>2
<1> HIDE DEF a, b
<1>5. /\ Abs(a) \in Nat /\ Abs(b) \in Nat
      /\ Abs(a) <= r <=> a <= r /\ -a <= r
      /\ Abs(b) <= r <=> b <= r /\ -b <= r
  BY <1>4 DEF Abs
<1>6. Max({Abs(a), Abs(b)}) <= r <=> Abs(a) <= r /\ Abs(b) <= r
  <2> DEFINE u == Abs(a)
             v == Abs(b)
  <2>1. u \in Nat /\ v \in Nat
    BY <1>5
  <2> HIDE DEF u, v
  <2>2. Max({u, v}) \in Nat /\ Max({u, v}) >= u /\ Max({u, v}) >= v /\ (Max({u, v}) = u \/ Max({u, v}) = v)
    BY <2>1, GreaterOf
  <2>3. Max({u, v}) <= r <=> u <= r /\ v <= r
    BY <2>1, <2>2
  <2> QED BY <2>3 DEF u, v
<1>7. (\A axis \in 1 .. 2 : CellApart(p, n, axis) <= r /\ -CellApart(p, n, axis) <= r)
        <=> (a <= r /\ -a <= r /\ b <= r /\ -b <= r)
  <2>1. \A axis : axis \in 1 .. 2 <=> axis = 1 \/ axis = 2
    OBVIOUS
  <2> QED BY <2>1 DEF a, b
<1> QED BY <1>2, <1>3, <1>5, <1>6, <1>7
(* A node that no ring up to r has held is farther than they reach.          *)
LEMMA UnseenIsFar ==
  ASSUME GraphInv, NEW p \in Place, NEW r \in Nat, NEW n \in Nodes, n \notin Visited(p, r)
  PROVE  r * Cell < Dist(p, PlaceOf(n))
<1> DEFINE q == PlaceOf(n)
<1>1. q \in Place
  BY GraphFacts
<1>2. /\ p[1] \in Int /\ p[2] \in Int /\ q[1] \in Int /\ q[2] \in Int
  BY <1>1 DEF Place
<1>3. ~(CellsApart(CellOf(PlaceOf(n)), CellOf(p)) <= r)
  BY DEF Visited
<1>4. PICK axis \in 1 .. 2 : ~(CellApart(p, n, axis) <= r /\ -CellApart(p, n, axis) <= r)
  BY <1>3, CellsApartFacts
<1>5. CellApart(p, n, axis) \in Int
  BY CellsApartFacts
<1>6. CellApart(p, n, axis) > r \/ -CellApart(p, n, axis) > r
  BY <1>4, <1>5
<1> DEFINE O == Origin(axis)
           x == q[axis] - O
           y == p[axis] - O
<1>7. O \in Int /\ (axis = 1 \/ axis = 2) /\ q[axis] \in Int /\ p[axis] \in Int
  <2>1. axis = 1 \/ axis = 2
    OBVIOUS
  <2>2. O \in Int
    BY NodesSpan DEF IsSpanned
  <2> QED BY <1>2, <2>1, <2>2
<1>8. CellApart(p, n, axis) = (x \div Cell) - (y \div Cell)
  BY DEF CellApart, CellOf
<1>9. x \in Int /\ y \in Int /\ x - y = q[axis] - p[axis]
  BY <1>7
<1> HIDE DEF x, y
<1>10. (x \div Cell) \in Int /\ (y \div Cell) \in Int
  BY <1>9, GridAssumption
<1>11. x - y > r * Cell \/ y - x > r * Cell
  <2>1. CASE CellApart(p, n, axis) > r
    <3>1. (x \div Cell) - (y \div Cell) > r
      BY <1>8, <2>1
    <3> QED BY <1>9, <3>1, CellsThenApart, GridAssumption
  <2>2. CASE -CellApart(p, n, axis) > r
    <3>1. (y \div Cell) - (x \div Cell) > r
      BY <1>8, <1>10, <2>2
    <3> QED BY <1>9, <3>1, CellsThenApart, GridAssumption
  <2> QED BY <1>6, <2>1, <2>2
<1>12. r * Cell \in Nat
  BY GridAssumption
<1> DEFINE k == r * Cell
<1>13. k \in Nat /\ (q[axis] - p[axis] > k \/ p[axis] - q[axis] > k)
  <2>1. y - x = p[axis] - q[axis]
    BY <1>7, <1>9
  <2> QED BY <1>9, <1>11, <1>12, <2>1
<1> HIDE DEF k, q
<1>14. k < Dist(p, q)
  BY <1>2, <1>7, <1>13 DEF Dist, Abs
<1> QED BY <1>14 DEF k, q

(* Around the nodes every node is in some ring.                             *)
LEMMA AroundAllIsSeen ==
  ASSUME GraphInv, Nodes # {}, NEW p \in Around
  PROVE  p \in Place /\ Visited(p, MaxRing) = Nodes
<1>1. \A axis \in 1 .. 2 : /\ IsSpanned(axis) /\ p[axis] \in Int
                           /\ Origin(axis) - p[axis] <= 2 * Cell
                           /\ p[axis] - Farthest(axis) <= 2 * Cell
  <2> DEFINE span(axis) == (Origin(axis) - 2 * Cell) .. (Farthest(axis) + 2 * Cell)
  <2>1. Around = span(1) \X span(2)
    BY DEF Around, Farthest
  <2>2. \A axis \in 1 .. 2 : p[axis] \in span(axis)
    <3>1. p[1] \in span(1) /\ p[2] \in span(2)
      <4> HIDE DEF span
      <4> QED BY <2>1
    <3>2. \A axis \in 1 .. 2 : axis = 1 \/ axis = 2
      OBVIOUS
    <3> HIDE DEF span
    <3> QED BY <3>1, <3>2
  <2> TAKE axis \in 1 .. 2
  <2>3. IsSpanned(axis) /\ p[axis] \in span(axis)
    BY <2>2, NodesSpan
  <2>4. Origin(axis) \in Int /\ Farthest(axis) \in Int /\ 2 * Cell \in Int
    BY <2>3, GridAssumption DEF IsSpanned
  <2> DEFINE w == 2 * Cell
  <2>5. w \in Int /\ p[axis] \in (Origin(axis) - w) .. (Farthest(axis) + w)
    BY <2>3, <2>4
  <2> HIDE DEF w
  <2>6. p[axis] \in Int /\ Origin(axis) - p[axis] <= w /\ p[axis] - Farthest(axis) <= w
    BY <2>4, <2>5
  <2> QED BY <2>3, <2>6 DEF w
<1>2. p \in Place
  <2>1. p[1] \in Int /\ p[2] \in Int
    BY <1>1
  <2>2. p = <<p[1], p[2]>>
    BY DEF Around
  <2> QED BY <2>1, <2>2 DEF Place
<1>3. ASSUME NEW n \in Nodes, NEW axis \in 1 .. 2
      PROVE  CellApart(p, n, axis) <= MaxRing /\ -CellApart(p, n, axis) <= MaxRing
  <2> DEFINE O    == Origin(axis)
             c(x) == (x - O) \div Cell
  <2>1. /\ O \in Int /\ p[axis] \in Int
        /\ O - p[axis] <= 2 * Cell /\ p[axis] - Farthest(axis) <= 2 * Cell
    BY <1>1 DEF IsSpanned
  <2>2. PICK a \in Nodes : PlaceOf(a)[axis] = O
    BY <1>1 DEF IsSpanned
  <2>3. PICK b \in Nodes : PlaceOf(b)[axis] = Farthest(axis)
    BY <1>1 DEF IsSpanned
  <2>4. \A m \in Nodes : PlaceOf(m)[axis] \in Int
    BY <1>1 DEF IsSpanned
  <2> DEFINE x == PlaceOf(n)[axis]
             y == p[axis]
             z == Farthest(axis)
  <2>5. x \in Int /\ y \in Int /\ z \in Int /\ O - y <= 2 * Cell /\ y - z <= 2 * Cell
    BY <2>1, <2>3, <2>4
  <2>6. /\ CellOf(PlaceOf(n))[axis] = c(x) /\ CellOf(p)[axis] = c(y)
        /\ CellOf(PlaceOf(a))[axis] = c(O) /\ CellOf(PlaceOf(b))[axis] = c(z)
    BY <2>2, <2>3 DEF CellOf
  <2>7. MaxRing \in Nat /\ c(x) - c(O) <= MaxRing - 2 /\ c(z) - c(x) <= MaxRing - 2
    <3>1. /\ MaxRing \in Nat
          /\ CellOf(PlaceOf(n))[axis] - CellOf(PlaceOf(a))[axis] <= MaxRing - 2
          /\ CellOf(PlaceOf(b))[axis] - CellOf(PlaceOf(n))[axis] <= MaxRing - 2
      BY RingsReach
    <3> HIDE DEF c
    <3> QED BY <2>6, <3>1
  <2>8. CellApart(p, n, axis) = c(x) - c(y)
    BY <2>6 DEF CellApart
  <2> HIDE DEF x, y, z
  <2>9. c(x) \in Int /\ c(y) \in Int /\ c(z) \in Int /\ c(O) \in Int
    <3>1. \A u \in Int : c(u) \in Int
      <4> TAKE u \in Int
      <4> DEFINE v == u - O
      <4>1. v \in Int
        BY <2>1
      <4> HIDE DEF v
      <4>2. v \div Cell \in Int
        BY <4>1, GridAssumption
      <4> QED BY <4>2 DEF v
    <3> HIDE DEF c
    <3> QED BY <2>1, <2>5, <3>1
  <2>10. \A u, v \in Int : u - v <= 2 * Cell => ~(c(u) - c(v) > 2)
    <3> TAKE u \in Int, v \in Int
    <3> DEFINE i == u - O
               j == v - O
    <3>1. i \in Int /\ j \in Int /\ i - j = u - v
      BY <2>1
    <3>2. c(u) = i \div Cell /\ c(v) = j \div Cell
      OBVIOUS
    <3> HIDE DEF c, i, j
    <3> SUFFICES ASSUME c(u) - c(v) > 2 PROVE ~(u - v <= 2 * Cell)
      OBVIOUS
    <3>3. (i \div Cell) - (j \div Cell) > 2
      BY <3>2
    <3>4. i - j > 2 * Cell
      BY <3>1, <3>3, CellsThenApart, GridAssumption
    <3> QED BY <3>1, <3>4, GridAssumption
  <2> HIDE DEF c
  <2>11. ~(c(O) - c(y) > 2) /\ ~(c(y) - c(z) > 2)
    BY <2>1, <2>5, <2>10
  <2> QED BY <2>7, <2>8, <2>9, <2>11
<1>4. MaxRing \in Nat
  BY RingsReach
<1>5. \A n \in Nodes : CellsApart(CellOf(PlaceOf(n)), CellOf(p)) <= MaxRing
  BY <1>2, <1>3, <1>4, CellsApartFacts
<1> QED BY <1>2, <1>5 DEF Visited

(* The nearest of some nodes is the nearest of more of them when all others
   are farther.                                                             *)
LEMMA NearerFacts ==
  ASSUME GraphInv, NEW p \in Place, NEW m \in Nodes, NEW n \in Nodes
  PROVE  /\ Dist(p, PlaceOf(m)) \in Nat /\ m \in Int
         /\ m # n => (Nearer(p, m, n) <=> ~Nearer(p, n, m))
<1>1. /\ Dist(p, PlaceOf(m)) \in Nat /\ Dist(p, PlaceOf(n)) \in Nat /\ m \in Int /\ n \in Int
  <2>1. PlaceOf(m) \in Place /\ PlaceOf(n) \in Place /\ Nodes \subseteq Int
    BY GraphFacts
  <2> QED BY <2>1, DistFacts
<1> QED BY <1>1 DEF Nearer

LEMMA NearestOfMore ==
  ASSUME GraphInv, NEW p \in Place, NEW V \in SUBSET Nodes, NEW n \in NearestOf(p, V),
         \A m \in Nodes \ V : Dist(p, PlaceOf(n)) < Dist(p, PlaceOf(m))
  PROVE  NearestOf(p, Nodes) = NearestOf(p, V)
<1>1. n \in V /\ n \in Nodes /\ \A m \in V \ {n} : Nearer(p, n, m)
  BY DEF NearestOf
<1>2. \A m \in Nodes \ {n} : Nearer(p, n, m)
  <2> TAKE m \in Nodes \ {n}
  <2>1. CASE m \in V
    BY <1>1, <2>1
  <2>2. CASE m \notin V
    BY <2>2 DEF Nearer
  <2> QED BY <2>1, <2>2
<1>3. \A S \in SUBSET Nodes : n \in S => NearestOf(p, S) = {n}
  <2> TAKE S \in SUBSET Nodes
  <2> HAVE n \in S
  <2>1. n \in NearestOf(p, S)
    BY <1>2 DEF NearestOf
  <2>2. ASSUME NEW x \in NearestOf(p, S), x # n PROVE FALSE
    <3>1. x \in Nodes /\ Nearer(p, x, n) /\ Nearer(p, n, x)
      BY <1>2, <2>2 DEF NearestOf
    <3> QED BY <1>1, <2>2, <3>1, NearerFacts
  <2> QED BY <2>1, <2>2
<1> QED BY <1>1, <1>3

(* The rings stop when no node beyond them can be nearer.                   *)
LEMMA NearestIsNearest ==
  ASSUME GraphInv, Nodes # {}, NEW p \in Around
  PROVE  Nearest(p) = NearestOf(p, Nodes)
<1> DEFINE found(r) == NearestOf(p, Visited(p, r))
           enough(r) == \E n \in found(r) : 100 * Dist(p, PlaceOf(n)) <= r * Cell * Safety
           R == {r \in 0..MaxRing : enough(r)} \cup {MaxRing}
           last == Min(R)
<1>1. p \in Place /\ Visited(p, MaxRing) = Nodes
  BY AroundAllIsSeen
<1>2. Nearest(p) = found(last)
  BY DEF Nearest
<1>3. MaxRing \in Nat
  BY RingsReach
<1>4. last \in Nat /\ (enough(last) \/ last = MaxRing)
  <2>1. R \in SUBSET Nat /\ R # {}
    BY <1>3
  <2>2. \A r \in R : enough(r) \/ r = MaxRing
    OBVIOUS
  <2> HIDE DEF R, enough
  <2>3. last \in R
    BY <2>1, LeastOf
  <2> QED BY <2>1, <2>2, <2>3
<1> HIDE DEF last
<1>5. CASE last = MaxRing
  BY <1>1, <1>2, <1>5
<1>6. CASE enough(last)
  <2>1. PICK n \in NearestOf(p, Visited(p, last)) : 100 * Dist(p, PlaceOf(n)) <= last * Cell * Safety
    BY <1>6
  <2>2. n \in Nodes /\ Visited(p, last) \in SUBSET Nodes
    BY DEF NearestOf, Visited
  <2>3. Dist(p, PlaceOf(n)) <= last * Cell
    <3> DEFINE d == Dist(p, PlaceOf(n))
               k == last * Cell
    <3>1. d \in Nat /\ k \in Nat /\ 100 * d <= k * Safety
      BY <1>1, <1>4, <2>1, <2>2, NearerFacts, GridAssumption
    <3> HIDE DEF d, k
    <3>2. k * Safety <= 100 * k
      <4>1. Safety \in 1 .. 100
        BY GridAssumption
      <4>2. (100 - Safety) * k >= 0 /\ (100 - Safety) * k = 100 * k - k * Safety
        BY <3>1, <4>1
      <4>3. k * Safety \in Int
        BY <3>1, <4>1
      <4> QED BY <3>1, <4>2, <4>3
    <3>3. k * Safety \in Int
      BY <3>1, GridAssumption
    <3>4. 100 * d <= 100 * k
      BY <3>1, <3>2, <3>3
    <3>5. d <= k
      BY <3>1, <3>4
    <3> QED BY <3>5 DEF d, k
  <2>4. \A m \in Nodes \ Visited(p, last) : Dist(p, PlaceOf(n)) < Dist(p, PlaceOf(m))
    <3> TAKE m \in Nodes \ Visited(p, last)
    <3>1. last * Cell < Dist(p, PlaceOf(m))
      BY <1>1, <1>4, UnseenIsFar
    <3>2. Dist(p, PlaceOf(m)) \in Nat /\ Dist(p, PlaceOf(n)) \in Nat /\ last * Cell \in Nat
      BY <1>1, <1>4, <2>2, NearerFacts, GridAssumption
    <3> QED BY <2>3, <3>1, <3>2
  <2>5. NearestOf(p, Nodes) = NearestOf(p, Visited(p, last))
    BY <1>1, <2>2, <2>4, NearestOfMore
  <2> QED BY <1>2, <2>5
<1> QED BY <1>4, <1>5, <1>6

(* Sorted, each is the least of what is left.                               *)
LEMMA SortedIsNearest ==
  ASSUME GraphInv, NEW p \in Place, NEW all \in SUBSET Nodes, NEW order,
         IsSort(all, [n \in all |-> Dist(p, PlaceOf(n))], order),
         NEW k \in 1 .. Cardinality(all)
  PROVE  order[k] \in NearestOf(p, all \ {order[j] : j \in 1 .. (k - 1)})
<1> DEFINE key == [n \in all |-> Dist(p, PlaceOf(n))]
           N == Cardinality(all)
           gone == {order[j] : j \in 1 .. (k - 1)}
<1>1. /\ N \in Nat /\ order \in [1 .. N -> all] /\ k \in 1 .. N
      /\ \A i, j \in 1 .. N : i < j => Before(key, order[i], order[j])
      /\ \A r \in all : \E i \in 1 .. N : order[i] = r
  BY DEF IsSort
<1>2. \A m, n \in all : Before(key, m, n) => Nearer(p, m, n)
  BY DEF Before, Nearer
<1>3. \A m \in all : key[m] \in Nat /\ m \in Int
  <2> TAKE m \in all
  <2>1. Dist(p, PlaceOf(m)) \in Nat /\ m \in Int
    BY NearerFacts
  <2> QED BY <2>1
<1>4. \A m \in all : ~Before(key, m, m)
  BY <1>3 DEF Before
<1>5. \A y \in gone : \E j \in 1 .. (k - 1) : y = order[j]
  OBVIOUS
<1>6. \A j \in 1 .. (k - 1) : order[j] \in gone
  OBVIOUS
<1> HIDE DEF key, N, gone
<1>7. order[k] \in all \ gone
  <2> SUFFICES ASSUME order[k] \in gone PROVE FALSE
    BY <1>1
  <2>1. PICK j \in 1 .. (k - 1) : order[k] = order[j]
    BY <1>5
  <2>2. j \in 1 .. N /\ j < k
    BY <1>1
  <2>3. Before(key, order[j], order[k]) /\ order[k] \in all
    BY <1>1, <2>2
  <2> QED BY <1>4, <2>1, <2>3
<1>8. \A m \in (all \ gone) \ {order[k]} : Nearer(p, order[k], m)
  <2> TAKE m \in (all \ gone) \ {order[k]}
  <2>1. PICK i \in 1 .. N : order[i] = m
    BY <1>1
  <2>2. i \notin 1 .. (k - 1) /\ i # k
    BY <1>6, <2>1
  <2>3. k < i
    BY <1>1, <2>2
  <2>4. Before(key, order[k], m)
    BY <1>1, <2>1, <2>3
  <2> QED BY <1>1, <1>2, <2>4
<1> QED BY <1>7, <1>8 DEF NearestOf, gone

AreNearest(p, list, all) ==
  \A k \in 1 .. Min({SnapMax, Cardinality(all)}) :
    /\ Len(list) = Min({SnapMax, Cardinality(all)})
    /\ list[k] \in NearestOf(p, all \ {list[j] : j \in 1 .. (k - 1)})

Within(p) == {n \in Nodes : Dist(p, PlaceOf(n)) <= SnapRadius}

LEMMA WithinAreNearest ==
  ASSUME GraphInv, Nodes # {}, NEW p \in Around
  PROVE  AreNearest(p, WithinRadius(p), Within(p))
<1> DEFINE far(r) == r * Cell * Safety > 100 * SnapRadius
           R      == {r \in 0..MaxRing : far(r)} \cup {MaxRing}
           last  == Min(R)
           found == {n \in Visited(p, last) : Dist(p, PlaceOf(n)) <= SnapRadius}
           key   == [n \in found |-> Dist(p, PlaceOf(n))]
           order == InOrder(found, key)
           most  == Min({SnapMax, Cardinality(found)})
           W     == [k \in 1..most |-> order[k]]
<1>1. p \in Place /\ Visited(p, MaxRing) = Nodes /\ MaxRing \in Nat
  BY AroundAllIsSeen, RingsReach
<1>2. last \in Nat /\ (far(last) \/ last = MaxRing)
  <2>1. R \in SUBSET Nat /\ R # {}
    BY <1>1
  <2>2. \A r \in R : far(r) \/ r = MaxRing
    OBVIOUS
  <2> HIDE DEF R, far
  <2>3. last \in R
    BY <2>1, LeastOf
  <2> QED BY <2>1, <2>2, <2>3
<1>3. WithinRadius(p) = W
  BY Zenon DEF WithinRadius
<1> HIDE DEF last
<1>4. found = Within(p)
  <2>1. ASSUME NEW n \in Nodes, Dist(p, PlaceOf(n)) <= SnapRadius
        PROVE  n \in Visited(p, last)
    <3>1. CASE last = MaxRing
      BY <1>1, <3>1
    <3>2. CASE far(last)
      <4> SUFFICES ASSUME n \notin Visited(p, last) PROVE FALSE
        OBVIOUS
      <4> DEFINE d == Dist(p, PlaceOf(n))
                 k == last * Cell
      <4>1. k < d /\ d \in Nat /\ k \in Nat /\ k * Safety > 100 * SnapRadius /\ d <= SnapRadius
        BY <1>1, <1>2, <2>1, <3>2, UnseenIsFar, NearerFacts, GridAssumption
      <4> HIDE DEF d, k
      <4>2. k * Safety <= 100 * k /\ k * Safety \in Int
        <5>1. Safety \in 1 .. 100
          BY GridAssumption
        <5>2. (100 - Safety) * k >= 0 /\ (100 - Safety) * k = 100 * k - k * Safety
          BY <4>1, <5>1
        <5>3. k * Safety \in Int
          BY <4>1, <5>1
        <5> QED BY <4>1, <5>2, <5>3
      <4>3. SnapRadius \in Nat
        BY GridAssumption
      <4> DEFINE ks == k * Safety
      <4>4. ks \in Int /\ ks <= 100 * k /\ ks > 100 * SnapRadius
        BY <4>1, <4>2
      <4> HIDE DEF ks
      <4> QED BY <4>1, <4>3, <4>4
    <3> QED BY <1>2, <3>1, <3>2
  <2>2. Visited(p, last) \subseteq Nodes
    BY DEF Visited
  <2> QED BY <2>1, <2>2 DEF Within
<1>5. Within(p) \subseteq Nodes /\ Within(p) \subseteq Int /\ IsFiniteSet(Within(p))
  <2>1. Nodes = 1 .. Len(nodes) /\ Len(nodes) \in Nat
    BY GraphFacts
  <2>2. IsFiniteSet(1 .. Len(nodes))
    BY <2>1, FS_Interval
  <2>3. Within(p) \subseteq Nodes
    BY DEF Within
  <2> QED BY <2>1, <2>2, <2>3, FS_Subset
<1>6. \A n \in found : key[n] \in Int
  <2> TAKE n \in found
  <2>1. Dist(p, PlaceOf(n)) \in Nat
    BY <1>1, <1>4, <1>5, NearerFacts
  <2> QED BY <2>1
<1>7. found \subseteq Nodes
  BY <1>4, <1>5
<1> HIDE DEF found
<1>8. IsSort(found, [n \in found |-> Dist(p, PlaceOf(n))], order)
  <2>1. IsSort(found, key, order)
    <3> HIDE DEF key
    <3> QED BY <1>4, <1>5, <1>6, InOrderSorts
  <2> HIDE DEF order
  <2> QED BY <2>1
<1> HIDE DEF order
<1>9. Cardinality(found) \in Nat
  BY <1>4, <1>5, FS_CardinalityType
<1>10. most \in Nat /\ most <= Cardinality(found)
  BY <1>9, LesserOf, GridAssumption
<1> HIDE DEF most
<1>11. Len(W) = most /\ \A k \in 1 .. most : W[k] = order[k]
  BY <1>10
<1> HIDE DEF W
<1>12. ASSUME NEW k \in 1 .. most
       PROVE  W[k] \in NearestOf(p, found \ {W[j] : j \in 1 .. (k - 1)})
  <2>1. k \in 1 .. Cardinality(found)
    BY <1>9, <1>10
  <2>2. order[k] \in NearestOf(p, found \ {order[j] : j \in 1 .. (k - 1)})
    BY <1>1, <1>7, <1>8, <2>1, SortedIsNearest
  <2>3. {order[j] : j \in 1 .. (k - 1)} = {W[j] : j \in 1 .. (k - 1)}
    <3>1. \A j \in 1 .. (k - 1) : W[j] = order[j]
      BY <1>10, <1>11
    <3> QED BY <3>1
  <2> QED BY <1>11, <2>2, <2>3
<1>13. AreNearest(p, W, found)
  BY <1>11, <1>12 DEF AreNearest, most
<1> QED BY <1>3, <1>4, <1>13

(* Snapping to the grid's answer is snapping to the nearest there is: no ring is
   left unvisited that could hold a nearer node, and the candidates are the
   nearest of those within the radius, in order.                            *)
THEOREM SnapsToNearest == Spec => []SnapIsNearest
<1>1. StreetInv => SnapIsNearest
  <2> SUFFICES ASSUME StreetInv, phase = "ready", Nodes # {}, NEW p \in Around
               PROVE  /\ Nearest(p) = NearestOf(p, Nodes)
                      /\ AreNearest(p, WithinRadius(p), Within(p))
    BY Zenon DEF SnapIsNearest, AreNearest, Within
  <2>1. GraphInv
    BY DEF StreetInv
  <2> QED BY <2>1, NearestIsNearest, WithinAreNearest
<1> QED BY <1>1, StreetInvariant, PTL
=============================================================================
