-------------------------- MODULE StreetProperties --------------------------
(***************************************************************************)
(* What the street graph and its searches promise.                         *)
(***************************************************************************)
EXTENDS StreetSearch

Built == phase \notin {"reading", "building"}

(* Every variable has its type.                                            *)
TypeOK ==
  /\ phase \in {"reading", "building", "ready", "asked", "searching", "found", "answered"}
  /\ ctx.in \in {"none", "node", "way", "skip"}
  /\ \A e \in ToSet(edges) : e.from \in Nodes /\ e.to \in Nodes /\ e.length \in Nat
  /\ Built => start \in [1..(Len(nodes) + 1) -> 1..(Len(edges) + 1)]
  /\ g \in [DOMAIN g -> Nat] /\ DOMAIN g \subseteq Nodes
  /\ came \in [DOMAIN came -> DOMAIN edges] /\ DOMAIN came \subseteq DOMAIN g
  /\ closed \subseteq DOMAIN g
  /\ \A x \in open : x.node \in DOMAIN g
  /\ \A n \in DOMAIN arrival : arrival[n].edge \in DOMAIN edges /\ edges[arrival[n].edge].to = n
  /\ current \in Nodes \cup {0}

-----------------------------------------------------------------------------
(* What a document says, read off its tags at a distance.                  *)
ClosingOf(i) ==
  SelectInSubSeq(document, i, Len(document),
                 LAMBDA e : e.name = document[i].name /\ e.shape = "close")

WaysWritten ==
  {LET inside == SubSeq(document, i, ClosingOf(i))
       vals(name) == [k \in DOMAIN SelectSeq(inside, LAMBDA e : e.name = name /\ e.ok) |->
                        SelectSeq(inside, LAMBDA e : e.name = name /\ e.ok)[k].val]
   IN  <<i, [nodes |-> vals("nd"), tags |-> vals("tag")]>> :
   i \in {k \in DOMAIN document : document[k].name = "way" /\ document[k].shape = "open"}}

NodesWritten ==
  {e.val : e \in {d \in ToSet(document) : d.name = "node" /\ d.shape # "close" /\ d.ok}}

WholeWays ==
  {w \in WaysWritten :
     /\ IsWalkable(w[2])
     /\ \A id \in ToSet(w[2].nodes) : \E n \in NodesWritten : n.id = id}

(* The graph is what the document says: an edge each way for every stretch of
   the ways that are walkable and whole, and no other; the edges that leave a
   node are where its slice of the packed edges says; a node lies where the
   document puts it.  A node whose element holds tags, a relation in between, a
   way that breaks off at the border of the extract change nothing of it.   *)
GraphAsWritten ==
  Built =>
    /\ {<<nodes[e.from].osm, nodes[e.to].osm, e.attrs>> : e \in ToSet(edges)}
         = UNION {{<<w[2].nodes[hop[1]], w[2].nodes[hop[2]], Accessibility(w[2])>> :
                     hop \in {ij \in (DOMAIN w[2].nodes) \X (DOMAIN w[2].nodes) :
                                Abs(ij[1] - ij[2]) = 1}} : w \in WholeWays}
    /\ Len(edges) = 2 * FoldSet(LAMBDA w, n : n + Max({0, Len(w[2].nodes) - 1}), 0, WholeWays)
    /\ \A n \in Nodes : OutEdges(n) = {i \in DOMAIN edges : edges[i].from = n}
    /\ \A e \in ToSet(edges) : e.length = Dist(PlaceOf(e.from), PlaceOf(e.to))
    /\ \A n \in Nodes : [id |-> nodes[n].osm, at |-> PlaceOf(n)] \in NodesWritten

(* The places up to two cells beyond the nodes.                            *)
Around ==
  LET span(axis) == (Origin(axis) - 2 * Cell)..(Max({PlaceOf(n)[axis] : n \in Nodes}) + 2 * Cell)
  IN  span(1) \X span(2)

(* The grid answers what a scan of all nodes would, the nearest and those within
   the radius, nearest first and by number where they are as near, for every
   place among the nodes and up to two cells beyond.  (Farther out nearest may
   run out of rings and find nothing.)                                     *)
SnapIsNearest ==
  phase = "ready" /\ Nodes # {} =>
    \A p \in Around :
      /\ Nearest(p) = NearestOf(p, Nodes)
      /\ LET all == {n \in Nodes : Dist(p, PlaceOf(n)) <= SnapRadius}
         IN  \A k \in 1..Min({SnapMax, Cardinality(all)}) :
               /\ Len(WithinRadius(p)) = Min({SnapMax, Cardinality(all)})
               /\ WithinRadius(p)[k] \in
                    NearestOf(p, all \ {WithinRadius(p)[j] : j \in 1..(k - 1)})

-----------------------------------------------------------------------------
(* The cost of a walk that is not made: more than the limit.                *)
Beyond == CostCap + 1

CheapestEdge(m, n) ==
  Min({Beyond} \cup {CostOf(i) : i \in {j \in DOMAIN edges :
                       edges[j].from = m /\ edges[j].to = n /\ ~Barred(j)}})

(* The cheapest walk between any two nodes, of any number of edges; D[k] counts
   the walks whose inner nodes are among the first k.                      *)
Direct == [m \in Nodes |-> [n \in Nodes |-> IF m = n THEN 0 ELSE CheapestEdge(m, n)]]

Through(past, k) ==
  [m \in Nodes |-> [n \in Nodes |-> Min({past[m][n], past[m][k] + past[k][n]})]]

Cheapest ==
  LET D[k \in 0..Len(nodes)] == IF k = 0 THEN Direct ELSE Through(D[k - 1], k)
  IN  D[Len(nodes)]

(* A node that is settled was reached as cheaply as it can be from any of the
   sources, the price of snapping to the source included: no estimate of what
   is left to walk has closed a node too early.                            *)
SettledIsCheapest ==
  phase = "searching" /\ current # 0 /\ cursor = start[current] =>
    LET d == Cheapest
    IN  g[current] = Min({Offset(query.from, s) + d[s][current] : s \in Sources})

(* The walks of a target: with an edge at least, within the limit, from a source
   to a goal, priced with the snapping at both ends.                       *)
Prices(t) ==
  LET d == Cheapest
      walks == {w \in Sources \X (DOMAIN edges) \X Goals(t) :
                  /\ ~Barred(w[2])
                  /\ Offset(query.from, w[1]) + d[w[1]][edges[w[2]].from]
                       + CostOf(w[2]) + d[edges[w[2]].to][w[3]] <= CostCap}
  IN  {Offset(query.from, w[1]) + d[w[1]][edges[w[2]].from] + CostOf(w[2])
         + d[edges[w[2]].to][w[3]] + Offset(query.targets[t], w[3]) : w \in walks}
        \cup {Offset(query.from, sources[1])
                + Offset(query.targets[t], sources[1]) : x \in {y \in {t} : SameNearest(y)}}

Ends(t) ==
  LET ns == result[t].nodes
  IN  IF query.kind = "from_many" THEN <<ns[Len(ns)], ns[1]>> ELSE <<ns[1], ns[Len(ns)]>>

(* Whatever the kind of search, the target or the order in which equal entries
   leave the heap, a target has an answer when there is a walk to it within the
   limit, and the answer is the cheapest of all pairs of snapped ends.      *)
WalkIsBest ==
  phase = "answered" /\ Sources # {} =>
    \A t \in Targets :
      LET prices == Prices(t)
      IN  /\ t \in DOMAIN result <=> prices # {}
          /\ t \in DOMAIN result =>
               Offset(query.from, Ends(t)[1]) + result[t].duration
                 + Offset(query.targets[t], Ends(t)[2]) = Min(prices)

(* What is said of the choices of a walk, of one edge for each hop: that one of
   them is marked or that none is.                                         *)
Tells(said, choices, marked) ==
  IF said THEN \E k \in DOMAIN choices : choices[k] \cap marked # {}
  ELSE \A k \in DOMAIN choices : ~(choices[k] \subseteq marked)

(* A walk that is answered can be walked: from node to node along edges that the
   profile may use, its length and cost are those of the cheapest of them, and it
   says that there are stairs or an elevator on it when these have some, and that
   there are none when they have none (of two edges as cheap, either may be meant). *)
WalkIsReal ==
  phase = "answered" =>
    \A t \in DOMAIN result :
      LET w    == result[t]
          hops == 1..(Len(w.nodes) - 1)
          on(k) == {i \in DOMAIN edges :
                      {w.nodes[k], w.nodes[k + 1]} = {edges[i].from, edges[i].to} /\ ~Barred(i)}
          least == [k \in hops |-> {i \in on(k) : \A j \in on(k) : CostOf(i) <= CostOf(j)}]
      IN  /\ \A k \in hops : on(k) # {}
          /\ w.distance = SumOf([k \in hops |-> Dist(PlaceOf(w.nodes[k]), PlaceOf(w.nodes[k + 1]))])
          /\ w.duration = SumOf([k \in hops |-> Min({CostOf(i) : i \in on(k)})])
          /\ w.stairs => ~query.profile.forbid
          /\ Tells(w.stairs, least, {i \in DOMAIN edges : edges[i].attrs.stairs})
          /\ Tells(w.elevator, least, {i \in DOMAIN edges : edges[i].attrs.elevator})
=============================================================================
