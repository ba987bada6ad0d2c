---------------------------- MODULE StreetGraph ----------------------------
(***************************************************************************)
(* The street graph of crates/street: the ways that can be walked become    *)
(* edges in both directions, packed by the node they leave, and a grid of   *)
(* square cells finds the nodes near a place.                              *)
(*                                                                         *)
(* Places are points of a plane, <<east, north>>, and distances are counted *)
(* along its axes: like the code's haversine it is a metric that is never   *)
(* smaller than either coordinate's difference, which is all that the grid  *)
(* and the search's estimate rely on.  Nodes are numbered from 1.           *)
(***************************************************************************)
EXTENDS OsmReader, StableSort

CONSTANTS
  Cell,        (* GRID_CELL_M                                              *)
  Safety,      (* GRID_SAFETY in hundredths                                *)
  SnapRadius,  (* SNAP_RADIUS_M                                            *)
  SnapMax      (* SNAP_MAX_CANDIDATES                                      *)

ASSUME GridAssumption == /\ Cell \in Nat \ {0} /\ Safety \in 1..100
                         /\ SnapRadius \in Nat /\ SnapMax \in Nat \ {0}

VARIABLES
  ways,      (* the ways that are still to be put into the graph           *)
  nodes,     (* per node its number in OSM (node_index) and its place      *)
  edges,     (* StreetEdge: from, to, length and what a wheel makes of it  *)
  start      (* adjacency_start: the first edge of each node; empty before *)

graphVars == <<ways, nodes, edges, start>>

Abs(x) == IF x < 0 THEN -x ELSE x

Dist(p, q) == Abs(p[1] - q[1]) + Abs(p[2] - q[2])

Nodes == DOMAIN nodes

PlaceOf(n) == nodes[n].at

-----------------------------------------------------------------------------
(* is_walkable                                                             *)
WalkableHighway ==
  {"footway", "path", "pedestrian", "steps", "living_street", "residential", "service",
   "track", "unclassified", "tertiary", "secondary", "primary", "elevator"}

IsWalkable(way) == TagOf(way, "highway") \in WalkableHighway /\ TagOf(way, "foot") # "no"

(* accessibility_attrs.  A slope is only read from a percentage, and without
   its sign; 0 stands for none given, which no profile tells apart.        *)
Accessibility(way) ==
  [stairs     |-> TagOf(way, "highway") = "steps",
   elevator   |-> TagOf(way, "highway") = "elevator" \/ TagOf(way, "elevator") = "yes",
   wheelchair |-> CASE TagOf(way, "wheelchair") = "yes" -> "yes"
                    [] TagOf(way, "wheelchair") = "no"  -> "no"
                    [] OTHER -> "unknown",
   slope      |-> CASE TagOf(way, "incline") \in {"20%", "-20%"} -> 20
                    [] TagOf(way, "incline") \in {"5%", "-5%"}   -> 5
                    [] OTHER -> 0]

(* coord_by_id: of two nodes with one number the later counts.             *)
Known(id) == \E n \in ToSet(osm.nodes) : n.id = id

CoordOf(id) == osm.nodes[SelectLastInSeq(osm.nodes, LAMBDA n : n.id = id)].at

(* node_index.entry(..).or_insert_with                                     *)
Register(list, id) ==
  IF \E n \in ToSet(list) : n.osm = id THEN list
  ELSE Append(list, [osm |-> id, at |-> CoordOf(id)])

RegisterAll(list, ids) ==
  LET after[k \in 0..Len(ids)] == IF k = 0 THEN list ELSE Register(after[k - 1], ids[k])
  IN  after[Len(ids)]

NumberOfFromZero(list, id) ==                              (* a mutant *)
  SelectInSeq(list, LAMBDA n : n.osm = id) - 1

NumberOf(list, id) == SelectInSeq(list, LAMBDA n : n.osm = id)

(* A stretch of a way is walked in both directions, one edge after the other. *)
Stretches(way, list) ==
  LET Edge(i, j) == [from |-> NumberOf(list, way.nodes[i]), to |-> NumberOf(list, way.nodes[j]),
                     length |-> Dist(CoordOf(way.nodes[i]), CoordOf(way.nodes[j])),
                     attrs |-> Accessibility(way)]
  IN  [k \in 1..(2 * (Len(way.nodes) - 1)) |->
         LET i == (k + 1) \div 2 IN IF k % 2 = 1 THEN Edge(i, i + 1) ELSE Edge(i + 1, i)]

Usable(way) == IsWalkable(way) /\ Len(way.nodes) >= 2

-----------------------------------------------------------------------------
StartBuilding ==
  /\ phase = "reading"
  /\ unread = <<>>
  /\ phase' = "building"
  /\ ways' = osm.ways
  /\ UNCHANGED <<readerVars, nodes, edges, start>>

PassOver ==
  /\ phase = "building"
  /\ ways # <<>> /\ ~Usable(Head(ways))
  /\ ways' = Tail(ways)
  /\ UNCHANGED <<phase, readerVars, nodes, edges, start>>

(* A way is given up at the first node that the extract does not hold; the
   nodes before it stay registered, with no edge.                          *)
AddWay ==
  /\ phase = "building"
  /\ ways # <<>> /\ Usable(Head(ways))
  /\ ways' = Tail(ways)
  /\ LET way    == Head(ways)
         gap    == SelectInSeq(way.nodes, LAMBDA id : ~Known(id))
         before == IF gap = 0 THEN way.nodes ELSE SubSeq(way.nodes, 1, gap - 1)
     IN  /\ nodes' = RegisterAll(nodes, before)
         /\ edges' = IF gap = 0 THEN edges \o Stretches(way, nodes') ELSE edges
  /\ UNCHANGED <<phase, readerVars, start>>

(* sort_by_key by the node they leave; where a node's edges start is counted. *)
Pack ==
  /\ phase = "building"
  /\ ways = <<>>
  /\ phase' = "ready"
  /\ edges' = SortBy(edges, [i \in DOMAIN edges |-> edges[i].from])
  /\ start' = [n \in 1..(Len(nodes) + 1) |->
                 1 + Cardinality({i \in DOMAIN edges : edges[i].from < n})]
  /\ UNCHANGED <<readerVars, ways, nodes>>

OutEdges(n) == start[n]..(start[n + 1] - 1)

-----------------------------------------------------------------------------
(* SpatialGrid.  Its origin is the south-west corner of the nodes.          *)
Origin(axis) == Min({PlaceOf(n)[axis] : n \in Nodes})

CellOf(p) == [axis \in 1..2 |-> (p[axis] - Origin(axis)) \div Cell]

CellsApart(c, d) == Max({Abs(c[1] - d[1]), Abs(c[2] - d[2])})

(* The widest extent in cells, and two more.                               *)
MaxRing ==
  2 + Max({CellOf(PlaceOf(m))[axis] - CellOf(PlaceOf(n))[axis] :
             m \in Nodes, n \in Nodes, axis \in 1..2})

(* The nodes seen once the rings up to r around p's cell have been visited. *)
Visited(p, r) == {n \in Nodes : CellsApart(CellOf(PlaceOf(n)), CellOf(p)) <= r}

Nearer(p, m, n) ==
  \/ Dist(p, PlaceOf(m)) < Dist(p, PlaceOf(n))
  \/ Dist(p, PlaceOf(m)) = Dist(p, PlaceOf(n)) /\ m < n

NearestOf(p, S) == {n \in S : \A m \in S \ {n} : Nearer(p, n, m)}

NearestHasty(p) ==                                         (* a mutant *)
  LET found(r) == NearestOf(p, Visited(p, r))
      last == Min({r \in 0..MaxRing : found(r) # {}} \cup {MaxRing})
  IN  IF Nodes = {} THEN {} ELSE found(last)

(* nearest: rings are visited until nothing beyond them can be nearer than the
   best so far, or there are no more rings; none when all were empty.      *)
Nearest(p) ==
  LET found(r) == NearestOf(p, Visited(p, r))
      enough(r) == \E n \in found(r) : 100 * Dist(p, PlaceOf(n)) <= r * Cell * Safety
      last == Min({r \in 0..MaxRing : enough(r)} \cup {MaxRing})
  IN  IF Nodes = {} THEN {} ELSE found(last)

(* within_radius                                                           *)
WithinRadius(p) ==
  LET last  == Min({r \in 0..MaxRing : r * Cell * Safety > 100 * SnapRadius} \cup {MaxRing})
      found == {n \in Visited(p, last) : Dist(p, PlaceOf(n)) <= SnapRadius}
      order == InOrder(found, [n \in found |-> Dist(p, PlaceOf(n))])
  IN  IF Nodes = {} THEN <<>>
      ELSE [k \in 1..Min({SnapMax, Cardinality(found)}) |-> order[k]]
=============================================================================
