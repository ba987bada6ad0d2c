---------------------------- MODULE StreetSearch ----------------------------
(***************************************************************************)
(* route_multi_snap of crates/street, the search behind route,              *)
(* route_one_to_many and route_many_to_one, on the graph that StreetGraph   *)
(* has built: every node that one end may snap to is a source, every node   *)
(* that a target may snap to is a goal, and the cheapest pair wins.         *)
(*                                                                         *)
(* One action per node taken from the heap and one per edge relaxed.  Which *)
(* of several entries of the same priority is taken is left open.  Speeds   *)
(* are 1, so that a length is also the time it takes.                      *)
(***************************************************************************)
EXTENDS StreetGraph

CONSTANTS
  Documents,      (* the OSM extracts, as sequences of tags                *)
  QueriesOn(_),   (* the queries made of a document                        *)
  Profiles,       (* WalkProfile: stairs (reluctance), unknown, slope,
                     forbid                                                *)
  Reluctance,     (* SNAP_OFFSET_RELUCTANCE                                *)
  MaxSearchCost   (* MAX_SEARCH_COST_S                                     *)

(* A query: route has one target and may be guided by it, to_many and
   from_many search from one end to all the others.                        *)
Kinds == {"route", "to_many", "from_many"}

IsQuery(q) ==
  /\ q \in [kind : Kinds, from : Int \X Int, targets : Seq(Int \X Int), profile : Profiles]
  /\ q.kind = "route" => Len(q.targets) = 1

ASSUME DocumentsAssumption == \A doc \in Documents : IsExtract(doc)

ASSUME QueriesAssumption == \A doc \in Documents : \A q \in QueriesOn(doc) : IsQuery(q)

(* No profile makes an edge cheaper than its length: on this the estimate rests. *)
ASSUME ProfilesAssumption ==
  Profiles \subseteq [stairs : Nat \ {0}, unknown : Nat \ {0}, slope : Nat, forbid : BOOLEAN]

(* The dearest candidate is within the limit of every search.              *)
ASSUME CostsAssumption ==
  /\ Reluctance \in Nat /\ MaxSearchCost \in Nat
  /\ SnapRadius * Reluctance <= MaxSearchCost

VARIABLES
  document,  (* the extract                                                *)
  query,     (* [kind, from, targets, profile]                             *)
  sources,   (* origin_cands: what query.from may snap to, nearest first   *)
  goals,     (* target_cands: the same for each target                     *)
  g,         (* g_score, of the nodes reached                              *)
  came,      (* came_from: the edge a node was reached by, if any          *)
  closed,    (* the nodes settled                                          *)
  open,      (* the heap: [f, node]                                        *)
  best,      (* per target with an answer: [total, node, real]             *)
  arrival,   (* real_arrival: [cost, edge] per candidate walked to         *)
  resolved,  (* the targets whose answer is final                          *)
  current,   (* the node being settled, 0 for none                         *)
  cursor,    (* its next edge                                              *)
  result     (* the walks, per target that has one                         *)

searchVars == <<g, came, closed, open, best, arrival, resolved, current, cursor, result>>
builtVars  == <<readerVars, graphVars>>
askedVars == <<document, query, sources, goals>>
vars == <<phase, builtVars, askedVars, searchVars>>

Put(f, x, v) == [y \in DOMAIN f \cup {x} |-> IF y = x THEN v ELSE f[y]]

-----------------------------------------------------------------------------
(* edge_cost                                                               *)
EdgeCost(e, profile) ==
  LET byStairs == IF e.attrs.stairs THEN profile.stairs ELSE 1
      byWheel  == CASE e.attrs.wheelchair = "no"      -> Max({profile.stairs, 2})
                    [] e.attrs.wheelchair = "unknown" -> profile.unknown
                    [] OTHER                          -> 1
      excess   == Max({0, e.attrs.slope - profile.slope})
  IN  (e.length * byStairs * byWheel * (10 + excess)) \div 10

CostOf(i) == EdgeCost(edges[i], query.profile)

NeverBarred(i) == FALSE                                    (* a mutant *)

(* forbid_stairs is no price: such an edge is not there.                   *)
Barred(i) == query.profile.forbid /\ edges[i].attrs.stairs

(* snap_candidates: what is within the radius, or the one nearest node.     *)
Snap(p) ==
  CASE WithinRadius(p) # <<>> -> WithinRadius(p)
    [] WithinRadius(p) = <<>> /\ Nearest(p) # {} -> <<CHOOSE n \in Nearest(p) : TRUE>>
    [] OTHER -> <<>>

Offset(p, n) == Dist(p, PlaceOf(n)) * Reluctance

Sources == ToSet(sources)

Targets == DOMAIN goals

Goals(t) == ToSet(goals[t])

EstimateDear(n) ==                                         (* a mutant *)
  IF query.kind # "route" THEN 0 ELSE Offset(query.targets[1], n)

(* h: what is left to walk, less what the farthest candidate may save.      *)
Estimate(n) ==
  LET to == query.targets[1]
  IN  IF query.kind # "route" THEN 0
      ELSE Max({0} \cup {Dist(to, PlaceOf(n)) - Max({0} \cup {Dist(to, PlaceOf(c)) : c \in Goals(1)})})

CostCap == MaxSearchCost + Min({Offset(query.from, c) : c \in Sources})

(* A walk of no length is only the answer for ends with one nearest node.   *)
SameNearest(t) ==
  /\ Goals(t) # {}
  /\ sources[1] = goals[t][1]

-----------------------------------------------------------------------------
Init ==
  /\ phase = "reading"
  /\ document \in Documents
  /\ unread = document
  /\ ctx = Outside
  /\ osm = EmptyDoc
  /\ ways = <<>> /\ nodes = <<>> /\ edges = <<>> /\ start = <<>>
  /\ query = [kind |-> "none"] /\ sources = <<>> /\ goals = <<>>
  /\ g = <<>> /\ came = <<>> /\ best = <<>> /\ arrival = <<>> /\ result = <<>>
  /\ closed = {} /\ open = {} /\ resolved = {}
  /\ current = 0 /\ cursor = 0

Build ==
  /\ \/ ReadTag /\ UNCHANGED graphVars
     \/ StartBuilding \/ PassOver \/ AddWay \/ Pack
  /\ UNCHANGED <<askedVars, searchVars>>

Ask ==
  /\ phase = "ready"
  /\ query' \in QueriesOn(document)
  /\ sources' = Snap(query'.from)
  /\ goals' = [t \in DOMAIN query'.targets |-> Snap(query'.targets[t])]
  /\ phase' = "asked"
  /\ UNCHANGED <<builtVars, document, searchVars>>

(* No node to start from: every target goes without.                       *)
Nowhere ==
  /\ phase = "asked"
  /\ Sources = {}
  /\ phase' = "answered"
  /\ UNCHANGED <<builtVars, askedVars, searchVars>>

Seed ==
  /\ phase = "asked"
  /\ Sources # {}
  /\ phase' = "searching"
  /\ g' = [n \in Sources |-> Offset(query.from, n)]
  /\ open' = {[f |-> g'[n] + Estimate(n), node |-> n] : n \in Sources}
  /\ best' = [t \in {u \in Targets : SameNearest(u)} |->
                LET n == sources[1]
                IN  [total |-> Offset(query.from, n) + Offset(query.targets[t], n),
                     node |-> n, real |-> FALSE]]
  /\ resolved' = {t \in Targets : Goals(t) = {}}
  /\ UNCHANGED <<builtVars, askedVars, came, closed, arrival, current, cursor, result>>

(* open.pop(): an entry that no other is before.                           *)
Popped(x) == x \in open /\ \A y \in open : x.f <= y.f

Stale(x) ==
  /\ x.node \in closed
  /\ UNCHANGED <<phase, closed, resolved, current, cursor>>

(* The targets that no later step can improve.                             *)
Sure(x) == {t \in DOMAIN best : best[t].total <= x.f}

Settle(x) ==
  /\ x.node \notin closed
  /\ closed' = closed \cup {x.node}
  /\ resolved' = resolved \cup Sure(x)
  /\ resolved' = Targets => resolved = Targets
  /\ current' = x.node
  /\ cursor' = start[x.node]
  /\ UNCHANGED phase

(* The last target is resolved: the search ends there.                     *)
Enough(x) ==
  /\ x.node \notin closed
  /\ closed' = closed \cup {x.node}
  /\ resolved' = resolved \cup Sure(x)
  /\ resolved' = Targets /\ resolved # Targets
  /\ phase' = "found"
  /\ UNCHANGED <<current, cursor>>

Pop ==
  /\ phase = "searching" /\ current = 0
  /\ \E x \in open :
       /\ Popped(x)
       /\ open' = open \ {x}
       /\ Stale(x) \/ Settle(x) \/ Enough(x)
  /\ UNCHANGED <<builtVars, askedVars, g, came, best, arrival, result>>

Exhausted ==
  /\ phase = "searching" /\ current = 0
  /\ open = {}
  /\ phase' = "found"
  /\ UNCHANGED <<builtVars, askedVars, searchVars>>

-----------------------------------------------------------------------------
Relaxing == phase = "searching" /\ current # 0 /\ cursor < start[current + 1]

Tentative == g[current] + CostOf(cursor)

PassBy ==
  /\ Relaxing
  /\ Barred(cursor) \/ Tentative > CostCap
  /\ cursor' = cursor + 1
  /\ UNCHANGED <<phase, builtVars, askedVars, g, came, closed, open, best,
                 arrival, resolved, current, result>>

ArrivesOpen(n) ==                                          (* a mutant *)
  /\ \E t \in Targets : n \in Goals(t)
  /\ n \notin closed
  /\ n \in DOMAIN arrival => Tentative < arrival[n].cost

(* A candidate walked to: better than by any walk before?                  *)
Arrives(n) ==
  /\ \E t \in Targets : n \in Goals(t)
  /\ n \in DOMAIN arrival => Tentative < arrival[n].cost

(* The targets that n serves better than what they have.                   *)
Served(n) ==
  {t \in Targets : /\ n \in Goals(t)
                   /\ t \in DOMAIN best =>
                        Tentative + Offset(query.targets[t], n) < best[t].total}

Improves(n) == n \notin closed /\ (n \in DOMAIN g => Tentative < g[n])

(* A candidate's arrival is kept even where its own seed was settled first and
   the walk improves nothing; the node itself is only improved while open.  *)
Relax ==
  /\ Relaxing
  /\ ~Barred(cursor) /\ Tentative <= CostCap
  /\ cursor' = cursor + 1
  /\ LET n == edges[cursor].to
     IN  /\ IF Arrives(n)
            THEN /\ arrival' = Put(arrival, n, [cost |-> Tentative, edge |-> cursor])
                 /\ best' = [t \in DOMAIN best \cup Served(n) |->
                               IF t \notin Served(n) THEN best[t]
                               ELSE [total |-> Tentative + Offset(query.targets[t], n),
                                     node |-> n, real |-> TRUE]]
            ELSE UNCHANGED <<arrival, best>>
         /\ IF Improves(n)
            THEN /\ g' = Put(g, n, Tentative)
                 /\ came' = Put(came, n, cursor)
                 /\ open' = open \cup {[f |-> Tentative + Estimate(n), node |-> n]}
            ELSE UNCHANGED <<g, came, open>>
  /\ UNCHANGED <<phase, builtVars, askedVars, closed, resolved, current, result>>

Relaxed ==
  /\ phase = "searching" /\ current # 0
  /\ cursor = start[current + 1]
  /\ current' = 0
  /\ cursor' = 0
  /\ UNCHANGED <<phase, builtVars, askedVars, g, came, closed, open, best,
                 arrival, resolved, result>>

-----------------------------------------------------------------------------
(* The edges a node was reached by, from a source on.                      *)
Chain[n \in Nodes] ==
  IF n \in DOMAIN came THEN Append(Chain[edges[came[n]].from], came[n]) ELSE <<>>

EdgesTo(t) ==
  IF best[t].real
  THEN LET last == arrival[best[t].node].edge IN Append(Chain[edges[last].from], last)
  ELSE <<>>

SumOf(s) == FoldFunction(+, 0, s)

HasStairsLast(es) ==                                       (* a mutant *)
  es # <<>> /\ edges[es[Len(es)]].attrs.stairs

HasStairs(es) == \E k \in DOMAIN es : edges[es[k]].attrs.stairs

HasElevator(es) == \E k \in DOMAIN es : edges[es[k]].attrs.elevator

(* assemble_path; from_many gives the nodes the other way round.            *)
Assemble(t) ==
  LET es    == EdgesTo(t)
      first == IF es = <<>> THEN best[t].node ELSE edges[es[1]].from
      ns    == <<first>> \o [k \in DOMAIN es |-> edges[es[k]].to]
  IN  [nodes    |-> IF query.kind = "from_many" THEN Reverse(ns) ELSE ns,
       distance |-> SumOf([k \in DOMAIN es |-> edges[es[k]].length]),
       duration |-> SumOf([k \in DOMAIN es |-> CostOf(es[k])]),
       stairs   |-> HasStairs(es),
       elevator |-> HasElevator(es)]

Answer ==
  /\ phase = "found"
  /\ phase' = "answered"
  /\ result' = [t \in DOMAIN best |-> Assemble(t)]
  /\ UNCHANGED <<builtVars, askedVars, g, came, closed, open, best, arrival,
                 resolved, current, cursor>>

-----------------------------------------------------------------------------
Next == \/ Build \/ Ask \/ Nowhere \/ Seed \/ Pop \/ Exhausted
        \/ PassBy \/ Relax \/ Relaxed \/ Answer

Spec == Init /\ [][Next]_vars /\ WF_vars(Next)
=============================================================================
