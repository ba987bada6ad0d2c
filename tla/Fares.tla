-------------------------------- MODULE Fares --------------------------------
(***************************************************************************)
(* What a journey costs: Engine::compute_fare of crates/engine over the    *)
(* GTFS-Fares v1 models of crates/fares.                                   *)
(*                                                                         *)
(* The journey's rides are cut into groups of consecutive rides of one     *)
(* feed (a walk or another feed ends a group).  A group is paid with       *)
(* tickets, from its first ride on, each as wide as FareModel::total_fare  *)
(* finds one: spans are tried from the whole rest of the group down to a   *)
(* single ride.  A feed without a model, or a ride for which no span is    *)
(* found, leaves the whole journey without a price.                        *)
(*                                                                         *)
(* An Option is a set of at most one element.  Prices are whole numbers,   *)
(* so the f64 sums of the code are exact.                                  *)
(***************************************************************************)
EXTENDS Integers, Sequences, FiniteSetsExt

CONSTANTS
  FareIds,    (* FareId                                                    *)
  Feeds,      (* feed prefixes                                             *)
  Routes,     (* RouteId                                                   *)
  Zones,      (* fare zones                                                *)
  Journeys,   (* the journeys to price                                     *)
  Tariffs     (* per feed that has one, its fare model: Engine.fares       *)

Option(S) == {{}} \cup {{x} : x \in S}

FareAttribute == [price: Nat, transfers: SUBSET Nat]

FareRule == [fare: FareIds, route: Option(Routes), origin: Option(Zones),
             destination: Option(Zones), contains: Option(Zones)]

FareLeg == [route: Option(Routes), origin: Option(Zones),
            destination: Option(Zones), zones: SUBSET Zones]

RideLeg == [kind: {"ride"}, feed: Feeds, route: Routes, origin: Option(Zones),
            destination: Option(Zones)]

WalkLeg == [kind |-> "walk"]

(* attributes: the first row of fare_attributes of each fare that has one. *)
IsModel(m) ==
  /\ DOMAIN m.attributes \subseteq FareIds
  /\ \A f \in DOMAIN m.attributes : m.attributes[f] \in FareAttribute
  /\ m.rules \subseteq FareRule

ASSUME JourneysAssumption == Journeys \subseteq Seq(RideLeg \cup {WalkLeg})

ASSUME TariffsAssumption ==
  \A t \in Tariffs : /\ DOMAIN t \subseteq Feeds
                     /\ \A feed \in DOMAIN t : IsModel(t[feed])

VARIABLES
  tariff,    (* the fare models                                            *)
  journey,   (* the legs of the journey                                    *)
  pc,        (* "scan" its legs, pay a "group", then "priced" or "none"    *)
  i,         (* the leg to look at, or the first ride not yet paid         *)
  j,         (* the last ride of the span tried                            *)
  end,       (* the last ride of the group                                 *)
  tickets    (* the tickets bought: their spans and fares; the code keeps
                only the sum of their prices                               *)

vars == <<tariff, journey, pc, i, j, end, tickets>>

-----------------------------------------------------------------------------
ContainsOnly(row) ==
  row.contains # {} /\ row.route = {} /\ row.origin = {} /\ row.destination = {}

(* Every field a row states must be the leg's; one it leaves out is any.   *)
RowMatches(row, leg) ==
  /\ ~ContainsOnly(row)
  /\ row.route \subseteq leg.route
  /\ row.origin \subseteq leg.origin
  /\ row.destination \subseteq leg.destination

(* rule_group_matches: one row matches, or the zones listed by the rows that
   list nothing else are all the leg touches.                              *)
RuleGroupMatches(rows, leg) ==
  \/ \E row \in rows : RowMatches(row, leg)
  \/ LET listing == {row \in rows : ContainsOnly(row)}
     IN  /\ listing # {}
         /\ leg.zones # {}
         /\ leg.zones \subseteq UNION {row.contains : row \in listing}

Matching(model, leg) ==
  {f \in DOMAIN model.attributes :
     RuleGroupMatches({row \in model.rules : row.fare = f}, leg)}

(* fare_for_leg: the cheapest fares that match.  The code returns one; among
   equally cheap ones the iteration order of a HashMap decides.            *)
FareForLeg(model, leg) ==
  {f \in Matching(model, leg) : \A g \in Matching(model, leg) :
     model.attributes[f].price <= model.attributes[g].price}

(* through_fare: a span as one ride from its first stop to its last, of its
   route when all of it is of one.                                         *)
ThroughFare(model, legs) ==
  FareForLeg(model, [route       |-> IF \A k \in DOMAIN legs :
                                           legs[k].route = legs[1].route
                                     THEN {legs[1].route} ELSE {},
                     origin      |-> legs[1].origin,
                     destination |-> legs[Len(legs)].destination,
                     zones |-> UNION {legs[k].origin \cup legs[k].destination :
                                        k \in DOMAIN legs}])

Permits(attribute, used) == \A t \in attribute.transfers : used <= t

IsRide(leg) == leg.kind = "ride"

RideSpan(a, b) ==
  /\ a \in 1 .. b
  /\ b <= Len(journey)
  /\ \A k \in a .. b : IsRide(journey[k]) /\ journey[k].feed = journey[a].feed

(* The last ride of the group that starts with ride a.                     *)
GroupEnd(a) == Max({b \in a .. Len(journey) : RideSpan(a, b)})

Model(a) == tariff[journey[a].feed]

-----------------------------------------------------------------------------
Init ==
  /\ tariff \in Tariffs
  /\ journey \in Journeys
  /\ pc = "scan"
  /\ i = 1
  /\ j = 0
  /\ end = 0
  /\ tickets = <<>>

SkipWalk ==
  /\ pc = "scan"
  /\ i <= Len(journey)
  /\ ~IsRide(journey[i])
  /\ i' = i + 1
  /\ UNCHANGED <<tariff, journey, pc, j, end, tickets>>

(* A group of a feed that has fares.                                       *)
OpenGroup ==
  /\ pc = "scan"
  /\ i <= Len(journey)
  /\ IsRide(journey[i])
  /\ journey[i].feed \in DOMAIN tariff
  /\ pc' = "group"
  /\ end' = GroupEnd(i)
  /\ j' = GroupEnd(i)
  /\ UNCHANGED <<tariff, journey, i, tickets>>

(* A group of a feed without: no price.                                    *)
FeedWithoutFares ==
  /\ pc = "scan"
  /\ i <= Len(journey)
  /\ IsRide(journey[i])
  /\ journey[i].feed \notin DOMAIN tariff
  /\ pc' = "none"
  /\ UNCHANGED <<tariff, journey, i, j, end, tickets>>

SpanFares == ThroughFare(Model(i), SubSeq(journey, i, j))

Permitted(f) == Permits(Model(i).attributes[f], j - i)

TakeSpanAgain ==                                           (* a mutant *)
  /\ pc = "group"
  /\ \E f \in {g \in SpanFares : Permitted(g)} :
       tickets' = Append(tickets, [from |-> i, to |-> j, fare |-> f])
  /\ i' = IF j = i THEN j + 1 ELSE j
  /\ j' = end
  /\ pc' = IF i' > end THEN "scan" ELSE "group"
  /\ UNCHANGED <<tariff, journey, end>>

(* One ticket for the span tried; the rest of the group is tried next.     *)
TakeSpan ==
  /\ pc = "group"
  /\ \E f \in {g \in SpanFares : Permitted(g)} :
       tickets' = Append(tickets, [from |-> i, to |-> j, fare |-> f])
  /\ i' = j + 1
  /\ j' = end
  /\ pc' = IF j = end THEN "scan" ELSE "group"
  /\ UNCHANGED <<tariff, journey, end>>

(* The fare returned for the span, if any, does not allow its changes.     *)
NoTicketForSpan == SpanFares = {} \/ \E f \in SpanFares : ~Permitted(f)

ShrinkSpanToFirst ==                                       (* a mutant *)
  /\ pc = "group"
  /\ NoTicketForSpan
  /\ j > i
  /\ j' = i
  /\ UNCHANGED <<tariff, journey, pc, i, end, tickets>>

ShrinkSpanUnderflows ==                                    (* a mutant *)
  /\ pc = "group"
  /\ NoTicketForSpan
  /\ j' = j - 1
  /\ UNCHANGED <<tariff, journey, pc, i, end, tickets>>

ShrinkSpan ==
  /\ pc = "group"
  /\ NoTicketForSpan
  /\ j > i
  /\ j' = j - 1
  /\ UNCHANGED <<tariff, journey, pc, i, end, tickets>>

RefuseWithoutShrinking ==                                  (* a mutant *)
  /\ pc = "group"
  /\ NoTicketForSpan
  /\ pc' = "none"
  /\ UNCHANGED <<tariff, journey, i, j, end, tickets>>

(* Not even ride i alone has a fare: total_fare fails, and no price.       *)
Refuse ==
  /\ pc = "group"
  /\ NoTicketForSpan
  /\ j = i
  /\ pc' = "none"
  /\ UNCHANGED <<tariff, journey, i, j, end, tickets>>

Finish ==
  /\ pc = "scan"
  /\ i > Len(journey)
  /\ pc' = "priced"
  /\ UNCHANGED <<tariff, journey, i, j, end, tickets>>

Next ==
  \/ SkipWalk \/ OpenGroup \/ FeedWithoutFares
  \/ TakeSpan \/ ShrinkSpan \/ Refuse
  \/ Finish

(* One call on one thread.                                                 *)
Fairness == WF_vars(Next)

Spec == Init /\ [][Next]_vars /\ Fairness
=============================================================================
