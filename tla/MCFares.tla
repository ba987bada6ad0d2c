------------------------------ MODULE MCFares ------------------------------
(***************************************************************************)
(* Fares of a railway with zones, a bus with a flat fare per ride, and a   *)
(* feed without fares, for journeys of up to four legs.                    *)
(***************************************************************************)
EXTENDS FareProperties

MCFareIds == {"ab", "bc", "cd", "abc", "flat", "pass", "area"}
MCFeeds   == {"rail", "bus", "other"}
MCRoutes  == {"red", "blue", "b1", "o1"}
MCZones   == {"a", "b", "c", "d"}

-----------------------------------------------------------------------------
Rail(route, x, y) == [kind |-> "ride", feed |-> "rail", route |-> route,
                      origin |-> {x}, destination |-> {y}]
Bus   == [kind |-> "ride", feed |-> "bus", route |-> "b1", origin |-> {},
          destination |-> {}]
Other == [kind |-> "ride", feed |-> "other", route |-> "o1", origin |-> {},
          destination |-> {}]

RailAB(route) == Rail(route, "a", "b")
RailBC(route) == Rail(route, "b", "c")
RailCD == Rail("red", "c", "d")

MCJourneys ==
  {<<RailAB(r), RailBC(s)>> : <<r, s>> \in {"red", "blue"} \X {"red", "blue"}}
    \cup {<<WalkLeg, RailAB("red"), RailBC(r), RailCD>> : r \in {"red", "blue"}}
    \cup {<<RailAB("red"), WalkLeg, RailBC("red"), Bus>>,
          <<RailAB("red"), RailBC("red"), Other, WalkLeg>>,
          <<Bus, Bus, RailCD, WalkLeg>>, <<WalkLeg>>}

-----------------------------------------------------------------------------
Row(f, r, o, d, c) == [fare |-> f, route |-> r, origin |-> o,
                       destination |-> d, contains |-> c]

ZoneRows == {Row("ab", {}, {"a"}, {"b"}, {}), Row("bc", {}, {"b"}, {"c"}, {}),
             Row("cd", {}, {"c"}, {"d"}, {}), Row("abc", {}, {"a"}, {"c"}, {})}

(* A fare from b to d as well, a pass for a line, or one for an area.      *)
Extras == {{}, {Row("bc", {}, {"b"}, {"d"}, {})}, {Row("pass", {"red"}, {}, {}, {})},
           {Row("area", {}, {}, {}, {z}) : z \in {"a", "b", "c"}}}

RailModels ==
  {[rules |-> (ZoneRows \ gone) \cup extra,
    attributes |-> [f \in {"ab", "bc", "cd", "abc", "pass", "area"} |->
       CASE f = "pass" -> [price |-> IF p = {} THEN 2 ELSE 3, transfers |-> p]
         [] f = "area" -> [price |-> 3, transfers |-> {}]
         [] f = "abc"  -> [price |-> 3, transfers |-> t]
         [] OTHER      -> [price |-> 2, transfers |-> {}]]] :
     <<gone, extra, t, p>> \in
       {{}, {Row("cd", {}, {"c"}, {"d"}, {})}, {Row("abc", {}, {"a"}, {"c"}, {})}}
         \X Extras \X {{}, {0}, {1}} \X {{}, {0}}}

BusModel == [rules |-> {Row("flat", {"b1"}, {}, {}, {})},
             attributes |-> [f \in {"flat"} |-> [price |-> 2, transfers |-> {0}]]]

MCTariffs ==
  {[feed \in {"rail", "bus"} |-> IF feed = "rail" THEN m ELSE BusModel] :
     m \in RailModels}
=============================================================================
