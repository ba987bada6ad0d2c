------------------------------ MODULE MCStreet ------------------------------
(***************************************************************************)
(* Small towns: six nodes, of which one may be out of the extract, and any of *)
(* several ways between them.                                              *)
(***************************************************************************)
EXTENDS StreetProperties

Tags(pairs) == [k \in DOMAIN pairs |-> Mark("tag", "self", TRUE, pairs[k])]

NodeOf(id, p) == <<Mark("node", "self", TRUE, [id |-> id, at |-> p])>>

TaggedNode(id, p) ==
  <<Mark("node", "open", TRUE, [id |-> id, at |-> p])>>
    \o Tags(<<<<"highway", "elevator">>>>) \o <<Mark("tag", "open", TRUE, <<"wheelchair", "yes">>),
         Mark("tag", "close", TRUE, 0), Mark("node", "close", TRUE, 0)>>

BadNode ==
  <<Mark("node", "open", FALSE, 0)>> \o Tags(<<<<"highway", "steps">>>>)
    \o <<Mark("node", "close", TRUE, 0), Mark("node", "self", FALSE, 0)>>

WayOf(ids, tags) ==
  <<Mark("way", "open", TRUE, 0)>> \o [k \in DOMAIN ids |-> Mark("nd", "self", TRUE, ids[k])]
    \o Tags(tags) \o <<Mark("way", "close", TRUE, 0)>>

Relation ==
  <<Mark("relation", "open", TRUE, 0), Mark("member", "self", TRUE, 0)>>
    \o Tags(<<<<"highway", "path">>>>) \o <<Mark("relation", "close", TRUE, 0), Mark("relation", "self", TRUE, 0)>>

Places == <<NodeOf(1, <<0, 0>>), TaggedNode(2, <<3, 0>>), BadNode, NodeOf(3, <<5, 0>>),
            NodeOf(4, <<5, 1>>), NodeOf(5, <<9, 2>>)>>

(* The main street; stairs and the way round them, by an elevator and a slope no
   wheelchair is made for; a road for cars; a way that leaves the extract.     *)
Menu ==
  <<WayOf(<<1, 2>>, <<<<"highway", "footway">>, <<"wheelchair", "yes">>>>),
    WayOf(<<2, 3>>, <<<<"highway", "steps">>, <<"wheelchair", "yes">>>>),
    WayOf(<<2, 4>>, <<<<"highway", "path">>, <<"wheelchair", "yes">>, <<"incline", "-20%">>,
                    <<"elevator", "yes">>>>),
    WayOf(<<3, 4, 5>>, <<<<"highway", "residential">>>>),
    WayOf(<<1, 5>>, <<<<"highway", "primary">>, <<"foot", "no">>>>),
    WayOf(<<5, 6, 3>>, <<<<"highway", "service">>>>),
    WayOf(<<1, 1, 5>>, <<<<"highway", "track">>, <<"wheelchair", "no">>>>)>>

Town(chosen) ==
  <<Mark("osm", "open", TRUE, 0)>> \o FlattenSeq(Places) \o <<Mark("way", "self", TRUE, 0)>>
    \o FlattenSeq([k \in DOMAIN Menu |->
                     IF k \in chosen THEN IF k = 3 THEN Relation \o Menu[k] ELSE Menu[k] ELSE <<>>])
    \o <<Mark("osm", "close", TRUE, 0)>>

(* No way at all, or the main street and any of the others.                 *)
MCDocuments == {Town({})} \cup {Town({1} \cup chosen) : chosen \in SUBSET (2..Len(Menu))}

Solo       == [stairs |-> 1, unknown |-> 1, slope |-> 100, forbid |-> FALSE]
Wheelchair == [stairs |-> 10, unknown |-> 2, slope |-> 10, forbid |-> TRUE]

MCProfiles == {Solo, Wheelchair}

(* From beside the first node, or between two, to where stairs and slope meet, to
   the far end and back to the start.                                      *)
Searches ==
  {[kind |-> "route", from |-> <<0, 0>>, targets |-> <<<<5, 0>>>>],
   [kind |-> "route", from |-> <<4, 0>>, targets |-> <<<<9, 3>>>>],
   [kind |-> "route", from |-> <<4, 0>>, targets |-> <<<<6, 0>>>>],
   [kind |-> "to_many", from |-> <<1, 0>>, targets |-> <<<<5, 0>>, <<8, 2>>, <<90, 0>>>>],
   [kind |-> "from_many", from |-> <<5, 1>>, targets |-> <<<<2, 0>>, <<0, 1>>>>]}

MCQueriesOn(extract) ==
  {[kind |-> s.kind, from |-> s.from, targets |-> s.targets, profile |-> p] :
     s \in Searches, p \in MCProfiles}
=============================================================================
