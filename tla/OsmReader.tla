----------------------------- MODULE OsmReader -----------------------------
(***************************************************************************)
(* The reader of OSM XML, crates/street/src/osm_xml.rs: the document is     *)
(* taken one tag at a time, and a context remembers which element the tag   *)
(* is inside of.                                                           *)
(*                                                                         *)
(* A tag is given as parse_start_tag leaves it: a name, whether it opens,   *)
(* closes or does both, and, when the attributes its name calls for are     *)
(* there and parse (ok), what they say (val): a node's number and place, an *)
(* nd's ref, a tag's key and value.  Declarations and comments are no tags. *)
(***************************************************************************)
EXTENDS Integers, SequencesExt

VARIABLES
  phase,     (* reading, building, ready, asked, searching, found, answered     *)
  unread,    (* the tags that are still to be read                         *)
  ctx,       (* Context: what the tags read now are inside of              *)
  osm        (* OsmDoc: the nodes and the ways read so far                 *)

readerVars == <<unread, ctx, osm>>

Mark(name, shape, ok, val) == [name |-> name, shape |-> shape, ok |-> ok, val |-> val]

(* A document, with the values that parse_start_tag leaves.                *)
IsExtract(doc) ==
  /\ doc \in Seq(ToSet(doc))
  /\ \A e \in ToSet(doc) :
       /\ DOMAIN e = {"name", "shape", "ok", "val"}
       /\ e.ok \in BOOLEAN
       /\ e.ok /\ e.name = "node" /\ e.shape # "close" => e.val \in [id : Int, at : Int \X Int]
       /\ e.ok /\ e.name = "nd" /\ e.shape = "self" => e.val \in Int
       /\ e.ok /\ e.name = "tag" /\ e.shape = "self" => e.val \in STRING \X STRING

Outside   == [in |-> "none"]
EmptyWay  == [nodes |-> <<>>, tags |-> <<>>]
EmptyDoc  == [nodes |-> <<>>, ways |-> <<>>]

(* OsmWay::tag: the first value of a key, "" if there is none.              *)
TagOf(way, key) ==
  LET at == SelectInSeq(way.tags, LAMBDA t : t[1] = key)
  IN  IF at = 0 THEN "" ELSE way.tags[at][2]

-----------------------------------------------------------------------------
(* Inside of something unwanted only its closing tag matters.              *)
Skip(e) ==
  /\ ctx.in = "skip"
  /\ ctx' = IF e.name = ctx.name /\ e.shape = "close" THEN Outside ELSE ctx
  /\ UNCHANGED osm

NodeWhole(e) ==
  /\ e.name = "node" /\ e.shape = "self"
  /\ osm' = IF e.ok THEN [osm EXCEPT !.nodes = Append(@, e.val)] ELSE osm
  /\ UNCHANGED ctx

NodeOpens(e) ==
  /\ e.name = "node" /\ e.shape = "open"
  /\ ctx' = IF e.ok THEN [in |-> "node", node |-> e.val] ELSE [in |-> "skip", name |-> "node"]
  /\ UNCHANGED osm

NodeClosesUnkept(e) ==                                     (* a mutant *)
  /\ e.name = "node" /\ e.shape = "close"
  /\ ctx' = Outside
  /\ UNCHANGED osm

(* mem::replace leaves the context empty whatever it was.                  *)
NodeCloses(e) ==
  /\ e.name = "node" /\ e.shape = "close"
  /\ osm' = IF ctx.in = "node" THEN [osm EXCEPT !.nodes = Append(@, ctx.node)] ELSE osm
  /\ ctx' = Outside

WayWhole(e) ==
  /\ e.name = "way" /\ e.shape = "self"
  /\ osm' = [osm EXCEPT !.ways = Append(@, EmptyWay)]
  /\ UNCHANGED ctx

WayOpens(e) ==
  /\ e.name = "way" /\ e.shape = "open"
  /\ ctx' = [in |-> "way", way |-> EmptyWay]
  /\ UNCHANGED osm

WayCloses(e) ==
  /\ e.name = "way" /\ e.shape = "close"
  /\ osm' = IF ctx.in = "way" THEN [osm EXCEPT !.ways = Append(@, ctx.way)] ELSE osm
  /\ ctx' = Outside

(* An nd or a tag counts when it is closed in itself, and inside of a way: a
   node's own tags are read and never used.                                *)
InWay(e) ==
  /\ e.name \in {"nd", "tag"} /\ e.shape = "self"
  /\ ctx' = IF ctx.in # "way" \/ ~e.ok THEN ctx
            ELSE CASE e.name = "nd"  -> [ctx EXCEPT !.way.nodes = Append(@, e.val)]
                   [] e.name = "tag" -> [ctx EXCEPT !.way.tags = Append(@, e.val)]
  /\ UNCHANGED osm

RelationOpens(e) ==
  /\ e.name = "relation" /\ e.shape = "open"
  /\ ctx' = [in |-> "skip", name |-> "relation"]
  /\ UNCHANGED osm

(* <osm>, <bounds/>, <member/> and the like, and shapes nobody expects.     *)
Unknown(e) ==
  /\ \/ e.name \notin {"node", "way", "nd", "tag", "relation"}
     \/ e.name \in {"nd", "tag"} /\ e.shape # "self"
     \/ e.name = "relation" /\ e.shape # "open"
  /\ UNCHANGED <<ctx, osm>>

ReadTag ==
  /\ phase = "reading"
  /\ unread # <<>>
  /\ unread' = Tail(unread)
  /\ LET e == Head(unread)
     IN  \/ Skip(e)
         \/ /\ ctx.in # "skip"
            /\ \/ NodeWhole(e) \/ NodeOpens(e) \/ NodeCloses(e)
               \/ WayWhole(e) \/ WayOpens(e) \/ WayCloses(e)
               \/ InWay(e) \/ RelationOpens(e) \/ Unknown(e)
  /\ UNCHANGED phase
=============================================================================
