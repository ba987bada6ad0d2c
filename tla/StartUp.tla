------------------------------- MODULE StartUp -------------------------------
(***************************************************************************)
(* main of crates/server: from the command line to a server that listens.  *)
(* The arguments are read one by one, the feeds loaded one by one, and the  *)
(* first thing that is wrong ends the process.                             *)
(*                                                                         *)
(* A disk is the GTFS directories, by their paths, and the paths of the OSM *)
(* files that can be read; whether the port can be bound is anyone's guess. *)
(* What Timetable::build and build_from_osm_xml make is in TimetableBuild   *)
(* and StreetGraph; here the one ends in a panic or does not and the other  *)
(* fails when its file cannot be read.                                     *)
(***************************************************************************)
EXTENDS GtfsTables

CONSTANT
  Starts   (* pairs of a command line, which is a sequence of texts without
              the program's name, and a disk: [dirs |-> path -> directory,
              osm |-> paths]                                               *)

VARIABLES
  argv, disk,
  phase,          (* what it does next, or how it ended                    *)
  at,             (* args[i]                                               *)
  config,         (* what Config::parse has so far; gtfs and osm are sets
                     of no or one text                                      *)
  tables,         (* of the directory being loaded, read and not yet parsed *)
  feeds,          (* the feeds so far, in the order of the list            *)
  fares           (* prefix -> FareModel                                   *)

vars == <<argv, disk, phase, at, config, tables, feeds, fares>>

Ended == {"told", "refused", "panicked", "serving"}

DefaultPort == 8080

Init ==
  /\ \E start \in Starts : argv = start[1] /\ disk = start[2]
  /\ phase = "start" /\ at = 1
  /\ config = [gtfs |-> {}, osm |-> {}, port |-> DefaultPort, bus |-> FALSE,
               specs |-> <<>>]
  /\ tables = <<>> /\ feeds = <<>> /\ fares = <<>>

Go(next) == phase' = next /\ UNCHANGED <<argv, disk, at, config, tables, feeds, fares>>

-----------------------------------------------------------------------------
AsksHelp == \E k \in DOMAIN argv :
              argv[k] \in {<<"--help">>, <<"-h">>, <<"--version">>, <<"-V">>}

Start == phase = "start" /\ Go(IF AsksHelp THEN "told" ELSE "args")

(* Config::parse: the option at i and the argument after it, if it has one. *)
Option(name) == phase = "args" /\ at \in DOMAIN argv /\ argv[at] = <<name>>

Value == argv[at + 1]

Take(new, n) ==
  config' = new /\ at' = at + n /\ UNCHANGED <<argv, disk, phase, tables, feeds, fares>>

OptionGtfsFirst ==                                         (* a mutant *)
  /\ Option("--gtfs") /\ at < Len(argv)
  /\ Take([config EXCEPT !.gtfs = IF @ = {} THEN {Value} ELSE @], 2)

OptionGtfs ==
  Option("--gtfs") /\ at < Len(argv) /\ Take([config EXCEPT !.gtfs = {Value}], 2)

OptionOsm ==
  Option("--osm") /\ at < Len(argv) /\ Take([config EXCEPT !.osm = {Value}], 2)

OptionPortAny ==                                           (* a mutant *)
  /\ Option("--port") /\ at < Len(argv) /\ IsInt(Value)
  /\ Take([config EXCEPT !.port = Int32(Value)], 2)

OptionPort ==
  /\ Option("--port") /\ at < Len(argv) /\ Within(Value, 65535)
  /\ Take([config EXCEPT !.port = Int32(Value)], 2)

OptionBus == Option("--bus") /\ Take([config EXCEPT !.bus = TRUE], 1)

BadArgument ==
  /\ phase = "args" /\ at \in DOMAIN argv
  /\ \/ argv[at] \in {<<"--gtfs">>, <<"--osm">>, <<"--port">>} /\ at = Len(argv)
     \/ Option("--port") /\ at < Len(argv) /\ ~Within(Value, 65535)
     \/ argv[at] \notin {<<"--gtfs">>, <<"--osm">>, <<"--port">>, <<"--bus">>}
  /\ Go("refused")

(* parse_gtfs_specs                                                        *)
SpecOf(items, k) ==
  LET cut == SelectInSeq(items[k], LAMBDA c : c = "=")
  IN  IF cut = 0 THEN [prefix |-> <<ToString(k)>>, dir |-> items[k]]
      ELSE [prefix |-> SubSeq(items[k], 1, cut - 1),
            dir |-> SubSeq(items[k], cut + 1, Len(items[k]))]

Specs(list) ==
  LET items == SelectSeq(SplitAt(list, "comma"), LAMBDA item : item # None)
  IN  [k \in DOMAIN items |-> SpecOf(items, k)]

Missing == config.gtfs = {} \/ config.osm = {}

ArgumentsDone ==
  /\ phase = "args" /\ at > Len(argv)
  /\ \/ Missing /\ Go("refused")
     \/ /\ ~Missing
        /\ phase' = "street"
        /\ \E list \in config.gtfs : config' = [config EXCEPT !.specs = Specs(list)]
        /\ UNCHANGED <<argv, disk, at, tables, feeds, fares>>

-----------------------------------------------------------------------------
LoadStreet ==
  phase = "street" /\ Go(IF config.osm \subseteq disk.osm THEN "feeds" ELSE "refused")

(* A directory that does not exist has no files.                           *)
Dir(path) == IF path \in DOMAIN disk.dirs THEN disk.dirs[path] ELSE [text |-> <<>>, locked |-> {}]

FareModel(feed) == [attributes |-> feed.fareAttributes, rules |-> feed.fareRules]

SpecNow == config.specs[Len(feeds) + 1]

LoadDir ==
  /\ phase = "feeds" /\ Len(feeds) < Len(config.specs)
  /\ \/ Dir(SpecNow.dir).locked # {} /\ Go("refused")
     \/ /\ Dir(SpecNow.dir).locked = {}
        /\ tables' = LoadTables(Dir(SpecNow.dir)) /\ phase' = "parse"
        /\ UNCHANGED <<argv, disk, at, config, feeds, fares>>

(* feeds.push and fares.insert, which replaces what the prefix had.          *)
Add(feed, prefix) ==
  /\ feeds' = Append(feeds, feed)
  /\ fares' = [p \in DOMAIN fares \cup {prefix} |->
                 IF p = prefix THEN FareModel(feed) ELSE fares[p]]

ParseFeed ==
  /\ phase = "parse"
  /\ \E parsed \in {Parsed(tables)} :
       \/ ~AllGood(parsed) /\ Go("refused")
       \/ /\ AllGood(parsed)
          /\ Add(Namespace(FeedOf(parsed), SpecNow.prefix), SpecNow.prefix)
          /\ phase' = "feeds" /\ UNCHANGED <<argv, disk, at, config, tables>>

FeedPrefixLast(id) ==                                      (* a mutant *)
  LET cut == SelectLastInSeq(id, LAMBDA c : c = ":")
  IN  IF cut = 0 THEN id ELSE SubSeq(id, 1, cut - 1)

(* feed_prefix of the engine: how a journey finds the fares of its routes.  *)
FeedPrefix(id) ==
  LET cut == SelectInSeq(id, LAMBDA c : c = ":")
  IN  IF cut = 0 THEN id ELSE SubSeq(id, 1, cut - 1)

All(table) == FlattenSeq([k \in DOMAIN feeds |-> feeds[k][table]])

Ids(table, field) == {All(table)[k][field] : k \in DOMAIN All(table)}

Modes == IF config.bus THEN 0..3 ELSE 0..2

PackedOfOneStop ==                                         (* a mutant *)
  LET routes == {All("routes")[k].id : k \in {k \in DOMAIN All("routes") :
                                               All("routes")[k].type \in Modes}}
  IN  {All("trips")[k].id : k \in {k \in DOMAIN All("trips") : All("trips")[k].route \in routes}}

(* The trips that are packed: on a route of the modes, with two stops or more. *)
Packed ==
  LET routes == {All("routes")[k].id : k \in {k \in DOMAIN All("routes") :
                                               All("routes")[k].type \in Modes}}
      trips  == {All("trips")[k].id : k \in {k \in DOMAIN All("trips") :
                                              All("trips")[k].route \in routes}}
  IN  {t \in trips : Len(SelectSeq(All("stopTimes"), LAMBDA s : s.trip = t)) >= 2}

(* A packed trip at a stop that no stops row has registered: unreachable!()  *)
Dangles ==
  \E k \in DOMAIN All("stopTimes") :
    /\ All("stopTimes")[k].trip \in Packed
    /\ All("stopTimes")[k].stop \notin Ids("stops", "id") \cup Ids("stops", "parent")

BuildTimetable ==
  /\ phase = "feeds" /\ Len(feeds) = Len(config.specs)
  /\ Go(IF Dangles THEN "panicked" ELSE "bind")

(* run_server                                                              *)
Listen == phase = "bind" /\ \E bound \in BOOLEAN : Go(IF bound THEN "serving" ELSE "refused")

Next ==
  \/ Start \/ OptionGtfs \/ OptionOsm \/ OptionPort \/ OptionBus \/ BadArgument
  \/ ArgumentsDone \/ LoadStreet \/ LoadDir \/ ParseFeed \/ BuildTimetable \/ Listen

Spec == Init /\ [][Next]_vars /\ WF_vars(Next)
=============================================================================
