-------------------------- MODULE StartUpProperties --------------------------
(***************************************************************************)
(* What the start-up of the server promises.  Beside its texts a directory *)
(* has the rows they were written from, header first, to compare with.     *)
(***************************************************************************)
EXTENDS StartUp

Prefix(k) == config.specs[k].prefix

Source(k) == Dir(config.specs[k].dir)

(* A column as it was written; blank lines are no rows.                     *)
Column(dir, file, name) ==
  LET rows == IF file \in DOMAIN dir.text
              THEN SelectSeq(dir.rows[file], LAMBDA r : r # <<None>>) ELSE <<>>
      c    == SelectInSeq(rows[1], LAMBDA h : h = <<name>>)
  IN  IF rows = <<>> THEN <<>>
      ELSE [k \in 1..Len(rows) - 1 |->
              IF c \in DOMAIN rows[k + 1] THEN rows[k + 1][c] ELSE None]

Field(k, table, field) ==
  [r \in DOMAIN feeds[k][table] |-> feeds[k][table][r][field]]

Prefixed(prefix, column) ==
  [r \in DOMAIN column |-> IF column[r] = None THEN None ELSE prefix \o <<":">> \o column[r]]

(* Where identifiers come from; those of fare zones too.                    *)
IdColumns ==
  {<<"stops", "id", "stops", "stop_id">>,
   <<"stops", "parent", "stops", "parent_station">>,
   <<"stops", "zone", "stops", "zone_id">>,
   <<"routes", "id", "routes", "route_id">>,
   <<"trips", "id", "trips", "trip_id">>,
   <<"trips", "route", "trips", "route_id">>,
   <<"trips", "service", "trips", "service_id">>,
   <<"stopTimes", "trip", "stop_times", "trip_id">>,
   <<"stopTimes", "stop", "stop_times", "stop_id">>,
   <<"calendars", "service", "calendar", "service_id">>,
   <<"calendarDates", "service", "calendar_dates", "service_id">>,
   <<"fareRules", "route", "fare_rules", "route_id">>,
   <<"fareRules", "origin", "fare_rules", "origin_id">>,
   <<"fareRules", "destination", "fare_rules", "destination_id">>,
   <<"fareRules", "contains", "fare_rules", "contains_id">>,
   <<"frequencies", "trip", "frequencies", "trip_id">>}

(* What is no identifier of the feed, and is carried along as it is; fares and
   agencies are not put into its namespace.                                *)
TextColumns ==
  {<<"stops", "name", "stops", "stop_name">>, <<"routes", "agency", "routes", "agency_id">>,
   <<"fareAttributes", "fare", "fare_attributes", "fare_id">>,
   <<"fareRules", "fare", "fare_rules", "fare_id">>}

NumberColumns ==
  {<<"routes", "type", "routes", "route_type">>,
   <<"stopTimes", "seq", "stop_times", "stop_sequence">>,
   <<"calendars", "from", "calendar", "start_date">>,
   <<"calendars", "to", "calendar", "end_date">>,
   <<"calendarDates", "date", "calendar_dates", "date">>,
   <<"fareAttributes", "price", "fare_attributes", "price">>,
   <<"frequencies", "headway", "frequencies", "headway_secs">>}

TimeColumns ==
  {<<"frequencies", "start", "frequencies", "start_time">>,
   <<"frequencies", "end", "frequencies", "end_time">>}

(* Whatever a table's line ends, quoting, byte order mark and order of
   columns, the rows of the feed are those written, in their order, with
   every identifier in the feed's namespace and everything else as it was (but
   for the times of calls, which TripsKeepTime is about): the whole way of
   load_from_dir_namespaced, the CSV reader included.                       *)
LoadedAsWritten ==
  \A k \in DOMAIN feeds :
    LET column(c) == Column(Source(k), c[3], c[4])
        cell(file, name, r) == Column(Source(k), file, name)[r]
    IN  /\ \A c \in IdColumns : Field(k, c[1], c[2]) = Prefixed(Prefix(k), column(c))
        /\ \A c \in TextColumns : Field(k, c[1], c[2]) = column(c)
        /\ \A c \in NumberColumns :
             Field(k, c[1], c[2]) = [r \in DOMAIN column(c) |-> Int32(column(c)[r])]
        /\ \A c \in TimeColumns :
             Field(k, c[1], c[2]) = [r \in DOMAIN column(c) |-> TimeOf(column(c)[r])]
        /\ \A r \in DOMAIN feeds[k].calendars : \A d \in DOMAIN Days :
             feeds[k].calendars[r].weekdays[d] = (cell("calendar", Days[d], r) = <<"1">>)
        /\ \A r \in DOMAIN feeds[k].calendarDates :
             feeds[k].calendarDates[r].added
               = (cell("calendar_dates", "exception_type", r) = <<"1">>)

-----------------------------------------------------------------------------
References ==
  {<<"trips", "route", "routes", "id">>, <<"stopTimes", "trip", "trips", "id">>,
   <<"stopTimes", "stop", "stops", "id">>, <<"frequencies", "trip", "trips", "id">>,
   <<"stops", "parent", "stops", "id">>, <<"fareRules", "route", "routes", "id">>,
   <<"fareRules", "origin", "stops", "zone">>, <<"fareRules", "destination", "stops", "zone">>,
   <<"fareRules", "contains", "stops", "zone">>,
   <<"calendars", "service", "trips", "service">>,
   <<"calendarDates", "service", "trips", "service">>}

FilesOf(table, field) == CHOOSE c \in IdColumns : c[1] = table /\ c[2] = field

Written(k, table, field) ==
  LET c == FilesOf(table, field) IN Column(Source(k), c[3], c[4])

Plain(prefix) == \A i \in DOMAIN prefix : prefix[i] # ":"

IdsOf(k) == UNION {ToSet(Field(k, c[1], c[2])) : c \in IdColumns}

(* Feeds whose prefixes differ and have no colon share no identifier, of
   whatever kind, even where their files use the same ones, and within a feed a
   reference still leads to the rows that it led to in the files, the zones of
   fare rules included (the reasons given for Feed::namespace).  A prefix that is
   given may be the number another feed gets for having none, as in 2=x,y: those
   two feeds run into each other.                                          *)
FeedsApart ==
  \A k \in DOMAIN feeds :
    /\ \A l \in DOMAIN feeds \ {k} :
         Prefix(k) # Prefix(l) /\ Plain(Prefix(k)) /\ Plain(Prefix(l))
           => IdsOf(k) \cap IdsOf(l) \subseteq {None}
    /\ \A ref \in References :
         LET from == Field(k, ref[1], ref[2])
             to   == Field(k, ref[3], ref[4])
         IN  \A i \in DOMAIN from, j \in DOMAIN to :
               from[i] = to[j] <=> Written(k, ref[1], ref[2])[i] = Written(k, ref[3], ref[4])[j]

Apart ==
  \A k, l \in DOMAIN config.specs :
    Plain(Prefix(k)) /\ (k # l => Prefix(k) # Prefix(l))

(* A journey finds the fares of its rides by the prefix of the route: when
   the server listens, every route of a feed leads to that feed's own fare
   model, provided that the prefixes differ and have no colon.              *)
OwnTariff ==
  phase = "serving" /\ Apart =>
    \A k \in DOMAIN config.specs : \A r \in DOMAIN feeds[k].routes :
      LET p == FeedPrefix(feeds[k].routes[r].id)
      IN  p \in DOMAIN fares /\ fares[p] = FareModel(feeds[k])

-----------------------------------------------------------------------------
(* The times of a row as they were written: none, one, or both.            *)
TimesWritten(k, row) ==
  {TimeOf(cell) : cell \in {Column(Source(k), "stop_times", "arrival_time")[row],
                            Column(Source(k), "stop_times", "departure_time")[row]} \ {None}}

Follows(times, a, b) ==
  /\ times[a].trip = times[b].trip /\ times[a].seq < times[b].seq
  /\ ~\E c \in DOMAIN times : /\ times[c].trip = times[a].trip
                              /\ times[a].seq < times[c].seq /\ times[c].seq < times[b].seq

(* Times that were written stay; a trip whose written times never go back
   never goes back once its blanks are filled; and between the times around
   them the blanks are spread evenly, to within the second that a division
   drops (interpolate_missing_times).                                       *)
TripsKeepTime ==
  \A k \in DOMAIN feeds :
    LET times == feeds[k].stopTimes
        blank(r) == TimesWritten(k, r) = {}
        sound(trip) == \A a, b \in {r \in DOMAIN times : times[r].trip = trip} :
                         \A x \in TimesWritten(k, a), y \in TimesWritten(k, b) :
                           times[a].seq < times[b].seq => x <= y
        gap(a, b) == times[b].arrival - times[a].departure
    IN  /\ \A r \in DOMAIN times : ~blank(r) =>
             TimesWritten(k, r) = {times[r].arrival, times[r].departure}
        /\ \A a, b \in DOMAIN times :
             Follows(times, a, b) /\ sound(times[a].trip) => gap(a, b) >= 0
        /\ \A a, b, c \in DOMAIN times :
             Follows(times, a, b) /\ Follows(times, b, c) /\ blank(b)
               => gap(b, c) - gap(a, b) \in -1..1

LastGiven(option, value) ==
  \E k \in 1..Len(argv) - 1 :
    /\ argv[k] = <<option>> /\ value = {argv[k + 1]}
    /\ \A l \in k + 2..Len(argv) : argv[l] # <<option>>

(* The trips of a feed that run, as its files have them: on a tramway, an
   underground or a railway, or a bus if those are asked for, and with two
   calls at least.                                                         *)
Running(k) ==
  LET trips    == Written(k, "trips", "id")
      routes   == Written(k, "routes", "id")
      types    == Column(Source(k), "routes", "route_type")
      calls(t) == {r \in DOMAIN Written(k, "stopTimes", "trip") :
                     Written(k, "stopTimes", "trip")[r] = t}
  IN  {trips[i] : i \in {i \in DOMAIN trips :
         /\ Cardinality(calls(trips[i])) >= 2
         /\ \E j \in DOMAIN routes :
              /\ routes[j] = Written(k, "trips", "route")[i]
              /\ types[j] \in {<<"0">>, <<"1">>, <<"2">>} \/ (config.bus /\ types[j] = <<"3">>)}}

(* One of them calls at a stop that the stops of its feed neither are nor have
   for a parent.                                                           *)
Stranded(k) ==
  LET stops == ToSet(Written(k, "stops", "id")) \cup ToSet(Written(k, "stops", "parent"))
  IN  \E r \in DOMAIN Written(k, "stopTimes", "stop") :
        /\ Written(k, "stopTimes", "trip")[r] \in Running(k)
        /\ Written(k, "stopTimes", "stop")[r] \notin stops

(* Whatever is served was loaded whole: the directories of the list that was
   given last, in its order and no other, with no file that is there and cannot
   be read and every row of its tables, the OSM file readable, every port that
   was given one that there is.  (A file that is not there, or a directory, is
   so many empty tables.)  And of feeds that are apart, as their files have them:
   every trip served that runs calls at stops of its feed's tables, and the
   process ends in a panic only for want of such a stop (unreachable! in
   Timetable::build), although every table was accepted; a trip that does not run
   may call wherever it likes.                                             *)
StartsWhole ==
  /\ phase = "serving" =>
       /\ LastGiven("--gtfs", config.gtfs) /\ LastGiven("--osm", config.osm)
       /\ config.osm \subseteq disk.osm
       /\ \A k \in DOMAIN argv : argv[k] = <<"--port">> => Within(argv[k + 1], 65535)
       /\ Len(feeds) = Len(config.specs)
       /\ \A k \in DOMAIN config.specs : Source(k).locked = {}
       /\ \A k \in DOMAIN config.specs, c \in IdColumns \cup TextColumns :
            Len(Field(k, c[1], c[2])) = Len(Column(Source(k), c[3], c[4]))
  /\ Apart /\ phase = "serving"  => \A k \in DOMAIN config.specs : ~Stranded(k)
  /\ Apart /\ phase = "panicked" => \E k \in DOMAIN config.specs : Stranded(k)
=============================================================================
