------------------------------ MODULE MCStartUp ------------------------------
(***************************************************************************)
(* Feeds of a railway, of a bus that uses the same identifiers, and of some *)
(* that cannot be loaded, written in every style of CSV, and the command    *)
(* lines that ask for them.                                                *)
(***************************************************************************)
EXTENDS StartUpProperties

MCIntOf ==
  "0" :> 0 @@ "1" :> 1 @@ "2" :> 2 @@ "3" :> 3 @@ "4" :> 4 @@ "5" :> 5 @@ "6" :> 6
    @@ "7" :> 7 @@ "8" :> 8 @@ "9" :> 9 @@ "10" :> 10 @@ "25" :> 25 @@ "30" :> 30
    @@ "60" :> 60 @@ "99" :> 99 @@ "300" :> 300 @@ "8081" :> 8081
    @@ "70000" :> 70000 @@ "-1" :> -1

-----------------------------------------------------------------------------
(* How a table is written: RFC 4180, with a choice of quotes and line ends. *)
Needs(cell) == ToSet(cell) \cap {"comma", "quote", "cr", "lf"} # {}

CellText(cell, style) ==
  IF Needs(cell) \/ style.quoted
  THEN <<"quote">> \o FlattenSeq([k \in DOMAIN cell |->
                        IF cell[k] = "quote" THEN <<"quote", "quote">> ELSE <<cell[k]>>])
         \o <<"quote">>
  ELSE cell

RowText(row, style) ==
  FlattenSeq([c \in DOMAIN row |->
    (IF c = 1 THEN <<>> ELSE <<"comma">>) \o CellText(row[c], style)])

TextOf(rows, style) ==
  (IF style.bom THEN <<"bom">> ELSE <<>>)
    \o FlattenSeq([r \in DOMAIN rows |->
         RowText(rows[r], style) \o (IF r = Len(rows) /\ ~style.ended THEN <<>> ELSE style.end)])

Styles ==
  [quoted : BOOLEAN, bom : BOOLEAN, ended : BOOLEAN,
   end : {<<"lf">>, <<"cr", "lf">>, <<"cr">>}]

Stored(rows, style) ==
  [rows |-> rows, locked |-> {}, text |-> [f \in DOMAIN rows |-> TextOf(rows[f], style)]]

-----------------------------------------------------------------------------
T(tokens) == [k \in DOMAIN tokens |-> IF tokens[k] = "" THEN None ELSE <<tokens[k]>>]

Header(names) == [k \in DOMAIN names |-> <<names[k]>>]

At(h, m) == <<h, ":", m, ":", "0">>

Call(trip, stop, seq, arr, dep) == <<<<trip>>, arr, dep, <<stop>>, <<seq>>>>

Blank == <<None>>

Columns == Header(<<"trip_id", "arrival_time", "departure_time", "stop_id", "stop_sequence">>)

(* With a call at a parent that has no row, and one at no stop at all by a trip
   that has no other.                                                      *)
Calls ==
  <<Columns, Call("1", "c", "9", At("8", "30"), None), Call("1", "a", "1", None, At("8", "0")),
    Blank, Call("1", "b", "3", None, None), Call("1", "d", "7", None, None),
    Call("2", "z", "1", At("9", "0"), None)>>

(* A trip that goes back in time as it is written.                         *)
BackCalls ==
  <<Columns, Call("2", "a", "1", At("8", "7"), At("8", "8")),
    Call("2", "b", "2", None, None), Call("2", "c", "3", At("8", "1"), At("9", "0")),
    Call("2", "b", "4", None, None), Call("2", "a", "5", <<"10", ":", "0", ":", "1">>, None)>>

Rail ==
  "stops" :>
    <<Header(<<"stop_id", "stop_name", "parent_station", "zone_id">>),
      <<<<"a">>, <<"A", "comma", "quote", "old", "quote">>, <<"c">>, <<"1">>>>,
      <<<<"b">>, <<"B", "lf", "B">>, <<"d">>, <<"2">>>>,
      <<<<"c">>>>, Blank>>
  @@ "routes" :> <<Header(<<"route_id", "route_type", "agency_id">>), T(<<"1", "1", "1">>), T(<<"2", "3">>)>>
  @@ "trips" :> <<Header(<<"trip_id", "route_id", "service_id">>),
                      T(<<"1", "1", "1">>), T(<<"2", "1", "2">>)>>
  @@ "stop_times" :> Calls
  @@ "calendar" :>
       <<Header(<<"service_id">> \o Days \o <<"start_date", "end_date">>),
         T(<<"1", "1", "1", "1", "1", "1", "0", "", "0", "99">>)>>
  @@ "calendar_dates" :> <<Header(<<"service_id", "date", "exception_type">>),
                               T(<<"2", "9", "1">>), T(<<"1", "9", "2">>)>>
  @@ "fare_attributes" :> <<Header(<<"fare_id", "price", "transfers">>), T(<<"f", "2", "">>)>>
  @@ "fare_rules" :>
       <<Header(<<"fare_id", "route_id", "origin_id", "destination_id", "contains_id">>),
         T(<<"f", "1", "2", "1">>), T(<<"f", "", "", "", "1">>), T(<<"f">>)>>
  @@ "frequencies" :>
       <<Header(<<"trip_id", "start_time", "end_time", "headway_secs">>),
         <<<<"1">>, At("8", "0"), At("25", "0"), <<"300">>>>>>

Day1 == <<"1", ":", "day">>

(* The same identifiers, of zones too, but for a route with a colon, the columns
   in another order, and one bus that calls at a stop without a row.       *)
BusFeed ==
  "stops" :> <<Header(<<"stop_name", "zone_id", "stop_id">>), T(<<"", "1", "a">>), T(<<"B", "2", "b">>)>>
  @@ "routes" :> <<Header(<<"route_type", "route_id">>), <<<<"3">>, Day1>>>>
  @@ "trips" :> <<Header(<<"service_id", "route_id", "trip_id">>), <<<<"1">>, Day1, <<"1">>>>>>
  @@ "stop_times" :> <<Calls[1], Call("1", "a", "1", None, At("8", "0")),
                           Call("1", "c", "2", At("8", "9"), None)>>
  @@ "fare_attributes" :> <<Header(<<"fare_id", "price">>), T(<<"f", "3">>)>>
  @@ "fare_rules" :> <<Header(<<"fare_id", "route_id", "destination_id", "origin_id">>),
                           <<<<"f">>, Day1, <<"2">>, <<"1">>>>>>

(* One row of one table that is refused.                                   *)
With(file, cells) == [Rail EXCEPT ![file] = Append(@, cells)]

Refused ==
  {With("stops", T(<<"">> \o <<"A">>)),
   With("routes", T(<<"3", "70000">>)),
   With("trips", T(<<"3", "1">>)),
   With("stop_times", Call("1", "a", "2", At("8", "60"), None)),
   With("stop_times", Call("3", "a", "2", None, None)),
   With("stop_times", Call("1", "a", "-1", At("8", "1"), None)),
   With("calendar", T(<<"3", "2", "1", "1", "1", "1", "1", "1", "0", "9">>)),
   With("calendar_dates", T(<<"3", "9", "0">>)),
   With("frequencies", <<<<"1">>, At("8", "0"), None, <<"9">>>>),
   With("fare_attributes", T(<<"g", "x">>)),
   With("fare_attributes", T(<<"g", "1", "300">>)),
   With("fare_rules", T(<<"", "1">>))}

Plainly == [quoted |-> FALSE, bom |-> FALSE, ended |-> TRUE, end |-> <<"lf">>]

Disk(rail, bus) ==
  [dirs |-> <<"r">> :> rail @@ <<"b">> :> bus, osm |-> {<<"map">>}]

-----------------------------------------------------------------------------
Gtfs(list) == <<<<"--gtfs">>, list>>
Osm  == <<<<"--osm">>, <<"map">>>>
Bus  == <<<<"--bus">>>>
Port(n) == <<<<"--port">>, <<n>>>>

Two  == <<"r", "comma", "b">>                             (* 1 and 2 *)
Swap == <<"comma", "6", "=", "b", "comma", "r">>           (* 6 and 2 *)
Same == <<"2", "=", "r", "comma", "b">>                    (* 2 and 2 *)
Path == <<"x", ":", "y", "=", "r", "comma", "x", "=", "b">>

CommandLines ==
  {Gtfs(list) \o Osm : list \in {Two, Swap, Same, Path, <<"r">>, <<"gone">>, None}}
    \cup {Gtfs(Two) \o Bus \o Osm, Gtfs(<<"b">>) \o Osm \o Gtfs(<<"r">>) \o Port("8081"),
          Osm \o Gtfs(<<"r">>) \o Port("70000"), Osm \o Gtfs(<<"r">>) \o <<<<"--port">>>>,
          Osm, Gtfs(<<"r">>), Gtfs(<<"r">>) \o <<<<"--osm">>, <<"sea">>>>, Osm \o <<<<"r">>>>,
          Gtfs(<<"r">>) \o <<<<"-V">>>>}

Sound == Disk(Stored(Rail, Plainly), Stored(BusFeed, Plainly))

(* Quotes double the length of a table: half of it then.                  *)
Half == [Rail EXCEPT !["stop_times"] = SubSeq(@, 1, 4)]

Styled == {Disk(Stored(Half, s), Stored(BusFeed, s)) : s \in Styles}

Back == Disk(Stored([Rail EXCEPT !["stop_times"] = BackCalls], Plainly), Stored(BusFeed, Plainly))

Unsound ==
  {Disk(Stored(rail, Plainly), Stored(BusFeed, Plainly)) : rail \in Refused}
    \cup {[Sound EXCEPT !.dirs[<<"r">>].locked = {"trips"}]}

MCStarts ==
  (CommandLines \X {Sound}) \cup {<<Gtfs(<<"r">>) \o Osm, Back>>}
    \cup ({Gtfs(Swap) \o Osm} \X Styled)
    \cup ({Gtfs(list) \o Osm : list \in {<<"r">>, Two, <<"b">>}} \X Unsound)
=============================================================================
