----------------------------- MODULE GtfsTables -----------------------------
(***************************************************************************)
(* The loader of crates/gtfs: the CSV tables of a directory become the rows *)
(* of a Feed, stop times that are left blank are interpolated, and every    *)
(* identifier is put into its feed's namespace.                            *)
(*                                                                         *)
(* Text is a sequence of tokens: "quote", "comma", "cr", "lf", "bom", ":"   *)
(* and "=" are the characters that some parser looks for, any other string  *)
(* is a run of characters that none does.  A cell or an identifier is such a *)
(* sequence too, and the empty one is no value, as Row::get has it.         *)
(***************************************************************************)
EXTENDS Integers, SequencesExt

CONSTANT IntOf   (* what the tokens that parse as integers stand for        *)

None == <<>>

SplitAt(text, sep) ==
  FoldLeft(LAMBDA parts, c : IF c = sep THEN Append(parts, <<>>)
                             ELSE [parts EXCEPT ![Len(parts)] = Append(@, c)], <<<<>>>>, text)

-----------------------------------------------------------------------------
(* parse_records, one character at a time; skip stands for the character that
   was peeked at and taken with the one before it.                         *)
EndField(st) == [st EXCEPT !.record = Append(@, st.field), !.field = <<>>]

EndRecord(st) ==
  [st EXCEPT !.records = Append(@, Append(st.record, st.field)), !.record = <<>>, !.field = <<>>]

CsvCharNoEscape(st, c, next) ==                            (* a mutant *)
  CASE c = "quote" -> [st EXCEPT !.quoted = ~@]
    [] c # "quote" /\ st.quoted -> [st EXCEPT !.field = Append(@, c)]
    [] c = "comma" /\ ~st.quoted -> EndField(st)
    [] c = "lf" /\ ~st.quoted -> EndRecord(st)
    [] OTHER -> IF c = "cr" THEN st ELSE [st EXCEPT !.field = Append(@, c)]

CsvChar(st, c, next) ==
  CASE st.skip -> [st EXCEPT !.skip = FALSE]
    [] ~st.skip /\ st.quoted ->
         IF c = "quote" /\ next = "quote"
         THEN [st EXCEPT !.field = Append(@, c), !.skip = TRUE]
         ELSE IF c = "quote" THEN [st EXCEPT !.quoted = FALSE]
              ELSE [st EXCEPT !.field = Append(@, c)]
    [] ~st.skip /\ ~st.quoted ->
         CASE c = "quote" -> [st EXCEPT !.quoted = TRUE]
           [] c = "comma" -> EndField(st)
           [] c = "cr"    -> [EndRecord(st) EXCEPT !.skip = (next = "lf")]
           [] c = "lf"    -> EndRecord(st)
           [] OTHER       -> [st EXCEPT !.field = Append(@, c)]

Scanned(body) ==
  LET after[k \in 0..Len(body)] ==
        IF k = 0
        THEN [records |-> <<>>, record |-> <<>>, field |-> <<>>, quoted |-> FALSE, skip |-> FALSE]
        ELSE CsvChar(after[k - 1], body[k], IF k < Len(body) THEN body[k + 1] ELSE "none")
  IN  after[Len(body)]

LastRecord(st) == IF st.field # <<>> \/ st.record # <<>> THEN EndRecord(st).records ELSE st.records

WithoutBom(text) == IF text # <<>> /\ text[1] = "bom" THEN Tail(text) ELSE text

(* Records of one empty field, the blank lines, are dropped.                *)
ParseRecords(text) ==
  SelectSeq(LastRecord(Scanned(WithoutBom(text))), LAMBDA r : r # <<None>>)

(* Table::parse and Row::get.                                              *)
EmptyTable == [header |-> <<>>, rows |-> <<>>]

TableOf(records) ==
  IF records = <<>> THEN EmptyTable ELSE [header |-> Head(records), rows |-> Tail(records)]

Get(t, k, col) ==
  LET at == SelectInSeq(t.header, LAMBDA h : h = <<col>>)
  IN  IF at \in DOMAIN t.rows[k] THEN t.rows[k][at] ELSE None

-----------------------------------------------------------------------------
IsInt(cell) == Len(cell) = 1 /\ cell[1] \in DOMAIN IntOf

Int32(cell) == IntOf[cell[1]]

Within(cell, max) == IsInt(cell) /\ Int32(cell) \in 0..max

IsCount(cell) == IsInt(cell) /\ Int32(cell) >= 0       (* a u32 *)

(* parse_gtfs_time, within MaxHours of the hours an i32 of seconds can hold. *)
MaxHours == 596522

IsTime(cell) ==
  LET parts == SplitAt(cell, ":")
  IN  /\ Len(parts) = 3
      /\ \A k \in 1..3 : IsInt(parts[k])
      /\ Int32(parts[1]) \in 0..MaxHours
      /\ Int32(parts[2]) \in 0..59 /\ Int32(parts[3]) \in 0..59

TimeOf(cell) ==
  LET parts == SplitAt(cell, ":")
  IN  Int32(parts[1]) * 3600 + Int32(parts[2]) * 60 + Int32(parts[3])

(* collect::<Result<..>>: one bad row and there is no table.                *)
Rows(t, Good(_), RowOf(_)) ==
  IF \A k \in DOMAIN t.rows : Good(k)
  THEN [ok |-> TRUE, rows |-> [k \in DOMAIN t.rows |-> RowOf(k)]]
  ELSE [ok |-> FALSE, rows |-> <<>>]

IfAny(cell, Test(_)) == cell = None \/ Test(cell)

ParseStops(t) ==
  Rows(t, LAMBDA k : /\ Get(t, k, "stop_id") # None
                     /\ IfAny(Get(t, k, "stop_lat"), IsInt) /\ IfAny(Get(t, k, "stop_lon"), IsInt),
          LAMBDA k : [id |-> Get(t, k, "stop_id"), name |-> Get(t, k, "stop_name"),
                      parent |-> Get(t, k, "parent_station"), zone |-> Get(t, k, "zone_id")])

ParseRoutes(t) ==
  Rows(t, LAMBDA k : Get(t, k, "route_id") # None /\ Within(Get(t, k, "route_type"), 65535),
          LAMBDA k : [id |-> Get(t, k, "route_id"), agency |-> Get(t, k, "agency_id"),
                      type |-> Int32(Get(t, k, "route_type"))])

ParseTrips(t) ==
  Rows(t, LAMBDA k : \A col \in {"trip_id", "route_id", "service_id"} : Get(t, k, col) # None,
          LAMBDA k : [id |-> Get(t, k, "trip_id"), route |-> Get(t, k, "route_id"),
                      service |-> Get(t, k, "service_id")])

(* A day is 1, or 0 or blank; calendars with anything else are refused.     *)
Days == <<"monday", "tuesday", "wednesday", "thursday", "friday", "saturday", "sunday">>

ParseCalendars(t) ==
  Rows(t, LAMBDA k : /\ Get(t, k, "service_id") # None
                     /\ \A d \in DOMAIN Days : Get(t, k, Days[d]) \in {None, <<"0">>, <<"1">>}
                     /\ IsCount(Get(t, k, "start_date")) /\ IsCount(Get(t, k, "end_date")),
          LAMBDA k : [service |-> Get(t, k, "service_id"),
                      weekdays |-> [d \in DOMAIN Days |-> Get(t, k, Days[d]) = <<"1">>],
                      from |-> Int32(Get(t, k, "start_date")), to |-> Int32(Get(t, k, "end_date"))])

ParseCalendarDates(t) ==
  Rows(t, LAMBDA k : /\ Get(t, k, "service_id") # None /\ IsCount(Get(t, k, "date"))
                     /\ Get(t, k, "exception_type") \in {<<"1">>, <<"2">>},
          LAMBDA k : [service |-> Get(t, k, "service_id"), date |-> Int32(Get(t, k, "date")),
                      added |-> Get(t, k, "exception_type") = <<"1">>])

ParseFrequencies(t) ==
  Rows(t, LAMBDA k : /\ Get(t, k, "trip_id") # None /\ IsCount(Get(t, k, "headway_secs"))
                     /\ IsTime(Get(t, k, "start_time")) /\ IsTime(Get(t, k, "end_time")),
          LAMBDA k : [trip |-> Get(t, k, "trip_id"), start |-> TimeOf(Get(t, k, "start_time")),
                      end |-> TimeOf(Get(t, k, "end_time")),
                      headway |-> Int32(Get(t, k, "headway_secs"))])

ParseFareAttributes(t) ==
  Rows(t, LAMBDA k : /\ Get(t, k, "fare_id") # None /\ IsInt(Get(t, k, "price"))
                     /\ IfAny(Get(t, k, "transfers"), LAMBDA c : Within(c, 255))
                     /\ IfAny(Get(t, k, "transfer_duration"), IsCount),
          LAMBDA k : [fare |-> Get(t, k, "fare_id"), price |-> Int32(Get(t, k, "price"))])

ParseFareRules(t) ==
  Rows(t, LAMBDA k : Get(t, k, "fare_id") # None,
          LAMBDA k : [fare |-> Get(t, k, "fare_id"), route |-> Get(t, k, "route_id"),
                      origin |-> Get(t, k, "origin_id"),
                      destination |-> Get(t, k, "destination_id"),
                      contains |-> Get(t, k, "contains_id")])

-----------------------------------------------------------------------------
NoTime == -1

TimeIfAny(cell) == IF cell = None THEN NoTime ELSE TimeOf(cell)

(* parse_stop_times: where one of the two times is given it stands for both. *)
RawStopTimes(t) ==
  Rows(t, LAMBDA k : /\ Get(t, k, "trip_id") # None /\ Get(t, k, "stop_id") # None
                     /\ IsCount(Get(t, k, "stop_sequence"))
                     /\ \A col \in {"arrival_time", "departure_time"} :
                          IfAny(Get(t, k, col), IsTime),
          LAMBDA k : LET arr == TimeIfAny(Get(t, k, "arrival_time"))
                         dep == TimeIfAny(Get(t, k, "departure_time"))
                     IN  [trip |-> Get(t, k, "trip_id"), stop |-> Get(t, k, "stop_id"),
                          seq |-> Int32(Get(t, k, "stop_sequence")),
                          arrival   |-> IF arr = NoTime THEN dep ELSE arr,
                          departure |-> IF dep = NoTime THEN arr ELSE dep])

(* The rows of a trip, by stop_sequence, then as they are in the file.      *)
TripRows(rows, trip) ==
  SetToSortSeq({k \in DOMAIN rows : rows[k].trip = trip},
               LAMBDA a, b : \/ rows[a].seq < rows[b].seq
                             \/ (rows[a].seq = rows[b].seq /\ a < b))

Timed(rows, idxs, p) == rows[idxs[p]].arrival # NoTime

(* Integer division in Rust drops the fraction, towards 0.                  *)
Quotient(a, b) == IF a < 0 THEN -((-a) \div b) ELSE a \div b

EvenTimeOff(t0, t1, step, gap) == t0 + Quotient(step * (t1 - t0), gap - 1)   (* a mutant *)

EvenTime(t0, t1, step, gap) == t0 + Quotient(step * (t1 - t0), gap)

(* interpolate_missing_times: idxs are a trip's rows and the one at p has no
   time: it gets its even share of those around it.                         *)
Between(rows, idxs, p, before, after) ==
  EvenTime(rows[idxs[before]].departure, rows[idxs[after]].arrival, p - before, after - before)

Interpolated(rows, idxs, p) ==
  Between(rows, idxs, p, Max({q \in 1..p : Timed(rows, idxs, q)}),
          Min({q \in p..Len(idxs) : Timed(rows, idxs, q)}))

WithTime(row, at) == [row EXCEPT !.arrival = at, !.departure = at]

Filled(rows, k, idxs) ==
  IF rows[k].arrival # NoTime THEN rows[k]
  ELSE WithTime(rows[k], Interpolated(rows, idxs, SelectInSeq(idxs, LAMBDA i : i = k)))

(* A trip that begins or ends without a time cannot be filled.              *)
Anchored(rows, idxs) == Timed(rows, idxs, 1) /\ Timed(rows, idxs, Len(idxs))

FilledRows(raw) ==
  IF raw.ok /\ \A k \in DOMAIN raw.rows : Anchored(raw.rows, TripRows(raw.rows, raw.rows[k].trip))
  THEN [ok |-> TRUE, rows |-> [k \in DOMAIN raw.rows |->
                                Filled(raw.rows, k, TripRows(raw.rows, raw.rows[k].trip))]]
  ELSE [ok |-> FALSE, rows |-> <<>>]

ParseStopTimes(t) == FilledRows(RawStopTimes(t))

-----------------------------------------------------------------------------
(* Feed::load_from_dir, in its two halves: every table is read before any is
   parsed.  A directory is its files' texts and the files that cannot be
   read; a file that is not there is an empty table.                         *)
Files == {"stops", "routes", "trips", "stop_times", "calendar", "calendar_dates",
          "fare_attributes", "fare_rules", "frequencies"}

LoadTable(dir, file) ==
  IF file \in DOMAIN dir.text THEN TableOf(ParseRecords(dir.text[file])) ELSE EmptyTable

LoadTables(dir) == [file \in Files |-> LoadTable(dir, file)]

Parsed(t) ==
  [stops |-> ParseStops(t["stops"]), routes |-> ParseRoutes(t["routes"]),
   trips |-> ParseTrips(t["trips"]), stopTimes |-> ParseStopTimes(t["stop_times"]),
   calendars |-> ParseCalendars(t["calendar"]),
   calendarDates |-> ParseCalendarDates(t["calendar_dates"]),
   fareAttributes |-> ParseFareAttributes(t["fare_attributes"]),
   fareRules |-> ParseFareRules(t["fare_rules"]),
   frequencies |-> ParseFrequencies(t["frequencies"])]

AllGood(parsed) == \A x \in DOMAIN parsed : parsed[x].ok

FeedOf(parsed) == [x \in DOMAIN parsed |-> parsed[x].rows]

(* Feed::namespace.  fare_id and agency_id stay as they are.                *)
Ns(prefix, id) == prefix \o <<":">> \o id

NsIfAny(prefix, id) == IF id = None THEN None ELSE Ns(prefix, id)

NsStopButZone(prefix, s) ==                                (* a mutant *)
  [s EXCEPT !.id = Ns(prefix, @), !.parent = NsIfAny(prefix, @)]

NsStop(prefix, s) ==
  [s EXCEPT !.id = Ns(prefix, @), !.parent = NsIfAny(prefix, @), !.zone = NsIfAny(prefix, @)]

NsFareRuleByRoute(prefix, f) == [f EXCEPT !.route = NsIfAny(prefix, @)]    (* a mutant *)

NsFareRule(prefix, f) ==
  [f EXCEPT !.route = NsIfAny(prefix, @), !.origin = NsIfAny(prefix, @),
            !.destination = NsIfAny(prefix, @), !.contains = NsIfAny(prefix, @)]

Each(rows, Op(_)) == [k \in DOMAIN rows |-> Op(rows[k])]

Namespace(feed, prefix) ==
  LET ns(id) == Ns(prefix, id)
  IN  [feed EXCEPT
        !.stops = Each(@, LAMBDA s : NsStop(prefix, s)),
        !.routes = Each(@, LAMBDA r : [r EXCEPT !.id = ns(@)]),
        !.trips = Each(@, LAMBDA t : [t EXCEPT !.id = ns(@), !.route = ns(@), !.service = ns(@)]),
        !.stopTimes = Each(@, LAMBDA s : [s EXCEPT !.trip = ns(@), !.stop = ns(@)]),
        !.calendars = Each(@, LAMBDA c : [c EXCEPT !.service = ns(@)]),
        !.calendarDates = Each(@, LAMBDA c : [c EXCEPT !.service = ns(@)]),
        !.fareRules = Each(@, LAMBDA f : NsFareRule(prefix, f)),
        !.frequencies = Each(@, LAMBDA f : [f EXCEPT !.trip = ns(@)])]
=============================================================================
