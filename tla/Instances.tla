----------------------------- MODULE Instances -----------------------------
(***************************************************************************)
(* Small timetables and queries for both directions of the search.  A line *)
(* runs through its stops at a constant pace, its trips leave at the given *)
(* times; four stops and three lines are enough for two changes, a change  *)
(* to a faster trip of the same pattern, a loop that serves a stop twice,  *)
(* and a detour that is faster with more rides; a fifth stop is where a    *)
(* line starts that meets another one, with an overtaking trip, twice.     *)
(***************************************************************************)
EXTENDS Integers, Sequences

Trip(start, hop, days, n) ==
  [arrivals   |-> [i \in 1 .. n |-> start + hop * (i - 1)],
   departures |-> [i \in 1 .. n |-> start + hop * (i - 1)],
   days |-> days, accessible |-> TRUE]

Line(stops, hop, starts, rail) ==
  [stops |-> stops, rail |-> rail,
   trips |-> [i \in DOMAIN starts |-> Trip(starts[i], hop, {1}, Len(stops))]]

BothWays(edges) ==
  [e \in UNION {{x[1], <<x[1][2], x[1][1]>>} : x \in edges} |->
    LET x == CHOOSE y \in edges : y[1] = e \/ y[1] = <<e[2], e[1]>> IN x[2]]

Link(s, d) == [stop |-> s, duration |-> d]

Ask(access, egress, max, rail, wheelchair) ==
  [access |-> access, egress |-> egress, time |-> 0, date |-> 1,
   maxRounds |-> max, railOnly |-> rail, wheelchair |-> wheelchair]

MCStops == 0 .. 4
MCBuffer == 2

-----------------------------------------------------------------------------
(* Without walks: a local line 0-1-2, a line 1-2-3 that it meets twice, and
   an express or a loop.                                                   *)
Locals    == {Line(<<0, 1, 2>>, 1, <<a, b>>, TRUE) :
                <<a, b>> \in {x \in {0, 1} \X (1 .. 3) : x[1] < x[2]}}
Onwards   == {Line(<<1, 2, 3>>, h, <<a, b>>, TRUE) :
                <<h, a, b>> \in {x \in (1 .. 2) \X {2, 3, 5} \X {4, 7} : x[2] < x[3]}}
Expresses == {Line(<<0, 3>>, 4, <<a>>, FALSE) : a \in {1, 4}}
               \cup {Line(<<2, 3, 2, 1>>, 1, <<a>>, FALSE) : a \in {2, 5}}

RidesOnly ==
  {[patterns |-> <<l, o, x>>, walks |-> <<>>] :
     <<l, o, x>> \in Locals \X Onwards \X Expresses}

RideQueries ==
  {Ask(<<Link(0, 0)>>, <<Link(3, 0)>>, 3, FALSE, FALSE),
   Ask(<<Link(1, 3), Link(0, 1)>>, <<Link(3, 1), Link(2, 3)>>, 3, FALSE, FALSE),
   Ask(<<Link(0, 1), Link(2, 4)>>, <<Link(3, 0), Link(2, 4)>>, 2, TRUE, FALSE),
   Ask(<<Link(0, 1)>>, <<Link(0, 4), Link(1, 1)>>, 1, FALSE, FALSE)}

-----------------------------------------------------------------------------
(* With walks: stops 1, 2 and 3 are within a walk of each other, in several
   lengths; a bus and a train reach two of them, and a line that not every
   traveller may board on every date leaves from there.                    *)
WalkNets == {BothWays(w) : w \in
  {{<<<<1, 2>>, a>>, <<<<2, 3>>, b>>} : <<a, b>> \in (2 .. 3) \X {2}}
    \cup {{<<<<1, 2>>, 2>>}, {<<<<1, 2>>, 2>>, <<<<1, 3>>, 2>>},
            {<<<<1, 2>>, 2>>, <<<<2, 3>>, 2>>, <<<<1, 3>>, 3>>}}}

Arrivers == {<<Line(<<0, x>>, 1, <<a, a + 3>>, TRUE), Line(y, h, <<b>>, FALSE)>> :
               <<x, y, a, h, b>> \in {1} \X {<<0, 2, 3>>, <<0, 2>>} \X {0, 1, 4} \X (1 .. 3) \X (0 .. 1)}

Choosy(starts) ==
  [stops |-> <<2, 1, 3>>, rail |-> TRUE,
   trips |-> [i \in DOMAIN starts |->
                [Trip(starts[i], 1, IF i = 2 THEN {2} ELSE {1}, 3)
                   EXCEPT !.accessible = (i # 1)]]]

Leavers == {Choosy(<<c, c + 1, c + 2>>) : c \in {3, 5}}
             \cup {Line(<<2, 3>>, 1, <<c>>, TRUE) : c \in {5, 6}}

WithWalks ==
  {[patterns |-> <<a[1], a[2], l>>, walks |-> w] :
     <<a, l, w>> \in Arrivers \X Leavers \X WalkNets}

WalkQueries ==
  {Ask(<<Link(0, 0)>>, <<Link(3, 0)>>, 3, FALSE, FALSE),
   Ask(<<Link(0, 0), Link(2, 4)>>, <<Link(1, 1), Link(3, 3)>>, 2, FALSE, TRUE),
   Ask(<<Link(0, 0), Link(2, 9)>>, <<Link(2, 1), Link(1, 1)>>, 2, TRUE,
       FALSE)}

-----------------------------------------------------------------------------
(* Irregular trips: the first of a line waits at stop 1.  The other passes it
   there; or leaves stop 1 with it, to arrive later or together; or comes
   there with it and leaves later; or follows it all the way.                *)
Timed(arrivals, departures) ==
  [arrivals |-> arrivals, departures |-> departures, days |-> {1},
   accessible |-> TRUE]

Waits == Timed(<<0, 3, 6>>, <<0, 5, 6>>)
Others == {Timed(x, x) : x \in {<<1, 2, 4>>, <<1, 5, 7>>, <<2, 5, 6>>, <<3, 6, 9>>}}
            \cup {Timed(<<1, 3, 8>>, <<1, 6, 8>>)}

Irregular ==
  {[patterns |-> <<[stops |-> <<0, 1, 2>>, rail |-> TRUE, trips |-> <<Waits, other>>],
                   Line(<<2, 3>>, 1, <<c, 11>>, TRUE)>>,
    walks |-> w] :
     <<other, c, w>> \in
       Others \X {6, 9} \X {<<>>, BothWays({<<<<1, 3>>, 4>>})}}

-----------------------------------------------------------------------------
(* A feeder meets a line at its start and, later, at its third stop; the
   second trip of the line passes the first one, by much or not at all, at
   its end.  And such a line, feeder and query going back in time, where the
   second trip is ahead of the first at the two stops in between only.      *)
LastTrips(x) == <<Timed(<<4, 5, 5, 15>>, <<4, 5, 5, 15>>),
                  Timed(<<5, 6, 7, x>>, <<5, 6, 7, x>>)>>

FirstTrips(x) == <<Timed(<<5, 15, 15, 16>>, <<5, 15, 15, 16>>),
                   Timed(<<x, 13, 14, 17>>, <<x, 13, 14, 17>>)>>

Overtaken ==
  UNION {{[patterns |-> <<[stops |-> <<0, 1, 2, 3>>, rail |-> TRUE, trips |-> LastTrips(x)],
                          Line(<<4, 0, 2>>, 2, <<0>>, TRUE)>>, walks |-> <<>>],
          [patterns |-> <<[stops |-> <<3, 2, 1, 0>>, rail |-> TRUE, trips |-> FirstTrips(20 - x)],
                          Line(<<2, 0, 4>>, 2, <<16>>, TRUE)>>, walks |-> <<>>]} :
         x \in {9, 15}}

EndToEnd  == Ask(<<Link(4, 0)>>, <<Link(3, 0)>>, 3, FALSE, FALSE)
BackToEnd == Ask(<<Link(3, 0)>>, <<Link(4, 0)>>, 3, FALSE, FALSE)

-----------------------------------------------------------------------------
MCTimetables == RidesOnly \cup WithWalks \cup Irregular \cup Overtaken
MCQueries == RideQueries \cup WalkQueries \cup {EndToEnd}
=============================================================================
