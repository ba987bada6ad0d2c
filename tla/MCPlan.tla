------------------------------- MODULE MCPlan -------------------------------
(***************************************************************************)
(* Requests whose searches answer with journeys of no ride up to three, by *)
(* bus or railway, for a limit of two or three itineraries.                *)
(***************************************************************************)
EXTENDS PlanProperties

MCLines == {"bus", "rail", "metro"}
MCNames == 0 .. 3

(* A journey of a walk, a ride per line, and a walk.                       *)
Made(lines, board, arrival) ==
  [arrival |-> arrival,
   legs |-> <<[kind |-> "walk", duration |-> 1]>>
      \o [i \in DOMAIN lines |->
            [kind |-> "ride", line |-> lines[i], bus |-> lines[i] = "bus",
             from |-> i - 1, to |-> i, board |-> board + 3 * (i - 1),
             alight |-> IF i = Len(lines) THEN arrival - 1
                        ELSE board + 3 * (i - 1) + 1]]
      \o <<[kind |-> "walk", duration |-> 1]>>]

Rides1 == {<<"bus">>, <<"rail">>}
Rides2 == {<<"bus", "rail">>, <<"rail", "metro">>}
Rides3 == {<<"bus", "metro", "rail">>, <<"metro", "metro", "rail">>}

(* Answers of a search with at most one journey for each number of rides.  *)
Answers(lines1, lines2, lines3, boards, ends) ==
  LET some(lines, bs, es) ==
        {<<>>} \cup {<<Made(x[1], x[2], x[3])>> : x \in lines \X bs \X es}
  IN  {a[1] \o a[2] \o a[3] :
         a \in some(lines1, {boards[1]}, ends[1])
                 \X some(lines2, {boards[2]}, ends[2])
                 \X some(lines3, {boards[3]}, ends[3])}

(* A search of railways alone does as well as any railway journey that the
   search of all modes answered with.                                      *)
Consistent(arriveBy, fast, rail) ==
  \A i \in DOMAIN fast : ~TakesBus(fast[i]) =>
    \E k \in DOMAIN rail :
      /\ Len(RidesOf(rail[k])) <= Len(RidesOf(fast[i]))
      /\ IF arriveBy THEN DepartureOf(rail[k]) >= DepartureOf(fast[i])
         ELSE rail[k].arrival <= fast[i].arrival

Request(arriveBy, time, links, fast, rail) ==
  [arriveBy |-> arriveBy, time |-> time, access |-> links,
   egress |-> <<TRUE>>, fast |-> fast, rail |-> rail]

(* Both searches of a request, from these boardings and arrivals.          *)
Asked(arriveBy, time, links, boards, ends, railEnds) ==
  {Request(arriveBy, time, links, x[1], x[2]) :
     x \in {y \in Answers(Rides1, Rides2, Rides3, boards, ends)
                    \X Answers({<<"rail">>}, {<<"rail", "metro">>, <<"metro", "metro">>},
                               {<<"metro", "metro", "rail">>}, boards, railEnds) :
             Consistent(arriveBy, y[1], y[2])}}

DepartAts == Asked(FALSE, 0, <<FALSE, TRUE>>, <<1, 1, 1>>,
                   <<{16}, {14}, {12}>>, <<{16, 20}, {14, 15}, {12}>>)

ArriveBys == Asked(TRUE, 30, <<TRUE>>, <<1, 4, 5>>,
                   <<{16}, {18, 22}, {22, 26}>>, <<{16}, {18, 30}, {22}>>)

(* Where trips overtake, a search may answer a journey that a later one, of
   no more rides, dominates.                                               *)
Dominated ==
  LET slow == Made(<<"rail", "metro">>, 1, 20)
  IN  {Request(FALSE, 0, <<TRUE>>, <<slow, Made(<<"bus", "rail">>, 1, 14)>>,
               <<slow, Made(<<"metro", "metro">>, 1, 18)>>),
       Request(TRUE, 30, <<TRUE>>, <<slow, Made(<<"bus", "rail">>, 8, 20)>>,
               <<slow, Made(<<"metro", "metro">>, 5, 20)>>)}

MCRequests ==
  DepartAts \cup ArriveBys \cup Dominated
    \cup {Request(FALSE, 0, <<FALSE>>, <<>>, <<>>), Request(FALSE, 0, <<>>, <<>>, <<>>)}
    \cup {Request(b, 30, <<TRUE>>, <<Made(<<>>, 0, 30)>>, <<Made(<<>>, 0, 30)>>) :
            b \in BOOLEAN}
=============================================================================
