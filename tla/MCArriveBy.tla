----------------------------- MODULE MCArriveBy -----------------------------
(***************************************************************************)
(* RaptorArriveBy on the small timetables of Instances, with the time of   *)
(* each query a deadline.                                                  *)
(***************************************************************************)
EXTENDS ArriveByProperties, Instances

MCNeg == -10

By(queries, deadlines) ==
  {[qu EXCEPT !.time = d] : <<qu, d>> \in queries \X deadlines}

MCDeadlines == By(RideQueries, {9}) \cup By(WalkQueries, {7, 9}) \cup By({BackToEnd}, {20})
WalkDeadlines == By(WalkQueries, {7, 9})
=============================================================================
