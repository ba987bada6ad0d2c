--------------------------- MODULE KnownArrivals ---------------------------
(***************************************************************************)
(* What a search may claim to know, whatever its rounds, marks and pruning: *)
(* it starts from the access walks, and from then on learns an arrival     *)
(* only by taking one trip, or one walk after a ride or a walk, from an    *)
(* arrival it knows at that moment.  It may forget.  RaptorSearch          *)
(* implements this with its labels for the arrivals.                       *)
(***************************************************************************)
EXTENDS Travel

VARIABLES tt, query, known

Taken(a) ==
  RidesFrom(tt, query, a)
    \cup (IF a.kind = "access" THEN {} ELSE WalksFrom(tt, a))
    \cup {[a EXCEPT !.rides = @ + 1]}    (* at most n rides, so at most n + 1 *)

KnownInit ==
  /\ tt \in Timetables
  /\ query \in Queries
  /\ known \subseteq AccessArrivals(query)

Learn ==
  /\ \A a \in known' : a \in known \/ \E b \in known : a \in Taken(b)
  /\ UNCHANGED <<tt, query>>

KnownSpec == KnownInit /\ [][Learn]_<<tt, query, known>>
=============================================================================
