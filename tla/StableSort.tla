----------------------------- MODULE StableSort -----------------------------
(***************************************************************************)
(* sort_by_key of the standard library: by the key, and what has the same   *)
(* key stays in the order it was in.                                       *)
(***************************************************************************)
EXTENDS Integers, FiniteSets

(* A stable sort of a set of indices by a number per index.                *)
UpTo(rows, key, r) ==
  {q \in rows : key[q] < key[r] \/ (key[q] = key[r] /\ q <= r)}

InOrder(rows, key) ==
  [n \in 1 .. Cardinality(rows) |->
     CHOOSE r \in rows : Cardinality(UpTo(rows, key, r)) = n]

SortBy(s, key) ==
  LET order == InOrder(DOMAIN s, key) IN [n \in DOMAIN s |-> s[order[n]]]
=============================================================================
