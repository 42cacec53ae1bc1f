---------------------------- MODULE MCMapElite -----------------------------
(* Model checking of MapElite on a grid of two by two cells.                *)
EXTENDS MapElite

(* As in the experiments the first descriptor is the modularity itself:     *)
(* two networks of column 0, one of them of negative modularity, and two of *)
(* column 1, one of them at 1.0, with two values of fitness.  One network   *)
(* is in the second row.                                                    *)
Networks ==
  {[value |-> v, mod |-> m, desc |-> <<m, 0>>] : v \in 0 .. 1, m \in {-1, 0, 2, 4}}
  \cup {[value |-> 1, mod |-> 0, desc |-> <<0, 2>>]}
=============================================================================
