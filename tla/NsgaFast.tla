------------------------------ MODULE NsgaFast ------------------------------
(***************************************************************************)
(* sferes/ea/dom_sort.hpp, sort_2objs(): the sort that NSGA-II uses for    *)
(* two objectives when SFERES_FAST_DOMSORT is defined.                     *)
(***************************************************************************)
EXTENDS Nsga, SequencesExt

Lex(x, y) ==
  \/ Obj[x][1] > Obj[y][1]
  \/ Obj[x][1] = Obj[y][1] /\ Obj[x][2] > Obj[y][2]

(* A front that the last one allows takes the first place that the binary  *)
(* search finds: where the last member is not above, equal values included. *)
Insert(f, x) ==
  IF f # <<>> /\ Obj[x][2] > Obj[Last(Last(f))][2]
  THEN LET b == CHOOSE k \in DOMAIN f :
                  /\ Obj[x][2] >= Obj[Last(f[k])][2]
                  /\ \A j \in 1 .. (k - 1) : Obj[x][2] < Obj[Last(f[j])][2]
       IN  [f EXCEPT ![b] = Append(@, x)]
  ELSE Append(f, <<x>>)

(* The whole sort in one step; equal vectors come in any order. *)
FastSort ==
  /\ algo = "nsga2" /\ Ranking
  /\ LET f == FoldLeft(Insert, <<>>, SetToSortSeq(rest, Lex))
     IN  fronts' = [i \in DOMAIN f |-> ToSet(f[i])]
  /\ rest' = {}
  /\ UNCHANGED <<algo, pc, parents, mixed, n, front>>

FastNext == RandomPop \/ Breed \/ FastSort \/ Rerank \/ Fill

FastSpec == Init /\ [][FastNext]_vars
=============================================================================
