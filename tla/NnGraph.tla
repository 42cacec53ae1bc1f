------------------------------ MODULE NnGraph ------------------------------
(***************************************************************************)
(* The graph algorithms that modules/nn2 runs on a network.  A graph is    *)
(* the set of its neurons and the set of the pairs that at least one       *)
(* connection links.                                                       *)
(***************************************************************************)
EXTENDS Integers, FiniteSets

(* What breadth_first_search() discovers from v on the reversed graph: the  *)
(* smallest set that holds v and the source of all that leads into it.      *)
PredClosed(edges, S) == \A e \in edges : e[2] \in S => e[1] \in S
Preds(neurons, edges, v) ==
  {u \in neurons : \A S \in SUBSET neurons : v \in S /\ PredClosed(edges, S) => u \in S}

(* Every set of neurons has one that none of the set leads into: no cycle.  *)
AcyclicGraph(neurons, edges) ==
  \A S \in SUBSET neurons :
    S # {} => \E v \in S : \A u \in S : <<u, v>> \notin edges

(* The neurons at the end of a path of exactly k connections from source.   *)
AtDistance(neurons, edges, source) ==
  LET at[k \in 0 .. Cardinality(neurons)] ==
        IF k = 0 THEN {source}
        ELSE LET last == at[k - 1]
             IN {v \in neurons : \E u \in last : <<u, v>> \in edges}
  IN at

Found(neurons, edges, source) ==
  UNION {AtDistance(neurons, edges, source)[k] : k \in 0 .. Cardinality(neurons)}

(* The neurons that dag_shortest_paths() has coloured black before the call *)
(* for inputs[j].  The colour map is made once, outside the loop on the     *)
(* inputs, and a search only goes on from what it finds white.              *)
Black(neurons, edges, inputs, j) ==
  UNION {Found(neurons, edges, inputs[m]) : m \in 1 .. (j - 1)}

(* The lengths of the paths to an output that the search from inputs[j]     *)
(* relaxes: only their last neuron may be black.                            *)
Lengths(neurons, edges, inputs, outputs, j) ==
  LET white == {e \in edges : e[1] \notin Black(neurons, edges, inputs, j)}
      at == AtDistance(neurons, white, inputs[j])
  IN {k \in DOMAIN at : at[k] \cap outputs # {}}

(* A mutant: the shortest path. *)
ShortestOf(neurons, edges, inputs, outputs) ==
  LET found == UNION {Lengths(neurons, edges, inputs, outputs, j) : j \in DOMAIN inputs}
  IN 1 + (CHOOSE d \in found \cup {0} : \A k \in found : d <= k)

(* _compute_depth(): the longest path that a search relaxes, plus one *)
DepthOf(neurons, edges, inputs, outputs) ==
  LET found == UNION {Lengths(neurons, edges, inputs, outputs, j) : j \in DOMAIN inputs}
  IN 1 + (CHOOSE d \in found \cup {0} : \A k \in found : k <= d)
=============================================================================
