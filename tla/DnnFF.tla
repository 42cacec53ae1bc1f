------------------------------- MODULE DnnFF -------------------------------
(***************************************************************************)
(* modules/nn2/gen_dnn_ff.hpp: the genome of the evolved feed-forward      *)
(* networks.  One lineage is followed: a random genome, then for ever a    *)
(* copy by cross(), the structural part of mutate() and develop(), which   *)
(* makes a network that can be evaluated.  Weights are not modelled.       *)
(***************************************************************************)
EXTENDS NnGraph, Sequences

CONSTANTS
  InputSeq,                  \* _inputs, in the order of the vector
  Outputs, Hidden,           \* the other neurons a network may have
  MinNeurons, MaxNeurons,    \* Params::dnn::min_nb_neurons, max_nb_neurons
  MinConns, MaxConns,        \* Params::dnn::min_nb_conns, max_nb_conns
  MaxParallel                \* bound: connections between the same two neurons

Inputs == {InputSeq[k] : k \in DOMAIN InputSeq}
Vertices == Inputs \cup Outputs \cup Hidden

ASSUME VerticesAssumption ==
  /\ InputSeq \in Seq(Inputs) /\ IsFiniteSet(Vertices)
  /\ Inputs \cap Outputs = {} /\ Inputs \cap Hidden = {} /\ Outputs \cap Hidden = {}
ASSUME NumbersAssumption ==
  /\ MinNeurons \in Nat /\ MaxNeurons \in Nat /\ MinNeurons < MaxNeurons
  /\ MinConns \in Nat /\ MaxConns \in Nat /\ MinConns < MaxConns
  /\ MaxParallel \in Nat

VARIABLES
  phase,     \* "start", "random", "new", "copied", "added", "genome", "network"
  neurons,   \* the vertices of _g
  conns,     \* the number of connections between two neurons in _g
  todo,      \* connections that _random() still tries to add
  depth      \* _depth; 0 when it has no value or that of another network

vars == <<phase, neurons, conns, todo, depth>>

Pairs == Vertices \X Vertices
Edges == {e \in Pairs : conns[e] > 0}

Init ==
  /\ phase = "start"
  /\ neurons = {}
  /\ conns = [e \in Pairs |-> 0]
  /\ todo = 0
  /\ depth = 0

(* Dnn::_random() up to the loop on the connections *)
Random ==
  /\ phase = "start"
  /\ \E H \in SUBSET Hidden :
       /\ Cardinality(H) \in MinNeurons .. (MaxNeurons - 1)
       /\ neurons' = Inputs \cup Outputs \cup H
  /\ todo' \in MinConns .. (MaxConns - 1)
  /\ phase' = "random"
  /\ UNCHANGED <<conns, depth>>

(* Mutants: the predecessors stay available, or an output is a source. *)
AddConnWith(sources, Excluded(_)) ==
  \E v \in sources :
    LET avail == (neurons \ Excluded(v)) \ Inputs IN
      IF avail = {}
      THEN UNCHANGED conns
      ELSE \E tgt \in avail :
             /\ conns[<<v, tgt>>] < MaxParallel
             /\ conns' = [conns EXCEPT ![<<v, tgt>>] = @ + 1]
Itself(v) == {v}
Before(v) == Preds(neurons, Edges, v)
AddConnAnywhere == AddConnWith(neurons \ Outputs, Itself)
AddConnFromAny == AddConnWith(neurons, Before)

(* _add_conn() and _add_conn_ff(): from _random_src() to a neuron that is   *)
(* neither an input nor a predecessor of the source, if there is one        *)
AddConn ==
  \E v \in neurons \ Outputs :
    LET avail == (neurons \ Preds(neurons, Edges, v)) \ Inputs IN
      IF avail = {}
      THEN UNCHANGED conns
      ELSE \E tgt \in avail :
             /\ conns[<<v, tgt>>] < MaxParallel
             /\ conns' = [conns EXCEPT ![<<v, tgt>>] = @ + 1]

RandomConn ==
  /\ phase = "random" /\ todo > 0
  /\ AddConn
  /\ todo' = todo - 1
  /\ UNCHANGED <<phase, neurons, depth>>

(* simplify(): the neurons that lead to no output go, with clear_vertex()   *)
Useful == Inputs \cup Outputs \cup UNION {Preds(neurons, Edges, o) : o \in Outputs}

Simplify ==
  /\ phase = "random" /\ todo = 0
  /\ neurons' = Useful
  /\ conns' = [e \in Pairs |-> IF e \in Useful \X Useful THEN conns[e] ELSE 0]
  /\ phase' = "new"
  /\ UNCHANGED <<todo, depth>>

(* cross(): operator= copies the graph, neither _depth nor _init_done *)
Cross ==
  /\ phase = "network"
  /\ phase' = "copied"
  /\ depth' = 0
  /\ UNCHANGED <<neurons, conns, todo>>

(* mutate(), with m_rate_add_conn or not ... *)
MutateAdd ==
  /\ phase = "copied"
  /\ AddConn \/ UNCHANGED conns
  /\ phase' = "added"
  /\ UNCHANGED <<neurons, todo, depth>>

(* A mutant: no develop() afterwards. *)
MutateDelReady ==
  /\ phase = "added"
  /\ \/ \E e \in Edges : conns' = [conns EXCEPT ![e] = @ - 1]
     \/ UNCHANGED conns
  /\ phase' = "network"
  /\ UNCHANGED <<neurons, todo, depth>>

(* ... then _del_conn(), with m_rate_del_conn or not *)
MutateDel ==
  /\ phase = "added"
  /\ \/ \E e \in Edges : conns' = [conns EXCEPT ![e] = @ - 1]
     \/ UNCHANGED conns
  /\ phase' = "genome"
  /\ UNCHANGED <<neurons, todo, depth>>

(* develop() calls init(), which computes the depth *)
Develop ==
  /\ phase \in {"new", "genome"}
  /\ depth' = DepthOf(neurons, Edges, InputSeq, Outputs)
  /\ phase' = "network"
  /\ UNCHANGED <<neurons, conns, todo>>

Next ==
  \/ Random \/ RandomConn \/ Simplify
  \/ Cross \/ MutateAdd \/ MutateDel
  \/ Develop

Spec == Init /\ [][Next]_vars

-----------------------------------------------------------------------------
TypeOK ==
  /\ phase \in {"start", "random", "new", "copied", "added", "genome", "network"}
  /\ neurons \subseteq Vertices
  /\ conns \in [Pairs -> Nat]
  /\ todo \in Nat
  /\ depth \in Nat

(* No history of random(), cross() and mutate() makes a cycle: the search   *)
(* for the depth needs a dag, and so does "feed-forward".                   *)
FeedForward == AcyclicGraph(neurons, Edges)

(* Connections only link neurons that are there, none enters an input and   *)
(* none leaves an output; inputs and outputs survive simplify().            *)
WellFormed ==
  /\ IF phase = "start" THEN neurons = {} ELSE Inputs \cup Outputs \subseteq neurons
  /\ \A e \in Edges : /\ e[1] \in neurons \ Outputs
                      /\ e[2] \in neurons \ Inputs

(* The number of steps of an evaluation is that of the network it is made   *)
(* on: every path from an input to an output is shorter than get_depth().   *)
(* True of one input; with two that share neurons it is not, although       *)
(* gen_dnn_ff.hpp:536 says "we compute the longest path".                   *)
DepthSuffices ==
  \A i \in Inputs : \A k \in 0 .. Cardinality(neurons) :
    AtDistance(neurons, Edges, i)[k] \cap Outputs # {} => k < depth
DepthIsCurrent == phase = "network" => DepthSuffices

(* What is evaluated has the depth that was computed from this very graph.  *)
OwnDepth ==
  /\ phase = "network" => depth = DepthOf(neurons, Edges, InputSeq, Outputs)
  /\ phase # "random" => todo = 0

(* The inductive invariant: a cycle can only be kept out because nothing    *)
(* leads into an input and every connection has its ends in the network.    *)
IInv == TypeOK /\ FeedForward /\ WellFormed /\ OwnDepth
=============================================================================
