------------------------------- MODULE NnStep ------------------------------
(***************************************************************************)
(* modules/nn2/nn.hpp: what an evaluation does with a network of DnnFF.    *)
(* develop() resets every neuron, then each input pattern is held for      *)
(* get_depth() steps of all the neurons at once, without another reset,    *)
(* and the outputs are read (eval() of the experiments; that of            *)
(* andxorand.cpp evolves DnnFF).                                           *)
(*                                                                         *)
(* The value of a neuron is abstracted to what it was computed from: the   *)
(* patterns, and 0 for the value that init() gives to every neuron.        *)
(***************************************************************************)
EXTENDS DnnFF

CONSTANT Patterns    \* the number of patterns of an evaluation

ASSUME PatternsAssumption == Patterns \in Nat \ {0}

VARIABLES
  pattern,   \* the pattern that is presented
  steps,     \* steps done with this pattern
  current,   \* current[v]: what _current_output of neuron v was computed from
  outf       \* what the outputs were computed from, as get_outf() gives them

evalVars == <<vars, pattern, steps, current, outf>>

(* All that random() and mutate() can make (theorem LineageIsEvaluable):    *)
(* nothing enters an input or leaves an output, so a cycle could only be    *)
(* among the hidden neurons.                                                *)
Inner == (neurons \cap Hidden) \X (neurons \cap Hidden)
Border == ((neurons \ Outputs) \X (neurons \ Inputs)) \ Inner
Networks ==
  {A \cup B : A \in SUBSET Border,
             B \in {C \in SUBSET Inner : AcyclicGraph(neurons \cap Hidden, C)}}

(* After develop().  More connections between the same two neurons feed a   *)
(* neuron from the same source only.                                        *)
EvalInit ==
  /\ phase = "network" /\ todo = 0
  /\ \E H \in SUBSET Hidden : neurons = Inputs \cup Outputs \cup H
  /\ \E E \in Networks :
       /\ conns = [e \in Pairs |-> IF e \in E THEN 1 ELSE 0]
       /\ depth = DepthOf(neurons, E, InputSeq, Outputs)
  /\ pattern = 1
  /\ steps = 0
  /\ current = [v \in neurons |-> {0}]
  /\ outf = [o \in Outputs |-> {0}]

(* _set_in(), _activate() of each neuron, step() of each neuron, _set_out() *)
WithInput == [v \in neurons |-> IF v \in Inputs THEN {pattern} ELSE current[v]]
Sources(v) == {u \in neurons : conns[<<u, v>>] > 0}

(* A mutant: what was summed up before is not cleared. *)
ActivatedLeaky(v) ==
  IF v \in Inputs THEN {pattern}
  ELSE current[v] \cup UNION {WithInput[u] : u \in Sources(v)}

Activated(v) ==
  IF v \in Inputs THEN {pattern} ELSE UNION {WithInput[u] : u \in Sources(v)}

Step ==
  /\ steps < depth
  /\ current' = [v \in neurons |-> Activated(v)]
  /\ outf' = [o \in Outputs |-> current'[o]]
  /\ steps' = steps + 1
  /\ UNCHANGED <<vars, pattern>>

(* A mutant: the steps are not counted anew. *)
NextPatternUnreset ==
  /\ steps = depth /\ pattern < Patterns
  /\ pattern' = pattern + 1
  /\ UNCHANGED <<vars, steps, current, outf>>

NextPattern ==
  /\ steps = depth /\ pattern < Patterns
  /\ pattern' = pattern + 1
  /\ steps' = 0
  /\ UNCHANGED <<vars, current, outf>>

Done == steps = depth /\ pattern = Patterns /\ UNCHANGED evalVars

EvalNext == Step \/ NextPattern \/ Done

EvalSpec == EvalInit /\ [][EvalNext]_evalVars

-----------------------------------------------------------------------------
Read == steps = depth

(* An answer is not about an earlier question: when the outputs are read    *)
(* nothing of a previous pattern is left in them, although the network is   *)
(* not reset between the patterns (gen_dnn_ff.hpp:515, "useful to make the  *)
(* right number of steps").  With two inputs the depth can be too small.    *)
Forgets == Read => \A o \in Outputs : outf[o] \cap (1 .. (pattern - 1)) = {}

(* Where the depth is that of the longest path they are forgotten.          *)
ForgetsWhenDeep == DepthSuffices => Forgets

(* Where a path leads from the inputs to an output, the answer does take    *)
(* the question into account, even where the depth is too small.            *)
HearsInput ==
  Read => \A o \in Outputs :
    (\E i \in Inputs : i \in Preds(neurons, Edges, o)) => pattern \in outf[o]

(* If besides every neuron hears an input, nothing that is read still comes *)
(* from the state that init() left; a chain of neurons that hears none is   *)
(* not counted in the depth.                                                *)
AllHear ==
  \A v \in neurons \ Inputs :
    Sources(v) # {} => \E i \in Inputs : i \in Preds(neurons, Edges, v)
SettledWhenAllHear ==
  Read /\ DepthSuffices /\ AllHear => \A o \in Outputs : 0 \notin outf[o]

-----------------------------------------------------------------------------
(* The inductive invariant.  Paths are those of AtDistance, whatever they   *)
(* pass; the depth is known by its definition only.                         *)
EvalTypeOK ==
  /\ pattern \in 1 .. Patterns
  /\ steps \in 0 .. depth
  /\ current \in [neurons -> SUBSET (0 .. Patterns)]
  /\ outf \in [Outputs -> SUBSET (0 .. Patterns)]

(* What is evaluated is one network of the lineage with its own depth.      *)
Developed == phase = "network" /\ IInv

PathTo(i, v, k) == v \in AtDistance(neurons, Edges, i)[k]
Distances == 0 .. Cardinality(neurons)

OutputsAreRead == steps > 0 => \A o \in Outputs : outf[o] = current[o]

(* The pattern spreads by a connection a step: after some steps all that    *)
(* are not farther from an input have heard it.                             *)
PatternSpreads ==
  steps > 0 =>
    \A i \in Inputs, k \in Distances : k <= steps =>
      \A v \in AtDistance(neurons, Edges, i)[k] : pattern \in current[v]

(* What is left of an earlier pattern came a long way: it is only in a      *)
(* neuron with a path from an input of at least as many connections as      *)
(* there were steps.                                                        *)
OldIsFar ==
  \A v \in neurons : \A q \in current[v] :
    q # 0 => \E i \in Inputs, k \in Distances :
               (q # pattern => k >= steps) /\ PathTo(i, v, k)

(* The same of what init() left, if everybody hears an input.               *)
InitialIsFar ==
  steps > 0 =>
    \A v \in neurons : 0 \in current[v] /\ AllHear =>
      \E i \in Inputs, k \in Distances : k >= steps /\ PathTo(i, v, k)

EvalInv ==
  /\ EvalTypeOK /\ Developed /\ OutputsAreRead
  /\ PatternSpreads /\ OldIsFar /\ InitialIsFar
=============================================================================
