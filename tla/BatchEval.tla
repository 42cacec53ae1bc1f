----------------------------- MODULE BatchEval -----------------------------
(***************************************************************************)
(* What every evaluator of sferes promises to the evolutionary algorithm:  *)
(* a call eval(pop, begin, end) returns once the fitness of each           *)
(* individual of [begin, end) has been computed from the genome that       *)
(* individual has in this call, exactly once, and leaves the others alone. *)
(* Eval (a loop), Parallel and ParallelEval (TBB tasks) and Mpi (a master  *)
(* and its slaves) are shown to implement this module.                     *)
(*                                                                         *)
(* A genome is abstracted to the pair of the individual's index and of the *)
(* call that produced it; a fitness is the genome it was computed from.    *)
(***************************************************************************)
EXTENDS Naturals

CONSTANTS
  PopSize,    \* pop.size()
  MaxCalls    \* bound: the number of calls of eval() that are explored

(* What the constants are; the modules that implement this one assume it of  *)
(* theirs.                                                                  *)
Sizes == PopSize \in Nat \ {0} /\ MaxCalls \in Nat \ {0}

Index == 0 .. (PopSize - 1)

VARIABLES
  phase,   \* "idle" between two calls, "busy" in a call, "closed" after ~Eval
  calls,   \* number of calls started
  todo,    \* individuals of the running call without a result yet
  gen,     \* gen[i]: the call that individual i's genome was made for
  fit      \* fit[i]: the genome that pop[i]->fit() was computed from

vars == <<phase, calls, todo, gen, fit>>

Genome(i) == <<i, gen[i]>>

(* The ranges the algorithms pass: all of them satisfy begin <= end <= size. *)
Ranges == {r \in (0 .. PopSize) \X (0 .. PopSize) : r[1] <= r[2]}

(* The individuals of a range receive new genomes before the call. *)
Renewed(r, call) ==
  [i \in Index |-> IF r[1] <= i /\ i < r[2] THEN call ELSE gen[i]]

Init ==
  /\ phase = "idle"
  /\ calls = 0
  /\ todo = {}
  /\ gen = [i \in Index |-> 0]
  /\ fit = [i \in Index |-> <<i, 0>>]

Begin(r) ==
  /\ phase = "idle"
  /\ calls < MaxCalls
  /\ phase' = "busy"
  /\ calls' = calls + 1
  /\ todo' = {i \in Index : r[1] <= i /\ i < r[2]}
  /\ gen' = Renewed(r, calls + 1)
  /\ UNCHANGED fit

EvalOne(i) ==
  /\ phase = "busy"
  /\ i \in todo
  /\ todo' = todo \ {i}
  /\ fit' = [fit EXCEPT ![i] = Genome(i)]
  /\ UNCHANGED <<phase, calls, gen>>

Return ==
  /\ phase = "busy"
  /\ todo = {}
  /\ phase' = "idle"
  /\ UNCHANGED <<calls, todo, gen, fit>>

Close ==
  /\ phase = "idle"
  /\ phase' = "closed"
  /\ UNCHANGED <<calls, todo, gen, fit>>

Next ==
  \/ \E r \in Ranges : Begin(r)
  \/ \E i \in Index : EvalOne(i)
  \/ Return
  \/ Close

Spec == Init /\ [][Next]_vars

TypeOK ==
  /\ phase \in {"idle", "busy", "closed"}
  /\ calls \in 0 .. MaxCalls
  /\ todo \subseteq Index
  /\ gen \in [Index -> 0 .. MaxCalls]
  /\ fit \in [Index -> Index \X (0 .. MaxCalls)]

(* A fitness is stale only while the call that must renew it is running:   *)
(* whenever the algorithm has control, each individual's fitness belongs   *)
(* to the genome it has (the classes of sferes/eval).                      *)
Fresh == \A i \in Index : i \notin todo => fit[i] = Genome(i)
=============================================================================
