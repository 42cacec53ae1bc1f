------------------------------ MODULE TaskEval -----------------------------
(***************************************************************************)
(* The evaluators that stay in one process: sferes/eval/eval.hpp (a loop), *)
(* parallel.hpp (TBB tasks that develop and evaluate) and                  *)
(* parallel_eval.hpp (the whole population is developed first, TBB tasks   *)
(* only evaluate).  tbb::parallel_for splits the range as it likes, runs   *)
(* the pieces on any thread and returns when the last one is finished.     *)
(***************************************************************************)
EXTENDS Naturals

CONSTANTS
  Kinds,      \* the evaluators that are explored
  Workers,    \* the threads of TBB; Eval does not split and uses one
  PopSize,    \* pop.size()
  MaxCalls    \* bound: the number of calls of eval() that are explored

ASSUME KindsAssumption == Kinds \subseteq {"eval", "parallel", "parallel_eval"}
ASSUME SizeAssumption == PopSize \in Nat \ {0} /\ MaxCalls \in Nat \ {0}

Index == 0 .. (PopSize - 1)
(* assert(begin < pop.size()); assert(end <= pop.size()) *)
Ranges == {r \in (0 .. (PopSize - 1)) \X (0 .. PopSize) : r[1] <= r[2]}

VARIABLES
  kind,    \* the evaluator the program was compiled with
  pc,      \* "idle", "develop" (loop over pop before the tasks), "tasks"
  calls,   \* number of calls of eval() started
  next,    \* the loop over pop of parallel_eval.hpp:78
  pieces,  \* ranges nobody has started
  work,    \* work[w]: what is left of the range worker w runs
  ready,   \* ready[w]: w has developed the first individual of work[w]
  gen,     \* gen[i]: the call that individual i's genome was made for
  dev,     \* dev[i]: the genome individual i's phenotype was built from
  fit      \* fit[i]: the genome that pop[i]->fit() was computed from

vars == <<kind, pc, calls, next, pieces, work, ready, gen, dev, fit>>

Genome(i) == <<i, gen[i]>>
Nothing == <<0, 0>>
Empty(r) == r[1] >= r[2]

Init ==
  /\ kind \in Kinds
  /\ pc = "idle" /\ calls = 0 /\ next = 0
  /\ pieces = {}
  /\ work = [w \in Workers |-> Nothing]
  /\ ready = [w \in Workers |-> FALSE]
  /\ gen = [i \in Index |-> 0]
  /\ dev = [i \in Index |-> <<i, 0>>]
  /\ fit = [i \in Index |-> <<i, 0>>]

Call(r) ==
  /\ pc = "idle"
  /\ calls < MaxCalls
  /\ calls' = calls + 1
  /\ gen' = [i \in Index |-> IF r[1] <= i /\ i < r[2] THEN calls + 1 ELSE gen[i]]
  /\ pc' = IF kind = "parallel_eval" THEN "develop" ELSE "tasks"
  /\ next' = 0
  /\ pieces' = {r}
  /\ UNCHANGED <<kind, work, ready, dev, fit>>

(* A mutant: the last individual is not developed. *)
DevelopAllButLast ==
  /\ pc = "develop"
  /\ IF next < PopSize - 1
     THEN /\ dev' = [dev EXCEPT ![next] = Genome(next)]
          /\ next' = next + 1
          /\ UNCHANGED pc
     ELSE pc' = "tasks" /\ UNCHANGED <<next, dev>>
  /\ UNCHANGED <<kind, calls, pieces, work, ready, gen, fit>>

(* BOOST_FOREACH(p, pop) p->develop() *)
DevelopAll ==
  /\ pc = "develop"
  /\ IF next < PopSize
     THEN /\ dev' = [dev EXCEPT ![next] = Genome(next)]
          /\ next' = next + 1
          /\ UNCHANGED pc
     ELSE pc' = "tasks" /\ UNCHANGED <<next, dev>>
  /\ UNCHANGED <<kind, calls, pieces, work, ready, gen, fit>>

(* Mutants: the halves overlap, or leave a gap. *)
SplitOverlap(r) ==
  /\ pc = "tasks" /\ kind # "eval"
  /\ r \in pieces
  /\ r[2] - r[1] > 1
  /\ LET middle == r[1] + (r[2] - r[1]) \div 2 IN
       pieces' = (pieces \ {r}) \cup {<<r[1], middle>>, <<middle - 1, r[2]>>}
  /\ UNCHANGED <<kind, pc, calls, next, work, ready, gen, dev, fit>>
SplitGap(r) ==
  /\ pc = "tasks" /\ kind # "eval"
  /\ r \in pieces
  /\ r[2] - r[1] > 1
  /\ LET middle == r[1] + (r[2] - r[1]) \div 2 IN
       pieces' = (pieces \ {r}) \cup {<<r[1], middle>>, <<middle + 1, r[2]>>}
  /\ UNCHANGED <<kind, pc, calls, next, work, ready, gen, dev, fit>>

(* a blocked_range of two or more may be cut in the middle *)
Split(r) ==
  /\ pc = "tasks" /\ kind # "eval"
  /\ r \in pieces
  /\ r[2] - r[1] > 1
  /\ LET middle == r[1] + (r[2] - r[1]) \div 2 IN
       pieces' = (pieces \ {r}) \cup {<<r[1], middle>>, <<middle, r[2]>>}
  /\ UNCHANGED <<kind, pc, calls, next, work, ready, gen, dev, fit>>

(* A mutant: the piece is not taken away. *)
StartKept(w, r) ==
  /\ pc = "tasks"
  /\ r \in pieces
  /\ Empty(work[w])
  /\ work' = [work EXCEPT ![w] = r]
  /\ UNCHANGED <<kind, pc, calls, next, pieces, ready, gen, dev, fit>>

Start(w, r) ==
  /\ pc = "tasks"
  /\ r \in pieces
  /\ Empty(work[w])
  /\ pieces' = pieces \ {r}
  /\ work' = [work EXCEPT ![w] = r]
  /\ UNCHANGED <<kind, pc, calls, next, ready, gen, dev, fit>>

(* _pop[i]->develop() in Eval::eval and in the task of Parallel *)
Develop(w) ==
  /\ ~ Empty(work[w])
  /\ kind # "parallel_eval" /\ ~ ready[w]
  /\ dev' = [dev EXCEPT ![work[w][1]] = Genome(work[w][1])]
  /\ ready' = [ready EXCEPT ![w] = TRUE]
  /\ UNCHANGED <<kind, pc, calls, next, pieces, work, gen, fit>>

(* A mutant: an individual is passed over. *)
EvaluateTwo(w) ==
  /\ ~ Empty(work[w])
  /\ kind = "parallel_eval" \/ ready[w]
  /\ LET i == work[w][1] IN fit' = [fit EXCEPT ![i] = dev[i]]
  /\ ready' = [ready EXCEPT ![w] = FALSE]
  /\ work' = [work EXCEPT ![w] = <<@[1] + 2, @[2]>>]
  /\ UNCHANGED <<kind, pc, calls, next, pieces, gen, dev>>

(* the fitness of _pop[i] is computed on its phenotype; ++i *)
Evaluate(w) ==
  /\ ~ Empty(work[w])
  /\ kind = "parallel_eval" \/ ready[w]
  /\ LET i == work[w][1] IN fit' = [fit EXCEPT ![i] = dev[i]]
  /\ ready' = [ready EXCEPT ![w] = FALSE]
  /\ work' = [work EXCEPT ![w] = <<@[1] + 1, @[2]>>]
  /\ UNCHANGED <<kind, pc, calls, next, pieces, gen, dev>>

Return ==
  /\ pc = "tasks"
  /\ pieces = {}
  /\ \A w \in Workers : Empty(work[w])
  /\ pc' = "idle"
  /\ UNCHANGED <<kind, calls, next, pieces, work, ready, gen, dev, fit>>

(* The algorithm needs no more evaluations. *)
Stop == pc = "idle" /\ calls > 0 /\ UNCHANGED vars

WorkerStep(w) ==
  \/ \E r \in pieces : Start(w, r)
  \/ Develop(w)
  \/ Evaluate(w)

Next ==
  \/ \E r \in Ranges : Call(r)
  \/ DevelopAll
  \/ \E r \in pieces : Split(r)
  \/ \E w \in Workers : WorkerStep(w)
  \/ Return
  \/ Stop

Spec == Init /\ [][Next]_vars

(* Threads that have work go on, the loop goes on, parallel_for returns.    *)
Fairness ==
  /\ WF_vars(DevelopAll)
  /\ WF_vars(Return)
  /\ \A w \in Workers : WF_vars(WorkerStep(w))

FairSpec == Spec /\ Fairness

-----------------------------------------------------------------------------
TypeOK ==
  /\ kind \in Kinds
  /\ pc \in {"idle", "develop", "tasks"}
  /\ calls \in 0 .. MaxCalls
  /\ next \in 0 .. PopSize
  /\ pieces \subseteq Ranges
  /\ work \in [Workers -> (0 .. PopSize) \X (0 .. PopSize)]
  /\ ready \in [Workers -> BOOLEAN]
  /\ gen \in [Index -> 0 .. MaxCalls]
  /\ dev \in [Index -> Index \X (0 .. MaxCalls)]
  /\ fit \in [Index -> Index \X (0 .. MaxCalls)]

Covered(r) == {i \in Index : r[1] <= i /\ i < r[2]}
Todo == UNION ({Covered(r) : r \in pieces} \cup {Covered(work[w]) : w \in Workers})

(* Two threads never have the same individual in hand, however the range    *)
(* was cut: tasks write pop[i] without a lock (parallel.hpp:57-67).         *)
NoSharedIndividual ==
  /\ \A v, w \in Workers : v # w => Covered(work[v]) \cap Covered(work[w]) = {}
  /\ \A r \in pieces, w \in Workers : Covered(r) \cap Covered(work[w]) = {}

(* An individual is evaluated on the phenotype of its present genome, never *)
(* on that of its parents' generation (develop() before eval()).            *)
EvaluatedAsDeveloped ==
  \A i \in Index : i \notin Todo => fit[i] = Genome(i)

(* The inductive invariant: nothing is left of a call that has returned,    *)
(* the pieces are apart from each other too, and whatever is evaluated next *)
(* has been developed in this call.                                         *)
AtRest ==
  /\ pc # "tasks" => \A w \in Workers : Empty(work[w])
  /\ pc = "idle" => pieces = {}

PiecesApart ==
  \A r, s \in pieces : r # s => Covered(r) \cap Covered(s) = {}

Developed ==
  \A i \in Index :
    (pc = "develop" /\ i < next) \/ (pc = "tasks" /\ kind = "parallel_eval")
      => dev[i] = Genome(i)

ReadyIsDeveloped ==
  \A w \in Workers : ready[w] =>
    ~ Empty(work[w]) /\ dev[work[w][1]] = Genome(work[w][1])

IInv ==
  /\ TypeOK /\ AtRest /\ PiecesApart /\ NoSharedIndividual
  /\ Developed /\ ReadyIsDeveloped /\ EvaluatedAsDeveloped

(* Every call of eval() returns. *)
CallReturns == (pc # "idle") ~> (pc = "idle")

(* The evaluator contract of BatchEval. *)
Batch == INSTANCE BatchEval WITH
  phase <- IF pc = "idle" THEN "idle" ELSE "busy",
  todo <- Todo
ImplementsBatch == Batch!Spec
=============================================================================
