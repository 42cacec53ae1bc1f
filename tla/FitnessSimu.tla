---------------------------- MODULE FitnessSimu ----------------------------
(***************************************************************************)
(* sferes/fit/fitness_simu.hpp: a fitness that runs a simulation.  The     *)
(* user gives a schedule, a macro for each step at which an experiment     *)
(* begins (NEW_EXP) or ends (END_EXP) and, with the last end, the          *)
(* evaluation (END_EVAL); scheduler() runs all of them at every step.      *)
(* refresh() may give an experiment up by returning -1: the steps that     *)
(* remain are then skipped by _goto_next_exp().                            *)
(*                                                                         *)
(* The value itself is not modelled, only how many evaluations were added  *)
(* into it.  The agent and the display mode leave the control unchanged.   *)
(***************************************************************************)
EXTENDS Integers, Sequences, FiniteSets

CONSTANT
  Schedules   \* the schedules explored; s[k].new and s[k].end are the steps
              \* given to NEW_EXP() and END_EXP() for experiment k

(* END_EVAL() goes with the last END_EXP(), and END_EXP(j) is written above *)
(* NEW_EXP(k) for j < k, as in every schedule of the repository.  One of    *)
(* them (modules/cartpole/test_cartpole.cpp:180-186) ends an experiment and *)
(* begins the next at the same step.                                        *)
ASSUME ScheduleAssumption ==
  \A s \in Schedules :
    /\ s \in Seq([new : Nat, end : Nat]) /\ Len(s) > 0
    /\ \A k \in 1 .. Len(s) : s[k].new < s[k].end
    /\ \A j, k \in 1 .. Len(s) : j < k => s[j].end <= s[k].new

VARIABLES
  schedule,
  pc,        \* "idle", "eval" (the loop of eval()), "exp" (that of _exp()),
             \* "ff" (that of _goto_next_exp())
  state,     \* _state
  step,      \* _step
  expStep,   \* _exp_step
  nbExps,    \* _nb_exps
  inits,     \* the calls of _simu.init()
  counted,   \* the evaluations whose objectives were added into _value
  loaded,    \* the object was read from an archive
  ran,       \* history: the experiments that had a step of their own
  cuts       \* history: the steps at which refresh() returned -1

vars == <<schedule, pc, state, step, expStep, nbExps, inits, counted, loaded,
          ran, cuts>>

Exps == 1 .. Len(schedule)
Last == schedule[Len(schedule)].end

Init ==
  /\ schedule \in Schedules
  /\ pc = "idle" /\ state = "not_started"
  /\ step = 0 /\ expStep = 0 /\ nbExps = 0 /\ inits = 0
  /\ counted = 0 /\ loaded = FALSE /\ ran = {} /\ cuts = {}

----------------------------------------------------------------------------
(* The macros that act at the current step, and the state they leave. *)
Begins == \E k \in Exps : schedule[k].new = step
Ends == \E k \in Exps : schedule[k].end = step

(* A mutant: new_exp() only from the state _exp() begins with. *)
ScheduledFromStart(s) ==
  CASE Begins /\ s = "not_started" -> "running"
    [] Ends -> IF step = Last THEN "end_eval" ELSE "end_exp"
    [] OTHER -> s

Scheduled(s) ==
  CASE Begins -> "running"
    [] Ends /\ ~ Begins -> IF step = Last THEN "end_eval" ELSE "end_exp"
    [] OTHER -> s

Over(s) == s \in {"end_exp", "end_eval"}

(* A mutant: an experiment that was given up is not counted. *)
SchedulerOfComplete(from) ==
  /\ state' = Scheduled(from)
  /\ nbExps' = IF Ends /\ from # "fast_fw" THEN nbExps + 1 ELSE nbExps
  /\ counted' = IF Scheduled(from) = "end_eval" THEN counted + 1 ELSE counted
  /\ step' = step + 1
  /\ UNCHANGED <<schedule, inits, loaded>>

(* scheduler(), from the given state: the part both loops share. *)
Scheduler(from) ==
  /\ state' = Scheduled(from)
  /\ nbExps' = IF Ends THEN nbExps + 1 ELSE nbExps
  /\ counted' = IF Scheduled(from) = "end_eval" THEN counted + 1 ELSE counted
  /\ step' = step + 1
  /\ UNCHANGED <<schedule, inits, loaded>>

(* eval(), which evaluates an object only once. *)
Eval ==
  /\ pc = "idle" /\ state # "eval_done"
  /\ state' = "not_started" /\ pc' = "eval"
  /\ UNCHANGED <<schedule, step, expStep, nbExps, inits, counted, loaded, ran, cuts>>

EvalAgain == pc = "idle" /\ state = "eval_done" /\ UNCHANGED vars

EvalDone ==
  /\ pc = "eval" /\ state = "end_eval"
  /\ state' = "eval_done" /\ pc' = "idle"
  /\ UNCHANGED <<schedule, step, expStep, nbExps, inits, counted, loaded, ran, cuts>>

(* A mutant: the simulation is initialised for the first experiment only. *)
ExpInitOnce ==
  /\ pc = "eval" /\ state # "end_eval"
  /\ inits' = 1 /\ state' = "not_started" /\ pc' = "exp"
  /\ UNCHANGED <<schedule, step, expStep, nbExps, counted, loaded, ran, cuts>>

(* The head of _exp(). *)
Exp ==
  /\ pc = "eval" /\ state # "end_eval"
  /\ inits' = inits + 1 /\ state' = "not_started" /\ pc' = "exp"
  /\ UNCHANGED <<schedule, step, expStep, nbExps, counted, loaded, ran, cuts>>

(* A mutant: _goto_next_exp() skips a step before it looks at the state. *)
StepThenSkip ==
  /\ pc = "exp"
  /\ Scheduler(state)
  /\ expStep' = 1 + (IF Begins \/ Ends THEN 0 ELSE expStep)
  /\ ran' = IF state' = "running" THEN ran \cup {nbExps' + 1} ELSE ran
  /\ \E cut \in BOOLEAN :
       /\ cuts' = IF cut THEN cuts \cup {step} ELSE cuts
       /\ pc' = IF cut /\ step # Last THEN "ff"
                ELSE IF Over(state') THEN "eval" ELSE "exp"

(* A turn of the loop of _exp(); cut is refresh() = -1. *)
Step ==
  /\ pc = "exp"
  /\ Scheduler(state)
  /\ expStep' = 1 + (IF Begins \/ Ends THEN 0 ELSE expStep)
  /\ ran' = IF state' = "running" THEN ran \cup {nbExps' + 1} ELSE ran
  /\ \E cut \in BOOLEAN :
       /\ cuts' = IF cut THEN cuts \cup {step} ELSE cuts
       /\ pc' = IF Over(state') THEN "eval" ELSE IF cut THEN "ff" ELSE "exp"

(* A mutant: the steps that are skipped are not counted. *)
FastForwardInPlace ==
  /\ pc = "ff"
  /\ state' = Scheduled("fast_fw")
  /\ pc' = IF Over(state') THEN "eval" ELSE "ff"
  /\ nbExps' = IF Ends THEN nbExps + 1 ELSE nbExps
  /\ counted' = IF Over(state') /\ step = Last THEN counted + 1 ELSE counted
  /\ UNCHANGED <<schedule, step, expStep, inits, loaded, ran, cuts>>

(* A turn of the loop of _goto_next_exp(). *)
FastForward ==
  /\ pc = "ff"
  /\ Scheduler("fast_fw")
  /\ expStep' = IF Begins \/ Ends THEN 0 ELSE expStep
  /\ pc' = IF Over(state') THEN "eval" ELSE "ff"
  /\ UNCHANGED <<ran, cuts>>

(* serialize() keeps the value and the objectives, and nothing else: what   *)
(* is read from an archive (stat/best_fit.hpp) is a new object with an old  *)
(* value.  Once is enough.                                                  *)
Load ==
  /\ pc = "idle" /\ ~ loaded
  /\ loaded' = TRUE /\ state' = "not_started"
  /\ step' = 0 /\ expStep' = 0 /\ nbExps' = 0 /\ inits' = 0
  /\ ran' = {} /\ cuts' = {}
  /\ UNCHANGED <<schedule, pc, counted>>

Loops == EvalDone \/ Exp \/ Step \/ FastForward
Next == Eval \/ EvalAgain \/ Load \/ Loops

Spec == Init /\ [][Next]_vars
(* eval() runs to its end once it is called. *)
FairSpec == Spec /\ WF_vars(Loops)

----------------------------------------------------------------------------
(* Experiment j and the next share a step: end_exp() and then new_exp() in  *)
(* one call of scheduler(), which neither loop notices.                     *)
Shared(j) == \E i \in Exps : schedule[i].new = schedule[j].end
SharedUpTo(m) == {j \in 1 .. m : Shared(j)}

(* A cut before experiment k that no noticed end of an experiment stops: it *)
(* was made between two experiments, or the ends after it are shared.       *)
Swallowed(k) ==
  \E c \in cuts :
    /\ c < schedule[k].new
    /\ \A j \in Exps :
         (c <= schedule[j].end /\ schedule[j].end <= schedule[k].new) => Shared(j)

(* When eval() has returned, the experiments that ran are exactly those no  *)
(* cut has swallowed: giving one up never costs a later one a step, unless  *)
(* they share a step or the cut was made between two of them.               *)
RunsUnlessSwallowed ==
  state = "eval_done" => \A k \in Exps : k \in ran <=> ~ Swallowed(k)

(* nb_exps() is "number of finished experiments" (line 148): at the end all *)
(* of them, however many were given up, and the steps are those of the      *)
(* schedule; the objectives are added once, or twice when the value was     *)
(* read from the archive of an evaluated object.                            *)
EvaluatedAsScheduled ==
  state = "eval_done" =>
    /\ nbExps = Len(schedule) /\ step = Last + 1
    /\ counted = 1 \/ (loaded /\ counted = 2)

(* An experiment starts from a simulation that was initialised for it       *)
(* (tests/fit/fitness_simu.cpp:158), but for those that share a step with   *)
(* the one before.                                                          *)
FreshSimu ==
  state = "running" => inits = nbExps + 1 - Cardinality(SharedUpTo(nbExps))

(* The assertion of end_exp() (line 125): an experiment that ends has begun. *)
EndsWhatBegan == pc = "exp" /\ Ends => state = "running"

(* The inductive invariant. *)
TypeOK ==
  /\ schedule \in Schedules
  /\ pc \in {"idle", "eval", "exp", "ff"}
  /\ state \in {"not_started", "running", "end_exp", "end_eval", "fast_fw", "eval_done"}
  /\ step \in Nat /\ expStep \in Nat /\ nbExps \in Nat /\ inits \in Int
  /\ counted \in Nat /\ loaded \in BOOLEAN
  /\ ran \subseteq Nat /\ cuts \subseteq Nat

Done == state \in {"end_eval", "eval_done"}

(* Which states go with which loop. *)
AtLoop ==
  /\ pc = "idle" => state \in {"not_started", "eval_done"}
  /\ pc = "eval" => state \in {"not_started", "end_exp", "end_eval"}
  /\ pc = "exp" => state \in {"not_started", "running"}
  /\ pc = "ff" => state \in {"not_started", "running", "fast_fw"}

(* Where the evaluation is in the schedule: the next end is experiment      *)
(* nbExps + 1's, which has begun when the state says so.                    *)
Placed ==
  /\ Done => nbExps = Len(schedule) /\ step = Last + 1
  /\ ~ Done =>
       /\ nbExps < Len(schedule)
       /\ \A k \in Exps : k <= nbExps <=> schedule[k].end < step
       /\ pc = "exp" => (state = "running" <=> schedule[nbExps + 1].new < step)
       /\ pc \in {"idle", "eval"} => schedule[nbExps + 1].new >= step

CountedOnce ==
  IF Done THEN counted = 1 \/ (loaded /\ counted = 2)
          ELSE counted = 0 \/ (loaded /\ counted = 1)

Inited ==
  ~ Done => inits = nbExps + (IF pc \in {"exp", "ff"} THEN 1 ELSE 0)
                    - Cardinality(SharedUpTo(nbExps))

(* The experiments that should have begun did, or were swallowed; a loop    *)
(* that is not skipping steps has seen an end after every cut.              *)
RanOrSwallowed ==
  /\ \A k \in Exps : schedule[k].new < step => (k \in ran <=> ~ Swallowed(k))
  /\ \A k \in ran : k \in Exps /\ schedule[k].new < step
  /\ \A c \in cuts : c < step

CutsSeen ==
  /\ pc # "ff" => \A c \in cuts : \E j \in Exps :
                   c <= schedule[j].end /\ schedule[j].end < step /\ ~ Shared(j)
  /\ pc = "ff" => \E c \in cuts : \A j \in Exps :
                   (c <= schedule[j].end /\ schedule[j].end < step) => Shared(j)

IInv ==
  /\ TypeOK /\ AtLoop /\ Placed /\ CountedOnce /\ Inited /\ RanOrSwallowed /\ CutsSeen

(* eval() returns, wherever the experiments are given up. *)
EvalEnds == pc # "idle" ~> pc = "idle"
=============================================================================
