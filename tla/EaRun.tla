------------------------------- MODULE EaRun -------------------------------
(***************************************************************************)
(* sferes/ea/ea.hpp: the run of an evolutionary algorithm, here the        *)
(* rank-based one (rank_simple.hpp), with a modifier that changes the goal *)
(* every period generations (exp/modularity/mvg.hpp), the statistic of the *)
(* best individual (stat/best_fit.hpp) and the dumps.                      *)
(*                                                                         *)
(* No program of the repository puts these together: the experiments use   *)
(* Mvg with Nsga2 or Pnsga.  DumpsTheBest and BestKept rest on a           *)
(* population sorted by value, as RankSimple leaves it; which goal a       *)
(* generation and a dump have (DumpsBeforeSwitch) rests on Ea::run() and   *)
(* Mvg::apply() only.                                                      *)
(*                                                                         *)
(* An individual is one of a finite set with a constant score for every    *)
(* goal; its value is the score for the goal it was last given.  Crossover *)
(* and mutation can produce any individual, so the ranks of the parents    *)
(* are not modelled; an evaluation is one step (BatchEval).                *)
(***************************************************************************)
EXTENDS Integers, Sequences

CONSTANTS
  Indivs,      \* the individuals that can be bred
  NbGoals,     \* fit().nb_values()
  Score,       \* Score[x][g]: fit().values(g) of x
  Size,        \* Params::pop::size
  NbKeep,      \* nb_keep, size * keep_rate
  InitSize,    \* size * initial_aleat
  NbGen,       \* Params::pop::nb_gen
  Period,      \* Mvg::period
  SizeT,       \* the number of values of a size_t
  DumpPeriod   \* Params::pop::dump_period, -1 for no dump

Goals == 0 .. NbGoals - 1

ASSUME ScoreAssumption == Score \in [Indivs -> [Goals -> Int]]
ASSUME SizesAssumption ==
  /\ {Size, NbKeep, InitSize, NbGen, NbGoals, Period} \subseteq Nat \ {0}
  /\ NbKeep < Size /\ Size <= InitSize
  /\ (Size - NbKeep) % 2 = 0      \* offspring come in pairs, line 73
ASSUME PeriodAssumption == Period % 2 = 0   \* multiples of 10 (mvg.hpp:11-33)
ASSUME WidthAssumption == SizeT \in Nat /\ SizeT % 2 = 0 /\ NbGen <= SizeT
ASSUME DumpAssumption == DumpPeriod \in Int /\ (DumpPeriod > 0 \/ DumpPeriod = -1)

VARIABLES
  pc,      \* "start", "epoch", "refresh", "write" and "end"
  gen,     \* _gen
  pop,     \* _pop, records of an individual and the goal its value is for
  goal,    \* Mvg::_obj
  best,    \* BestFit::_best, <<>> before the first refresh
  dumps    \* what was written: the generation, its goal and the best value

vars == <<pc, gen, pop, goal, best, dumps>>

Value(i) == Score[i.of][i.on]

----------------------------------------------------------------------------
(* std::partial_sort() with fit::compare(): the k best of s, best first,    *)
(* then the others in any order.                                            *)
Orders == [D \in {1 .. Size, 1 .. InitSize} |->
             {p \in [D -> D] : \A j \in D : \E i \in D : p[i] = j}]
PartialSorts(s, k) ==
  {t \in {[i \in DOMAIN s |-> s[p[i]]] : p \in Orders[DOMAIN s]} :
     \A i, j \in DOMAIN t : (i <= k /\ i < j) => Value(t[i]) >= Value(t[j])}

(* A mutant: the switch one generation earlier, before the dump. *)
SwitchesAtPeriod(g) == g # 0 /\ g % Period = 0

(* The generations at which Mvg::apply() switches.  gen - 1 is unsigned: at *)
(* generation 0 it is the greatest number of its width, an odd one.         *)
Switches(g) == g # 1 /\ ((g - 1) % SizeT) % Period = 0

(* A mutant: only the offspring are given the goal. *)
GiveGoalToOffspring(s, g) ==
  [i \in DOMAIN s |-> IF i <= NbKeep THEN s[i] ELSE [s[i] EXCEPT !.on = g]]

(* Mvg::apply(): the goal of this generation, given to the whole population.*)
GoalAt(g) == IF Switches(g) THEN (goal + 1) % NbGoals ELSE goal
GiveGoal(s, g) == [i \in DOMAIN s |-> [s[i] EXCEPT !.on = g]]

Init ==
  /\ pc = "start" /\ gen = 0 /\ goal = 0
  /\ pop = <<>> /\ best = <<>> /\ dumps = {}

(* RankSimple::random_pop(), which applies the modifier too. *)
RandomPop ==
  /\ pc = "start"
  /\ goal' = GoalAt(gen)
  /\ \E xs \in [1 .. InitSize -> Indivs] :
       LET all == GiveGoal([i \in 1 .. InitSize |-> [of |-> xs[i], on |-> 0]], goal')
       IN  \E t \in PartialSorts(all, Size) : pop' = SubSeq(t, 1, Size)
  /\ pc' = IF gen < NbGen THEN "epoch" ELSE "end"
  /\ UNCHANGED <<gen, best, dumps>>

(* RankSimple::epoch(): the best NbKeep stay, the others are replaced; the  *)
(* offspring are evaluated, with a value for goal 0 as Fitness gives it.    *)
Offspring(from) == [from + 1 .. Size -> {[of |-> x, on |-> 0] : x \in Indivs}]

(* A mutant: the first of the individuals that are kept is replaced too. *)
EpochKeepsOneLess ==
  /\ pc = "epoch"
  /\ goal' = GoalAt(gen)
  /\ \E o \in Offspring(0) :
       \E t \in PartialSorts(GiveGoal([i \in 1 .. Size |->
                  IF i \in 2 .. NbKeep THEN pop[i] ELSE o[i]], goal'), NbKeep) :
         pop' = t
  /\ pc' = "refresh"
  /\ UNCHANGED <<gen, best, dumps>>

Epoch ==
  /\ pc = "epoch"
  /\ goal' = GoalAt(gen)
  /\ \E o \in Offspring(NbKeep) :
       \E t \in PartialSorts(GiveGoal([i \in 1 .. Size |->
                  IF i <= NbKeep THEN pop[i] ELSE o[i]], goal'), NbKeep) :
         pop' = t
  /\ pc' = "refresh"
  /\ UNCHANGED <<gen, best, dumps>>

(* update_stats(): BestFit "assume[s] that the population is sorted". *)
UpdateStats ==
  /\ pc = "refresh"
  /\ best' = pop[1]
  /\ pc' = "write"
  /\ UNCHANGED <<gen, pop, goal, dumps>>

(* _write(): the statistics of this generation in a file of its own. *)
Written ==
  IF DumpPeriod = -1 THEN dumps
  ELSE dumps \cup {[gen |-> gen, goal |-> goal, value |-> Value(best)]}

(* The end of the loop of run() and its head. *)
Write ==
  /\ pc = "write"
  /\ dumps' = IF DumpPeriod = -1 \/ gen % DumpPeriod = 0 THEN Written ELSE dumps
  /\ gen' = gen + 1
  /\ pc' = IF gen + 1 < NbGen THEN "epoch" ELSE "end"
  /\ UNCHANGED <<pop, goal, best>>

Next == RandomPop \/ Epoch \/ UpdateStats \/ Write
Spec == Init /\ [][Next]_vars

----------------------------------------------------------------------------
Scored == [of : Indivs, on : Goals]
TypeOK ==
  /\ pc \in {"start", "epoch", "refresh", "write", "end"}
  /\ gen \in 0 .. NbGen
  /\ goal \in Goals
  /\ IF pc = "start" THEN pop = <<>> ELSE pop \in [1 .. Size -> Scored]
  /\ best \in Scored \cup {<<>>}
  /\ dumps \subseteq [gen : Nat, goal : Goals, value : Int]

(* What is written is the best value of the whole population for the goal   *)
(* of the generation: no value is left over from the goal before, and the   *)
(* population is sorted as best_fit.hpp:49 assumes.                         *)
DumpsTheBest ==
  pc = "write" =>
    /\ best.on = goal
    /\ \A i \in 1 .. Size : Score[best.of][goal] >= Score[pop[i].of][goal]

(* "we start at -1 to allow a dump _before_ the switch" (mvg.hpp:35): all   *)
(* the generations 1 + k * period .. (k + 1) * period have one goal, so a   *)
(* dump at a multiple of the period still shows the goal of its period.     *)
GoalOf(g) == (IF g = 0 THEN 0 ELSE (g - 1) \div Period) % NbGoals
DumpsBeforeSwitch == \A d \in dumps : d.goal = GoalOf(d.gen)

(* A generation never loses one of the NbKeep that stayed: the best of the  *)
(* new population is at least as good as each of them, for the goal of the  *)
(* new generation even when that is another one.                            *)
BestKept ==
  [][(pc = "epoch" /\ pop # <<>>) =>
       \A i \in 1 .. NbKeep : Value(pop'[1]) >= Score[pop[i].of][goal']]_vars

----------------------------------------------------------------------------
(* The inductive invariant: the goal is counted from the generation before  *)
(* until the epoch has applied the modifier; then the population is sorted  *)
(* for that goal, and so is the best of it.                                 *)
GoalOfGeneration ==
  /\ pc = "start" => gen = 0 /\ goal = 0
  /\ pc = "epoch" => gen < NbGen /\ goal = GoalOf(IF gen = 0 THEN 0 ELSE gen - 1)
  /\ pc \in {"refresh", "write"} => gen < NbGen /\ goal = GoalOf(gen)

SortedOnGoal ==
  pc \in {"refresh", "write"} =>
    /\ \A i \in 1 .. Size : pop[i].on = goal /\ Value(pop[1]) >= Value(pop[i])
    /\ pc = "write" => best = pop[1]

IInv == TypeOK /\ GoalOfGeneration /\ SortedOnGoal /\ DumpsBeforeSwitch
=============================================================================
