# Verification of sferes2 / EOH in TLA+

The repository holds sferes2, a C++ template framework for evolutionary
computation, and the experiments on the evolutionary origins of hierarchy that
are built on it. This directory holds TLA+ modules of its core, the TLC
configurations that check them on small instances, and proofs that TLAPS checks
for every instance.

## 1. The system

A program instantiates an evolutionary algorithm (EA) with a phenotype (which
owns a genome and a fitness), an evaluator, statistics and modifiers, and calls
`run()`: `random_pop()`, then `epoch()` for each generation. An epoch selects,
crosses and mutates individuals, hands a range of a vector of them to the
evaluator's `eval(pop, begin, end)`, lets the modifiers change the fitnesses,
and decides who survives. The program is sequential, apart from the evaluators
(TBB tasks, MPI processes) and the parallel loops on a population; every choice
is random.

| component | state | operations | interacts with |
|---|---|---|---|
| evaluators `sferes/eval` | what is sent, received, developed | `eval`, destructor | called by the EAs; calls `develop()` and `fit().eval()` of the individuals |
| `ea/eps_moea.hpp` | population, archive, front | `random_pop`, `epoch` | evaluator, individuals, statistics read the front |
| `exp/map_elite` | grid of elites, grid of parents | `random_pop`, `epoch` | evaluator, modifiers; `stat_map.hpp` writes both grids |
| `ea/nsga2.hpp`, `crowd.hpp`, `dom_sort*.hpp`, `exp/modularity/pnsga.hpp` | parents, fronts, ranks, crowding distances | `random_pop`, `load_and_run`, `epoch`, sort | evaluator, modifiers |
| `ea/rank_simple.hpp`, `ea/cmaes.hpp` | sorted population | `random_pop`, `epoch` | evaluator, modifiers |
| `ea/ea.hpp`, `run.hpp` | generation, result directory | `run`, `load`, dumps | all |
| `fit/fitness_simu.hpp` | step, experiment, state, value | `eval`, scheduler, `serialize` | a simulation and an agent; evaluators, statistics |
| `modules/nn2/nn.hpp` | graph, outputs of the neurons | `init`, `step`, `simplify` | genome, fitness |
| `modules/nn2/gen_dnn*.hpp`, `phen_dnn.hpp` | graph, depth | `random`, `mutate`, `cross`, `init` | EA, fitness |
| `gen/`, `phen/` | vectors, developed data | `random`, `mutate`, `cross`, `develop` | EA, evaluator |
| `stat/`, `modif/`, `mvg.hpp` | copies of the best, the goal, distances | `refresh`, `apply` | EA |

What is hard: the order in which MPI messages arrive and whether a send waits
for its receiver; the freedom of TBB to cut a range; state that is kept between
two calls (fitnesses, phenotypes, network outputs, the depth, the goal, the
parents read from a grid that changes, the state of a simulation); containers
changed while they are iterated; counters that are lowered front after front;
long histories of mutations and selections; conversions and wrap-arounds at the
borders of a range. `hazards` of PROJECT.json lists them line by line with the
properties that would catch each, or with the reason why none does.

What makes the parts correct:

* an evaluator: after a call each fitness of the range belongs to the genome the
  individual has now, nothing else changed, the call returns;
* the epsilon-MOEA: the archive is a set of mutually epsilon-nondominated boxes,
  never empty, never worse than before, never worse than the population;
* NSGA: everybody gets a rank that respects the dominance, the two sorts agree,
  and cutting a front by crowding neither drops one who dominates a survivor nor
  loses the best value of an objective;
* MAP-Elites: an elite is in its niche, what a cell rejects it rejects for ever,
  the parents' niches stay held, an epoch always has somebody to select;
* the run: what is dumped is the best of its generation for the goal of its
  period, and the individuals that are kept are not lost when the goal changes;
* a simulated fitness: every experiment runs from an initialised simulation, is
  counted, and the evaluation ends, wherever experiments are given up;
* the genome: feed-forward for ever, no dangling connection, a depth that is the
  evaluated network's;
* the network: an answer is about the present question only.

## 2. The modules

| module | models | state and actions |
|---|---|---|
| `BatchEval` | the contract of all evaluators | a call (`Begin`), one fitness at a time in any order (`EvalOne`), `Return`; `Close` is the end of the evaluator |
| `MpiEval` | `sferes/eval/mpi.hpp` | the program counter of the master with the locals of `_master_loop`, a state and a job for each slave, a channel each way; one action for each step between two communications |
| `TaskEval` | `eval.hpp`, `parallel.hpp`, `parallel_eval.hpp` | the pieces of the range, what each thread has left, phenotypes and fitnesses |
| `EpsMoea` | `sferes/ea/eps_moea.hpp` | population, archive (in list order), front, offspring left, iterator; one action for each turn of the loop in `archive_acceptance()` |
| `Nsga` | `nsga2.hpp`, `pnsga.hpp`, `crowd.hpp`, `sort_deb()`, `dom_sort_basic()` | parents, the population being ranked, fronts, counters of dominators, the reported front; `RandomPop` or, for `pnsga`, `LoadAndRun` (copies of one loaded individual) begins, a step for each front (`Layer`, `Round`), `Fill` is the end of an epoch |
| `NsgaFast` | `sort_2objs()` | `Nsga` with this sort in the place of `Layer` |
| `MapElite` | `exp/map_elite/map_elite.hpp` | the two grids, the mates an epoch began with, offspring left to file |
| `EaRun` | `ea.hpp` with `rank_simple.hpp`, `mvg.hpp`, `best_fit.hpp` | generation, sorted population, the goal, the statistic, the dumps; `RandomPop`, `Epoch`, `UpdateStats`, `Write` in the order of `run()` |
| `FitnessSimu` | `sferes/fit/fitness_simu.hpp` | the counters and the state of the object; a step for each turn of the loops of `_exp()` and `_goto_next_exp()` |
| `NnGraph` | searches of `nn.hpp` and `_compute_depth()` | operators only |
| `DnnFF` | `gen_dnn_ff.hpp` with what it uses of `gen_dnn.hpp`, `nn.hpp`, `phen_dnn.hpp` | one lineage: neurons, number of connections for each pair, depth |
| `NnStep` | `_init`, `_step` of `nn.hpp`, the loop of an experiment's `eval()` | extends `DnnFF`: a developed network of it, for each neuron what its output was computed from; `Step`, `NextPattern` |

`MpiEval` and `TaskEval` each contain an INSTANCE of `BatchEval` under a
refinement mapping (`ImplementsBatch`); the algorithms rely on this contract and
take an evaluation for one step. `NnStep` begins where `DnnFF` has developed a
network and lets it run (`EvalSpec`, of the same variables and the neurons'
outputs); the theorem `LineageIsEvaluable` says that its initial states leave out
no network of a lineage. The `MC*` modules give
the constants their small values. Operators whose comment says "A mutant" are
plausible bugs of the definition that follows; no specification uses them.

Abstractions. A genome is the pair of its individual and the call it was made
for; a fitness, a phenotype or a message is the genome it was computed from, so
every staleness is visible. In `EpsMoea` an individual is its vector of (integer)
objectives and an offspring may have any of them; in `Nsga` and `EaRun` it is one
of a finite set with constant objectives, several of which may be equal, and an
offspring may be any. Selections, tournaments and drawn ranks are therefore part
of "any offspring". In `Nsga` a round of the probabilistic sort has the outcome of
independent draws for each comparison: those that no draw removes stay, those that
every draw removes leave, chance has the others. The extremes of a front have an
infinite crowding distance, whichever of equal ones sorting puts there; the
distances of the others are left open. In `EaRun` a value is the goal it was
computed for. In `MapElite` an individual is its value, its modularity and two
descriptors, in half cells so that `round()` matters. In `NnStep` the output of a
neuron is the set of the patterns it depends on, 0 being the state left by
`init()`. In `FitnessSimu` the value is the number of times objectives were added
to it. Weights, biases and activation are left out: a property holds for any.

`EaRun` composes the goals of `mvg.hpp` with the rank-based algorithm and the
statistic of the best individual. The composition is this project's: the experiments
on modularity use `Mvg` with `Pnsga` or `Nsga2` and `stat::Mod` (`BestFit` is
commented out, `exp/modularity/andxorand.cpp:940-958`), and `RankSimple` is used in
examples and tests, without `Mvg`. What carries over to the experiments is what
rests on `Ea::run()` and `Mvg::apply()` only: which goal a generation and a dump
have (`DumpsBeforeSwitch`), given that these algorithms too call `apply_modifier()`
once in `random_pop()` and once in each epoch. `DumpsTheBest` and `BestKept` need a
population sorted by value besides, which `RankSimple` leaves and the
multi-objective algorithms do not.
`gen - 1` is unsigned and wraps at generation 0, to the greatest `size_t`. `SizeT`
is their number: 2^16 in the run, any even number in the proofs, which need only
that this greatest number is odd and the periods are even.

Code outside the repository is modelled from its use. MPI: messages between two
processes keep their order, `probe()` may take the head of any channel, each send
either is buffered or blocks until the receive, at the library's choice at each
send; the one-word quit message is always buffered (`ByeModes`), since no slave
ever receives it. TBB: `parallel_for` halves ranges as it likes, runs them on any
thread and returns after the last. Boost's `dag_shortest_paths()` searches from
its source through the vertices its colour map has white and leaves black what
it found; the caller gives the same map to every call (`NnGraph!Black`).

## 3. The runs

| run | instance | shows |
|---|---|---|
| `mpi` | 3 slaves, 4 individuals, 2 calls on any range | nothing lost, repeated or leaked; `MpiEval` implements `BatchEval`; each call returns and all processes leave |
| `tasks` | each of the three evaluators, 2 threads, 3 individuals, 2 calls | no sharing, no stale phenotype, each evaluator implements `BatchEval`, calls return |
| `eps_moea` | 8 vectors in 5 boxes of side 2, 2 members, 2 offspring an epoch | archive, front, coverage, end of each epoch |
| `nsga` | 8 individuals, 2 objectives, 5 drawn or 4 copies at first, 4 parents and 4 offspring an epoch; the second objective of `pnsga` counts only sometimes | ranks, agreement of the sorts, elitism, end of each ranking |
| `map_elite` | 2 x 2 cells, 9 individuals | rejections, parents, niches |
| `ea_run` | 4 individuals, 2 goals that disagree, population of 4 of which 2 are kept, 7 generations, a period and a dump every 2 | dumps and switches, survival of those kept, the invariant of the proofs |
| `fitness_simu` | 5 schedules of one to three experiments, given up at any set of steps, loaded at any time | which experiments run, what is counted, end of the evaluation |
| `dnn_ff` | 1 input, 2 outputs, 2 hidden neurons, 4 initial connections, 2 parallel | acyclic, well formed, depth of the evaluated network |
| `nn_step` | all networks of 2 inputs, 1 output, up to 3 hidden neurons; 2 patterns | an answer hears the present pattern; where the depth is that of the longest path it forgets the earlier one, and the initial state if every neuron hears an input |

Three runs expect a violation; each is a finding of PROJECT.json:

* `map_elite_negative`: `round(p[0] * res_x)` of a negative modularity is
  converted to `size_t`; on x86-64 it wraps and the network is filed among the
  most modular ones, although `fit_map.hpp:51` declares such values legal.
* `dnn_ff_two_inputs`: `_compute_depth()` makes its colour map once for all
  inputs, so the longest path ("we compute the longest path", line 536) is missed
  when it leads from a later input through a neuron of an earlier one. In
  consequence an answer of such a network may be computed from the pattern before;
  `ForgetsWhenDeep` of `nn_step` says that this is the only way it can be.
* `nsga_fast`: `sort_2objs()` puts an individual into the front of one that
  dominates it when their second objectives are equal.

More observations, without a run of their own:

* `DnnFF::random()` asserts `init == ff` and makes a random graph
  (`gen_dnn_ff.hpp:124`, modelled so), while its test expects the perceptron of
  `_random_ff()`, six neurons and eight connections (`test_dnn_ff.cpp:129`).
* A chain of neurons that hears no input is kept by `simplify()` and not counted
  in the depth, so that what `init()` left can reach an answer:
  `SettledWhenAllHear` says when it does not.
* A simulated evaluation given up between two experiments, or at a step that ends
  one and begins the next, skips the next one as well. `RunsUnlessSwallowed` says
  exactly when. The test of the cart-pole has such a schedule (`END_EXP(100);
  NEW_EXP(100);`); its second experiment also starts without `_simu.init()`
  (`FreshSimu`).
* An individual that is loaded and evaluated again has its old value added to the
  new one (`EvaluatedAsScheduled` allows for it).
* A probabilistic sort in which every objective may be dropped could find nobody
  for the next front and fail its assertion. The experiments drop one objective at
  most (`SometimesAssumption`), and then it cannot: theorem `Progress`.
* `mvg.hpp:20` gives P200 a period of 100.

Bounds and why they are enough. `MaxCalls` is 2: state passes from one call to the
next only, and the inductive invariants say that nothing but the fitnesses does.
With 3 slaves and ranges of 0 to 4 individuals a call has fewer, as many and more
individuals than slaves, so each loop of `_master_loop` runs zero, one and several
times. Two threads can share, three individuals can be cut unevenly. The boxes of
`MCEpsMoea` hold a pair in one box, three mutually nondominated boxes, one that
dominates two of them and one dominated by all: every `case` of both dominance
checks is taken. The individuals of `MCNsga` make fronts that fit, fronts that are
cut, a first front larger than the population and a population of copies, with
ties in each objective and chains of dominance. The individuals of `MCMapElite` contain
a negative descriptor, one at 1.0 (the clamp) and one in the other row. Seven
generations hold three switches, one of them back to the first goal. The schedules
of `MCFitnessSimu` have experiments that follow at once, share a step, and leave a
gap, at the beginning too. Generations and epochs are unbounded in `EpsMoea`,
`Nsga`, `MapElite` and `DnnFF`; in `FitnessSimu` the schedule ends the run.
`MaxParallel` bounds the connections between the same two neurons, which make no
difference to any search. Three hidden neurons are the fewest with which
`_compute_depth()` is short by two, which its "add one to be sure" does not hide.

Symmetry is used for hidden neurons and outputs, in runs with invariants only.
`CHECK_DEADLOCK FALSE` is said only of `ea_run`, which stops after `NbGen`.

Fairness. `MpiEval` asks that a process whose next step is enabled takes it and
that the algorithm either evaluates again or ends: the code has no wait except
those in the guards. `TaskEval` asks that threads with work go on. `EpsMoea` and
`Nsga` ask that the sequential algorithm goes on, and `FitnessSimu` that the loops
of `eval()` do once it is called; nothing asks that it is called.

## 4. The proofs

TLAPS checks these for all values of the constants, from the named assumptions of
the modules only (at least one slave and one individual, `PopSize <= max_tag()`,
positive epsilons, finite disjoint sets of neurons, at most one objective with a
pressure below 1, experiments of a schedule that do not overlap, an even period and
an even number of offspring). What needs one input only says so (`Len(InputSeq) =
1`).

* `MpiEvalProofs`: `Invariance`. `IInv` adds to the properties what makes them
  inductive: a slave has at most one message in its channels and hands (`OneJob`),
  the individuals sent are those evaluated plus those held (`Ledger`), who is busy
  in each phase (`Crew`), and what holds between calls (`AtRest`). From it follow
  `NeverWaitsForNothing`, `WorkIsAccounted`, `SlavesExitClean`, the action property
  `ReceiptsAreNew`, `MpiImplementsBatch` (the initial states are initial states of
  `BatchEval` and each step is one of its steps or a stutter), and with it what the
  contract promises, `FitnessesAreFresh`.
* `TaskEvalProofs`: `Invariance`. `IInv` says that the pieces of the range, those
  not taken and those in the hands of the threads, are apart (`PiecesApart`), that
  everything still to do has a phenotype of its present genome once
  `ParallelEval` has developed it (`Developed`), and so has what a thread is about
  to evaluate (`ReadyIsDeveloped`). From it `ThreadsApart`, `DevelopedFirst` and
  `TasksImplementBatch`: cutting a range and taking a piece leave what is to do
  unchanged, an evaluation takes exactly one individual out of it.
* `EpsMoeaProofs`: `Invariance`. `IInv` adds that the offspring is apart from all
  elements before the iterator (`Placed`), and that the population is covered while
  the offspring is considered (`Covered`). From it `ArchiveStaysSpread`,
  `ArchiveNeverEmpty`, `FrontStaysPareto`, `CoverageNeverShrinks`,
  `ArchiveCoversPopulation`. Needed on the way: the dominance relations are
  transitive, and a dominance of objectives is at least an equality of boxes.
* `NsgaProofs`: `Invariance`. `IInv` says that the counters of those without a rank
  count their dominators without a rank or in the last front (`Counted`), that
  fronts and rest split the population (`Split`), and that the first front holds
  all that nobody can remove (`FirstFront`). `Progress` needs a maximal element of
  a finite strict order: for `sort_deb()` that of the dominance; for the
  probabilistic sort the relation "some draw lets y remove x", which with a single
  objective that may be dropped is still one (lexicographic on the others first).
  From it `Peeling`, `Dominance`, and the action properties `Elitism` and
  `BestKept`; the latter needs two places for each objective, since a first front
  that is cut keeps at least its extremes.
* `FitnessSimuProofs`: `Invariance`. `IInv` places the step in the schedule
  (`Placed`: the next end is that of experiment `_nb_exps + 1`), counts the calls of
  `init()`, and says which cuts the loops have noticed (`CutsSeen`). From it
  `Swallowing`, `Complete`, `Freshness`, `Asserted` (the assertion of `end_exp()`)
  and `NoneSkipped`: on a schedule without gaps and shared steps every experiment
  runs, wherever they are given up.
* `MapEliteProofs`: `Invariance`, `RejectionsStayFinal`, `ParentsStayHeld`,
  `MatesAreThere`, `ElitesInNiches`. The parents' property is inductive only with
  the same for the mates of the running epoch (`MatesHeld`).
* `NetworkProofs`, about `DnnFF`: `Invariance`, `NetworksStayFeedForward`,
  `NetworksStayWellFormed`. The predecessors of the source are closed under
  predecessors, so a new connection that leads out of them cannot close a cycle;
  "acyclic" is said without paths (every set of neurons has one that none of the set
  leads into). `DepthOfFreshPaths`: what `_compute_depth()` misses are only paths to
  an output that an earlier input reaches, so with one input it misses none
  (`DepthOfOneInput`). Needed on the way: the recursion of `AtDistance` has a
  solution; along a path the sets of predecessors grow, so that no path has as many
  connections as there are neurons; the search backwards (`Preds`) and the one
  forwards (`Found`) agree; a path to a neuron that is not black passes no black one.
* `NetworkProofs`, about `NnStep`: `EvalInvariance`. `EvalInv` says how far
  everything has come: the pattern has reached all that are no farther from an input
  than there were steps (`PatternSpreads`), what is left of an earlier one, or of
  `init()`, is only where a path of at least as many connections leads (`OldIsFar`,
  `InitialIsFar`). With the depth of a first input follow `OutputsHearInputs`, for
  every network, and, where all paths are shorter than the depth,
  `DeepNetworksForget` and `DeepNetworksSettle`; `OneInputForgets` puts the two
  modules together.
* `EaRunProofs`: `Invariance`. `IInv` says which goal each point of a generation has
  (`GoalOfGeneration`) and that the population is sorted for it where the statistic
  reads it (`SortedOnGoal`). From it `BestIsDumped`, `SwitchesComeAfterDumps` and the
  action property `BestOfKeptStays`. Needed on the way: quotients and remainders from
  one number to the next, and that the odd greatest `size_t` is no multiple of an
  even period.

Induction over data is done without the theorems of the library that take a
predicate: a nonempty set of numbers has a least element (`LeastElement`), so the set
of the numbers for which a claim holds is all of them if it is closed under
successors (`UpToAll`).

Each invariant (`IInv`, `EvalInv`) was checked by TLC before it was proved, and still
is in the runs; the types are its first conjunct.
What a reader may want on its own (no archive is empty, slaves exit clean, mates
are there, an elite is in its niche, fronts are not empty) is a theorem; the runs
check it as a conjunct or a consequence of `IInv`.
Model-checked only is liveness (`CallReturns`, `AllLeave`, `EpochEnds`, `EvalEnds`):
the prover has neither `ENABLED` nor fairness. What it can show is the two facts a
proof of liveness rests on. One is that nothing goes on for ever: `CallsAreFinite` (of
the MPI and of the threaded evaluators), `LeavingIsFinite`, `EpochsAreFinite`,
`RankingsAreFinite` and `EvaluationsAreFinite` give a measure, a natural number, a
finite set or a lexicographic tuple of numbers, that every step lowers until the
call, the run, the epoch, the ranking or the evaluation is over. The other, where several processes wait for
each other, is that nobody waits for ever: `NeverStuck` says that in every state of
the MPI evaluator some process has what the guard of its next action asks for, if the
"bye" is buffered. The guards are written out there (`MasterMoves`, `SlaveMoves`)
since `ENABLED` cannot be expanded. Every invariant and every action property of the
passing runs is a theorem or a conjunct of the inductive invariant that is; so are
the two refinements.

## 5. Not modelled, and why

* CMA-ES and the measures of modularity and hierarchy: numeric code over external
  libraries. Activation functions, weights, real-valued mutation and the distances
  of the diversity modifiers: arithmetic on floats, which TLC has not.
* Vector genomes and `phen/`: one call changes one vector and keeps no state
  between calls, so there is no interleaving or history to explore.
* `load()`, `show_stat()`, drawing and file formats: they run
  instead of `run()`, on one object; what serialisation loses is in `FitnessSimu`.
* Mutation of recurrent networks in `gen_dnn.hpp`, `simplify_noremoval()`, subnets,
  layers: `andxorand.cpp`, whose evaluation `NnStep` models, evolves `DnnFF`.
* `exp/modularity/gen_spatial.hpp`: nearly all programs under `exp/modularity`
  and `exp/map_elite` evolve its `DnnSpatial` (the copy of `andxorand.cpp` there
  too, line 935), a genome of layers whose connections lead from a layer to the
  next and whose depth is the constant `nb_layers() + 1`. They evaluate a network
  with the same loop of `get_depth()` steps for each pattern; what `_compute_depth()`
  may miss does not concern them.
* The gradual switch and the built-in diversity of `mvg.hpp` (`GRAD`, `DIV`).
* A world of one MPI process, a tag equal to `max_tag()`, odd numbers of offspring,
  a dump period of zero: excluded by named assumptions, which the code does not
  check.
* The hundred-odd experiment programs beyond their common loop are near-identical
  copies that differ in error measures and constants; `exp/deep_learning` (an Atari
  emulator and tools), `network_toolbox`, waf, `dbg`, and build results are vendored.
  They are nearly all of the repository's lines, so the share of the lines that the
  modules cover stays small, although the core of the framework is covered.

Possible continuations: the layered genome, `gen_dnn.hpp` for recurrent networks, `load()` and resuming
from a dump, and that the end of a NSGA-II epoch always finds a front to cut.
