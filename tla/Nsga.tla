-------------------------------- MODULE Nsga --------------------------------
(***************************************************************************)
(* sferes/ea/nsga2.hpp and exp/modularity/pnsga.hpp: the generations of    *)
(* NSGA-II and of its probabilistic variant, in which an objective counts  *)
(* in a comparison only now and then.  Parents and offspring are ranked in *)
(* fronts (dom_sort.hpp, dom_sort_basic.hpp), the best fronts survive, and *)
(* the front that does not fit is cut by crowding (crowd.hpp).             *)
(*                                                                         *)
(* An individual is one of a finite set, with a constant vector of         *)
(* objectives; several may have the same vector.  A ranking takes a step   *)
(* for each front.                                                         *)
(***************************************************************************)
EXTENDS Integers, Sequences, FiniteSets

CONSTANTS
  Indivs,     \* the individuals that can be bred
  NbObjs,     \* fit().objs().size()
  Obj,        \* Obj[x][m]: objective m of x, greater is better
  Size,       \* Params::pop::size
  InitSize,   \* size * initial_aleat
  Sometimes,  \* the objectives with a pressure below 1 (pnsga only)
  Algos       \* the algorithms explored

Objs == 1 .. NbObjs

ASSUME ObjAssumption ==
  /\ NbObjs \in Nat \ {0}
  /\ Obj \in [Indivs -> [Objs -> Int]]
  /\ IsFiniteSet(Indivs)
ASSUME SizeAssumption == Size \in Nat \ {0} /\ InitSize \in Nat /\ InitSize >= Size
ASSUME SometimesAssumption ==
  Sometimes \subseteq Objs /\ \A i, j \in Sometimes : i = j
ASSUME AlgosAssumption == Algos \subseteq {"nsga2", "pnsga"}

VARIABLES
  algo,     \* the class that runs
  pc,       \* "start", "first" and "rank" (two uses of _rank_crowd()), "idle"
  parents,  \* _parent_pop, which is also _pop between two epochs
  mixed,    \* the population that is being ranked
  rest,     \* those of mixed without a rank yet
  fronts,   \* the fronts found so far
  n,        \* n[x]: how many unranked individuals dominate x (sort_deb)
  front     \* _pareto_front

vars == <<algo, pc, parents, mixed, rest, fronts, n, front>>

----------------------------------------------------------------------------
(* Dominance: once on all objectives, once on those that a comparison of    *)
(* pnsga happened to consider.                                              *)
Over(x, y, considered) ==
  /\ \E m \in considered : Obj[x][m] > Obj[y][m]
  /\ \A m \in considered : Obj[x][m] >= Obj[y][m]

Dominates(x, y) == Over(x, y, Objs)

Draws == {Objs \ dropped : dropped \in SUBSET Sometimes}

(* A mutant: one individual that does not dominate it is enough to stay. *)
PossibleForOne(S) == {x \in S : \E y \in S : \E d \in Draws : ~ Over(y, x, d)}

(* Within a round of pnsga each comparison draws anew: those that no draw   *)
(* can remove stay, those that every draw removes leave, chance has the     *)
(* others.                                                                  *)
Safe(S) == {x \in S : \A y \in S : \A d \in Draws : ~ Over(y, x, d)}
Possible(S) == {x \in S : \A y \in S : \E d \in Draws : ~ Over(y, x, d)}

(* dom_sort_basic() with a dominance that draws nothing. *)
NonDominated(S) == {x \in S : \A y \in S : ~ Dominates(y, x)}

LastFront == IF fronts = <<>> THEN {} ELSE fronts[Len(fronts)]
UpTo(j) == UNION {fronts[i] : i \in 1 .. j}
Ranked == UpTo(Len(fronts))

(* A mutant: a front lowers a counter once, not once for each dominator. *)
LoweredOnce ==
  [x \in Indivs |-> n[x] - IF \E p \in LastFront : Dominates(p, x) THEN 1 ELSE 0]

(* The counters once the individuals of the last front are accounted for. *)
Lowered ==
  [x \in Indivs |-> n[x] - Cardinality({p \in LastFront : Dominates(p, x)})]

----------------------------------------------------------------------------
(* Crowding.  For each objective the first and the last of the sorted front *)
(* get an infinite distance: any of those that tie for these places.        *)
Ends(F, m) ==
  {p \in F \X F :
     /\ \A x \in F : Obj[p[1]][m] >= Obj[x][m] /\ Obj[x][m] >= Obj[p[2]][m]
     /\ p[1] = p[2] => F = {p[1]}}

OneForEach(ends) ==
  {UNION {e[m] : m \in Objs} :
     e \in {g \in [Objs -> UNION {ends[m] : m \in Objs}] :
              \A m \in Objs : g[m] \in ends[m]}}

Extremes(F) ==
  UNION {OneForEach(ends) :
           ends \in {[m \in Objs |-> {{p[1], p[2]} : p \in Ends(F, m)}]}}

(* A mutant: the front is sorted with the least crowded last. *)
CutAnywhere(F, k) == {T \in SUBSET F : Cardinality(T) = k}

(* A mutant: one place too many is filled. *)
CutOneMore(F, k) == {T \in SUBSET F : Cardinality(T) = k + 1 \/ T = F}

(* The k least crowded of a front: extremes first, the others by a distance *)
(* that is left open.                                                       *)
Cut(F, k) ==
  LET ends == Extremes(F)
  IN  {T \in SUBSET F :
         /\ Cardinality(T) = k
         /\ \E E \in ends : E \subseteq T \/ T \subseteq E}

----------------------------------------------------------------------------
(* The entry of _rank_crowd(); sort_deb() first counts dominators. *)
StartRank(P) ==
  /\ mixed' = P
  /\ rest' = P
  /\ fronts' = <<>>
  /\ n' = IF algo = "pnsga" THEN n
          ELSE [x \in Indivs |-> IF x \in P
                                 THEN Cardinality({q \in P : Dominates(q, x)})
                                 ELSE 0]

Init ==
  /\ algo \in Algos
  /\ pc = "start"
  /\ parents = {} /\ mixed = {} /\ rest = {} /\ front = {}
  /\ fronts = <<>>
  /\ n = [x \in Indivs |-> 0]

RandomPop ==
  /\ pc = "start"
  /\ \E P \in SUBSET Indivs : Cardinality(P) = InitSize /\ StartRank(P)
  /\ pc' = "first"
  /\ UNCHANGED <<algo, parents, front>>

(* load_and_run() of pnsga: the population is Size copies of the individual *)
(* that an earlier run wrote.                                               *)
LoadAndRun ==
  /\ algo = "pnsga" /\ pc = "start"
  /\ \E P \in SUBSET Indivs :
       /\ Cardinality(P) = Size
       /\ \A x, y \in P : Obj[x] = Obj[y]
       /\ StartRank(P)
  /\ pc' = "first"
  /\ UNCHANGED <<algo, parents, front>>

(* epoch() up to the ranking: tournaments, crossover and mutation make as   *)
(* many offspring as there are parents; their fitness is that of Obj.       *)
Breed ==
  /\ pc = "idle"
  /\ \E children \in SUBSET (Indivs \ parents) :
       /\ Cardinality(children) = Cardinality(parents)
       /\ StartRank(parents \cup children)
  /\ front' = {}
  /\ pc' = "rank"
  /\ UNCHANGED <<algo, parents>>

(* Both sorts stop at an empty front: sort_deb() leaves its loop, and       *)
(* dom_sort_basic() fails its assertion.                                    *)
Ranking ==
  pc \in {"first", "rank"} /\ rest # {} /\ (fronts # <<>> => LastFront # {})

NextFront(F) ==
  /\ fronts' = Append(fronts, F)
  /\ rest' = rest \ F
  /\ UNCHANGED <<algo, pc, parents, mixed, front>>

(* sort_deb(): the next layer are those whose last dominator has a rank. *)
Layer ==
  /\ algo = "nsga2" /\ Ranking
  /\ n' = Lowered
  /\ NextFront({x \in rest : Lowered[x] = 0})

(* dom_sort_basic() with prob_dom_f. *)
Round ==
  /\ algo = "pnsga" /\ Ranking
  /\ \E lucky \in SUBSET (Possible(rest) \ Safe(rest)) :
       NextFront(Safe(rest) \cup lucky)
  /\ UNCHANGED n

(* random_pop() ranks, then _fill_nondominated_sort() ranks again. *)
Rerank ==
  /\ pc = "first" /\ rest = {}
  /\ front' = fronts[1]
  /\ StartRank(mixed)
  /\ pc' = "rank"
  /\ UNCHANGED <<algo, parents>>

(* _update_pareto_front(), then the end of _fill_nondominated_sort(): whole *)
(* fronts as long as they leave a place free, then a part of the next one.  *)
Fill ==
  /\ pc = "rank" /\ rest = {}
  /\ front' = fronts[1]
  /\ \E j \in 1 .. Len(fronts) :
       /\ Cardinality(UpTo(j - 1)) < Size
       /\ Cardinality(UpTo(j)) >= Size
       /\ \E T \in Cut(fronts[j], Size - Cardinality(UpTo(j - 1))) :
            parents' = UpTo(j - 1) \cup T
  /\ pc' = "idle"
  /\ mixed' = {} /\ fronts' = <<>>
  /\ UNCHANGED <<algo, rest, n>>

Next == RandomPop \/ LoadAndRun \/ Breed \/ Layer \/ Round \/ Rerank \/ Fill

Spec == Init /\ [][Next]_vars
FairSpec == Spec /\ WF_vars(Next)

----------------------------------------------------------------------------
Beats(y, x) ==
  IF algo = "pnsga" THEN \E d \in Draws : Over(y, x, d) ELSE Dominates(y, x)

AlwaysCount == IF algo = "pnsga" THEN Objs \ Sometimes ELSE Objs

SureOver(x, y) ==
  IF algo = "pnsga" THEN \A d \in Draws : Over(x, y, d) ELSE Dominates(x, y)

(* Both sorts progress: as long as somebody has no rank the next front is   *)
(* not empty (the assertions of dom_sort.hpp:130,160, dom_sort_basic.hpp:90 *)
(* and crowd.hpp:72).                                                       *)
RoundsProgress == \A i \in 1 .. Len(fronts) : fronts[i] # {}

(* sort_deb() computes with its counters what dom_sort_basic() computes by  *)
(* peeling, which is what tests/ea/dom_sort.cpp compares: a front is what   *)
(* is not dominated among those of no earlier front.                        *)
Peeled ==
  algo = "nsga2" =>
    \A i \in 1 .. Len(fronts) : fronts[i] = NonDominated(mixed \ UpTo(i - 1))

(* The fronts respect a dominance that no draw can hide: who is dominated   *)
(* comes in a later front, or has no rank yet.                              *)
FrontsRespectDominance ==
  \A i \in 1 .. Len(fronts) :
    \A y \in fronts[i], x \in mixed : SureOver(x, y) => x \in UpTo(i - 1)

TypeOK ==
  /\ algo \in Algos
  /\ pc \in {"start", "first", "rank", "idle"}
  /\ parents \subseteq Indivs /\ mixed \subseteq Indivs /\ front \subseteq Indivs
  /\ rest \subseteq mixed
  /\ fronts \in Seq(SUBSET mixed)
  /\ n \in [Indivs -> Int]

(* Everybody has one rank or none yet. *)
Split ==
  /\ mixed = rest \cup Ranked
  /\ rest \cap Ranked = {}
  /\ \A i \in 1 .. Len(fronts) : fronts[i] \cap UpTo(i - 1) = {}
  /\ pc \in {"first", "rank"} => mixed # {}

(* The first front has all those that no draw can remove. *)
FirstFront ==
  fronts # <<>> =>
    \A x \in mixed : (\A y \in mixed : ~ Beats(y, x)) => x \in fronts[1]

(* The counters of sort_deb() lag by the last front. *)
Counted ==
  algo = "nsga2" /\ pc \in {"first", "rank"} =>
    \A x \in rest :
      n[x] = Cardinality({p \in rest \cup LastFront : Dominates(p, x)})

(* Between two epochs there are Size parents, and the front kept for the    *)
(* statistics contains them all or is made of some of them.                 *)
AtRest ==
  pc = "idle" =>
    /\ Cardinality(parents) = Size
    /\ parents \subseteq front \/ front \subseteq parents

(* What the proofs rest on: the counters agree with the fronts, the fronts  *)
(* with the ranked population, and each epoch leaves its survivors.         *)
IInv ==
  /\ TypeOK /\ Split /\ RoundsProgress /\ Peeled /\ FrontsRespectDominance
  /\ FirstFront /\ Counted /\ AtRest

(* An epoch drops nobody who surely dominates a survivor, although the last *)
(* places are given by crowding alone.                                      *)
NoBetterDropped ==
  [][Fill => \A x \in mixed \ parents', y \in parents' : ~ SureOver(x, y)]_vars

(* The best value of an objective that always counts is never lost, since   *)
(* both ends of the first front have an infinite crowding distance.         *)
BestNeverLost ==
  [][Fill =>
       \A m \in AlwaysCount :
         \A x \in mixed : \E z \in parents' : Obj[z][m] >= Obj[x][m]]_vars

(* Every ranking ends: the next generation always comes. *)
EpochEnds == pc = "rank" ~> pc = "idle"
=============================================================================
