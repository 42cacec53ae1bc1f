------------------------------ MODULE EpsMoea ------------------------------
(***************************************************************************)
(* sferes/ea/eps_moea.hpp: the steady-state epsilon-MOEA, its population   *)
(* and its archive (elite) of epsilon-nondominated individuals.            *)
(*                                                                         *)
(* An individual is abstracted to its vector of objectives: nothing else   *)
(* of it is read by this algorithm, and crossover and mutation can produce *)
(* any vector.  Objectives are integers; the box of a vector is computed   *)
(* with the same ceiling as in the code.                                   *)
(***************************************************************************)
EXTENDS Integers, Sequences, SequencesExt

CONSTANTS
  NbObjs,    \* eps_size(), the number of objectives
  Objs,      \* the objective vectors an individual may have
  Eps,       \* Params::pop::eps
  MinFit,    \* Params::pop::min_fit
  PopSize,   \* Params::pop::size
  Grain      \* Params::pop::grain, half the offspring of an epoch

Dim == 1 .. NbObjs

ASSUME ObjsAssumption == NbObjs \in Nat \ {0} /\ Objs \subseteq [Dim -> Int]
ASSUME EpsAssumption == Eps \in [Dim -> Nat \ {0}] /\ MinFit \in [Dim -> Int]
ASSUME SizeAssumption == PopSize \in Nat \ {0} /\ Grain \in Nat \ {0}

Index == 0 .. (PopSize - 1)

VARIABLES
  pc,       \* "begin", "next" offspring, "scan" the archive, "same_box", "epoch"
  pop,      \* _pop
  archive,  \* pop_e, in the order of the list
  front,    \* _pareto_front
  left,     \* offspring not considered yet in this epoch
  initial,  \* in random_pop(), where pop_acceptance() is not asked
  ind,      \* the offspring proposed to the archive
  it        \* position in the archive

vars == <<pc, pop, archive, front, left, initial, ind, it>>

(* check_dominance(): 1 is Dominates(a, b), -1 is Dominates(b, a) *)
Dominates(a, b) ==
  /\ \A d \in Dim : a[d] >= b[d]
  /\ \E d \in Dim : a[d] > b[d]

(* make_identification_vector(): ceil((obj - min_fit) / eps) *)
Box(o) == [d \in Dim |-> - ((MinFit[d] - o[d]) \div Eps[d])]

(* A mutant: flag2 is not looked at. *)
BoxDominatesSomewhere(a, b) == \E d \in Dim : Box(a)[d] > Box(b)[d]

(* check_box_dominance() *)
BoxDominates(a, b) == Dominates(Box(a), Box(b))
SameBox(a, b) == Box(a) = Box(b)
Apart(a, b) == ~ BoxDominates(a, b) /\ ~ BoxDominates(b, a) /\ ~ SameBox(a, b)

(* dist_to_id(): squared distance of the objectives to the box numbers *)
DistToId(o) ==
  FoldFunction(LAMBDA x, sum : x + sum, 0,
               [d \in Dim |-> (o[d] - Box(o)[d]) * (o[d] - Box(o)[d])])

(* _pop is empty before random_pop(), which reads nothing of it: any value  *)
(* does for pop and ind.                                                    *)
Init ==
  /\ pc = "begin"
  /\ pop \in {[i \in Index |-> o] : o \in Objs}
  /\ archive = <<>>
  /\ front = <<>>
  /\ left = 0
  /\ initial = TRUE
  /\ ind = pop[0]
  /\ it = 1

(* random_pop() up to the loop on the population *)
RandomPop ==
  /\ pc = "begin"
  /\ pop' \in [Index -> Objs]
  /\ archive' = <<pop'[0]>>
  /\ left' = PopSize
  /\ pc' = "next"
  /\ UNCHANGED <<front, initial, ind, it>>

(* epoch() up to the loop on the offspring *)
Epoch ==
  /\ pc = "epoch"
  /\ left' = 2 * Grain
  /\ pc' = "next"
  /\ UNCHANGED <<pop, archive, front, initial, ind, it>>

(* A mutant: the scan begins with the second element. *)
ProposeFromSecond(o) ==
  /\ left > 0
  /\ left' = left - 1
  /\ ind' = o
  /\ it' = 2
  /\ UNCHANGED <<archive, front, initial>>

Propose(o) ==
  /\ left > 0
  /\ left' = left - 1
  /\ ind' = o
  /\ it' = 1
  /\ UNCHANGED <<archive, front, initial>>

(* random_pop(): archive_acceptance() of each member of the population      *)
NextMember ==
  /\ pc = "next" /\ initial
  /\ Propose(pop[PopSize - left])
  /\ pc' = "scan"
  /\ UNCHANGED pop

(* pop_acceptance() = false: a member of the population dominates it *)
Refuse(o) ==
  /\ pc = "next" /\ ~ initial
  /\ \E k \in Index : Dominates(pop[k], o)
  /\ Propose(o)
  /\ UNCHANGED <<pc, pop>>

(* pop_acceptance() = true: it takes the place of one it dominates, if any *)
Accept(o) ==
  /\ pc = "next" /\ ~ initial
  /\ \A k \in Index : ~ Dominates(pop[k], o)
  /\ Propose(o)
  /\ LET beaten == {k \in Index : Dominates(o, pop[k])} IN
       \E k \in (IF beaten # {} THEN beaten ELSE Index) :
         pop' = [pop EXCEPT ![k] = o]
  /\ pc' = "scan"

(* Mutants of the loop: an erased element is stepped over, or a different   *)
(* box does not move the iterator.                                          *)
ScanWith(erased, apart) ==
  /\ pc = "scan"
  /\ it \in 1 .. Len(archive)
  /\ \/ /\ BoxDominates(ind, archive[it])
        /\ archive' = RemoveAt(archive, it)
        /\ it' = it + erased
        /\ UNCHANGED pc
     \/ /\ BoxDominates(archive[it], ind)
        /\ pc' = "next"
        /\ UNCHANGED <<archive, it>>
     \/ /\ Apart(ind, archive[it])
        /\ it' = it + apart
        /\ UNCHANGED <<pc, archive>>
     \/ /\ SameBox(ind, archive[it])
        /\ pc' = "same_box"
        /\ UNCHANGED <<archive, it>>
  /\ UNCHANGED <<pop, front, left, initial, ind>>
ScanSkips == ScanWith(1, 1)
ScanStays == ScanWith(0, 0)

(* archive_acceptance(): one turn of the do-while loop *)
Scan ==
  /\ pc = "scan"
  /\ it \in 1 .. Len(archive)
  /\ \/ /\ BoxDominates(ind, archive[it])
        /\ archive' = RemoveAt(archive, it)
        /\ UNCHANGED <<pc, it>>
     \/ /\ BoxDominates(archive[it], ind)
        /\ pc' = "next"
        /\ UNCHANGED <<archive, it>>
     \/ /\ Apart(ind, archive[it])
        /\ it' = it + 1
        /\ UNCHANGED <<pc, archive>>
     \/ /\ SameBox(ind, archive[it])
        /\ pc' = "same_box"
        /\ UNCHANGED <<archive, it>>
  /\ UNCHANGED <<pop, front, left, initial, ind>>

(* the loop has passed the end: the offspring has a box of its own *)
NewBox ==
  /\ pc = "scan"
  /\ it > Len(archive)
  /\ archive' = Append(archive, ind)
  /\ pc' = "next"
  /\ UNCHANGED <<pop, front, left, initial, ind, it>>

(* A mutant: the winner is not added. *)
ContestLost ==
  /\ pc = "same_box"
  /\ archive' =
       IF \/ Dominates(ind, archive[it])
          \/ ~ Dominates(archive[it], ind) /\ DistToId(ind) <= DistToId(archive[it])
       THEN RemoveAt(archive, it)
       ELSE archive
  /\ pc' = "next"
  /\ UNCHANGED <<pop, front, left, initial, ind, it>>

(* the offspring shares the box of archive[it]: one of them stays *)
Contest ==
  /\ pc = "same_box"
  /\ archive' =
       IF \/ Dominates(ind, archive[it])
          \/ ~ Dominates(archive[it], ind) /\ DistToId(ind) <= DistToId(archive[it])
       THEN Append(RemoveAt(archive, it), ind)
       ELSE archive
  /\ pc' = "next"
  /\ UNCHANGED <<pop, front, left, initial, ind, it>>

(* A mutant: the front of the epoch before is not cleared. *)
SyncUncleared ==
  /\ pc = "next" /\ left = 0
  /\ front' = front \o archive
  /\ initial' = FALSE
  /\ pc' = "epoch"
  /\ UNCHANGED <<pop, archive, left, ind, it>>

(* sync_archive(), the end of random_pop() and of epoch() *)
Sync ==
  /\ pc = "next" /\ left = 0
  /\ front' = archive
  /\ initial' = FALSE
  /\ pc' = "epoch"
  /\ UNCHANGED <<pop, archive, left, ind, it>>

InEpoch ==
  \/ RandomPop
  \/ NextMember
  \/ \E o \in Objs : Refuse(o) \/ Accept(o)
  \/ Scan
  \/ NewBox
  \/ Contest
  \/ Sync

Next == InEpoch \/ Epoch

Spec == Init /\ [][Next]_vars

(* The algorithm is sequential: it goes on until the epoch is over.         *)
FairSpec == Spec /\ WF_vars(InEpoch)

-----------------------------------------------------------------------------
TypeOK ==
  /\ pc \in {"begin", "next", "scan", "same_box", "epoch"}
  /\ pop \in [Index -> Objs]
  /\ archive \in Seq(Objs)
  /\ front \in Seq(Objs)
  /\ left \in Nat
  /\ initial \in BOOLEAN
  /\ ind \in Objs
  /\ it \in Nat \ {0}

(* No archived individual epsilon-dominates another or shares its box, at   *)
(* any moment, even while archive_acceptance() erases and appends.          *)
ArchiveSpread ==
  \A i, j \in DOMAIN archive : i # j => Apart(archive[i], archive[j])

(* The do-while loop and archive_selection() need a non-empty archive.      *)
ArchiveNonEmpty == pc \in {"next", "same_box", "epoch"} => archive # <<>>

(* What the statistics get at the end of an epoch is a Pareto front of the  *)
(* real objectives and the archive itself (sync_archive).                   *)
FrontIsPareto ==
  /\ \A i, j \in DOMAIN front : ~ Dominates(front[i], front[j])
  /\ pc = "epoch" => front = archive

(* A box once reached stays reached or epsilon-dominated for ever: what is  *)
(* erased is replaced by something at least as good in every box number,    *)
(* the offspring included while archive_acceptance() considers it.          *)
AtLeast(a, b) == \A d \in Dim : Box(a)[d] >= Box(b)[d]
Reached == {archive[i] : i \in DOMAIN archive}
           \cup (IF pc \in {"scan", "same_box"} THEN {ind} ELSE {})
Grows == \A x \in Reached : \E y \in Reached' : AtLeast(y, x)
CoverageGrows == [][Grows]_vars

(* Nothing of the population is better than the whole archive: what         *)
(* pop_acceptance() lets in, archive_acceptance() answers with a box that   *)
(* is at least as good, although the two sets decide by different rules.    *)
PopCovered ==
  ~ initial => \A k \in Index : \E y \in Reached : AtLeast(y, pop[k])

(* The inductive invariant, checked by TLC before it is proved.             *)
Counted ==
  /\ pc = "begin" => initial /\ archive = <<>>
  /\ pc = "epoch" => ~ initial
  /\ initial => left <= PopSize
Placed ==
  /\ pc \in {"scan", "same_box"} =>
       \A i \in DOMAIN archive : i < it => Apart(ind, archive[i])
  /\ pc = "same_box" => it \in DOMAIN archive /\ SameBox(ind, archive[it])
Covered ==
  pc # "begin" =>
    \A k \in Index :
      (initial => k < PopSize - left) => \E y \in Reached : AtLeast(y, pop[k])
IInv ==
  TypeOK /\ ArchiveSpread /\ ArchiveNonEmpty /\ Counted /\ Placed /\ Covered

(* Each epoch ends: the scan, which erases while it advances, terminates.   *)
EpochEnds == (pc # "epoch") ~> (pc = "epoch")
=============================================================================
