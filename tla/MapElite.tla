------------------------------ MODULE MapElite -----------------------------
(***************************************************************************)
(* exp/map_elite/map_elite.hpp: MAP-Elites, a grid of cells that keeps one *)
(* individual for each cell of the descriptor space and the parent that    *)
(* each of them was bred from.                                             *)
(*                                                                         *)
(* An individual is the record of what the algorithm reads of its fitness: *)
(* value(), mod() and the two descriptors.  A descriptor is an integer     *)
(* number of half cells: 2 * Side stands for 1.0.                          *)
(***************************************************************************)
EXTENDS Integers

CONSTANTS
  Side,      \* res_x and res_y
  Indivs,    \* the individuals that mutation can produce
  None,      \* the null pointer of a cell that is still free
  InitSize,  \* Params::pop::init_size
  PopSize    \* Params::pop::size, half the offspring of an epoch

ASSUME SideAssumption == Side \in Nat \ {0}
ASSUME IndivsAssumption ==
  /\ Indivs \subseteq [value : Int, mod : Int, desc : Int \X Int]
  /\ None \notin Indivs
ASSUME SizeAssumption == InitSize \in Nat \ {0} /\ PopSize \in Nat \ {0}

Coord == 0 .. (Side - 1)
Cells == Coord \X Coord

VARIABLES
  pc,       \* "start", "first" or "file" (the loops that fill the grid), "idle"
  array,    \* _array
  parents,  \* _array_parents
  mates,    \* the members of _array when the epoch began
  left      \* individuals not filed yet

vars == <<pc, array, parents, mates, left>>

Smaller(a, b) == IF a < b THEN a ELSE b

(* min(1.0f, desc), round() away from zero, then a conversion to size_t and *)
(* min(res - 1).  The conversion of a negative float is undefined: it wraps *)
(* around to a huge number (x86-64) or saturates at zero (ARM).             *)
Coords(d) ==
  IF d < 0 THEN {0, Side - 1}
  ELSE {Smaller((Smaller(d, 2 * Side) + 1) \div 2, Side - 1)}

CellsOf(x) == Coords(x.desc[1]) \X Coords(x.desc[2])

(* an offspring takes a cell when it is better in both, strictly *)
Beats(x, y) == x.value > y.value /\ x.mod < y.mod

Filled == {c \in Cells : array[c] # None}
Elites == {array[c] : c \in Filled}

Init ==
  /\ pc = "start"
  /\ array = [c \in Cells |-> None]
  /\ parents = [c \in Cells |-> None]
  /\ mates = {}
  /\ left = 0

RandomPop ==
  /\ pc = "start"
  /\ left' = InitSize
  /\ pc' = "first"
  /\ UNCHANGED <<array, parents, mates>>

(* _pop becomes the list of the elites, Params::pop::size pairs are bred *)
Epoch ==
  /\ pc = "idle"
  /\ mates' = Elites
  /\ left' = 2 * PopSize
  /\ pc' = "file"
  /\ UNCHANGED <<array, parents>>

(* Mutants: better in one is enough, every offspring is taken, the parent   *)
(* is not noted.                                                            *)
AddWith(x, parent, Takes(_, _), newParent) ==
  \E c \in CellsOf(x) :
    IF array[c] = None \/ Takes(x, array[c])
    THEN /\ array' = [array EXCEPT ![c] = x]
         /\ parents' = [parents EXCEPT ![c] = newParent]
    ELSE UNCHANGED <<array, parents>>
BetterInOne(x, y) == x.value > y.value \/ x.mod < y.mod
Always(x, y) == TRUE
AddBetterInOne(x, parent) == AddWith(x, parent, BetterInOne, parent)
AddAlways(x, parent) == AddWith(x, parent, Always, parent)
AddOrphan(x, parent) == AddWith(x, parent, Beats, None)

(* _add_to_archive() *)
AddToArchive(x, parent) ==
  \E c \in CellsOf(x) :
    IF array[c] = None \/ Beats(x, array[c])
    THEN /\ array' = [array EXCEPT ![c] = x]
         /\ parents' = [parents EXCEPT ![c] = parent]
    ELSE UNCHANGED <<array, parents>>

File(x, parent) ==
  /\ left > 0
  /\ AddToArchive(x, parent)
  /\ left' = left - 1
  /\ UNCHANGED <<pc, mates>>

(* random_pop(): every individual is its own parent *)
FileFirst == pc = "first" /\ \E x \in Indivs : File(x, x)

(* epoch(): _selection() draws the parent from the elites it began with *)
FileOffspring == pc = "file" /\ \E x \in Indivs, p \in mates : File(x, p)

EndEpoch ==
  /\ pc \in {"first", "file"} /\ left = 0
  /\ pc' = "idle"
  /\ UNCHANGED <<array, parents, mates, left>>

Next == RandomPop \/ Epoch \/ FileFirst \/ FileOffspring \/ EndEpoch

Spec == Init /\ [][Next]_vars

-----------------------------------------------------------------------------
TypeOK ==
  /\ pc \in {"start", "first", "file", "idle"}
  /\ array \in [Cells -> Indivs \cup {None}]
  /\ parents \in [Cells -> Indivs \cup {None}]
  /\ mates \subseteq Indivs
  /\ left \in Nat

(* A rejection is final: what could not have taken a cell before a step     *)
(* cannot take it afterwards, so the order in which the offspring of an     *)
(* epoch are filed never lets a worse individual back in.                   *)
Final ==
  \A c \in Filled :
    array'[c] # None /\ \A z \in Indivs : Beats(z, array'[c]) => Beats(z, array[c])
RejectionsAreFinal == [][Final]_vars

(* The map of the parents can be drawn (stat_map.hpp:86): an elite has a    *)
(* parent, the parent's own niche is still held, by an individual that the  *)
(* parent could not replace.                                                *)
Held(x) == \E c \in CellsOf(x) : array[c] # None /\ ~ Beats(x, array[c])
ParentNicheHeld ==
  \A c \in Cells :
    /\ array[c] = None <=> parents[c] = None
    /\ parents[c] # None => Held(parents[c])

(* An epoch never breeds from an empty list: _selection() draws an index    *)
(* below pop.size(), which rand() cannot do for zero.                       *)
SelectionHasMates ==
  /\ pc = "idle" => Elites # {}
  /\ pc = "file" => mates # {}

(* Every elite is in a cell of its own descriptors, whatever was done to    *)
(* the grid since.                                                          *)
InItsNiche == \A c \in Filled : c \in CellsOf(array[c])

(* The inductive invariant: the mates of the running epoch are held too,    *)
(* although the grid they were read from changes while it runs.             *)
MatesHeld == \A p \in mates : Held(p)
FirstFills == pc = "first" => left = InitSize \/ Filled # {}
IInv ==
  TypeOK /\ ParentNicheHeld /\ SelectionHasMates /\ InItsNiche /\ MatesHeld /\ FirstFills

(* fit_map.hpp:51 lets a negative modularity in, as a legal descriptor: a   *)
(* network of negative modularity is then not among the most modular.       *)
NegativeIsNotMost ==
  \A c \in Filled : Side > 1 /\ array[c].desc[1] < 0 => c[1] # Side - 1
=============================================================================
