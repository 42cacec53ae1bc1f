-------------------------- MODULE MapEliteProofs ---------------------------
(* MAP-Elites on a grid of any size, with any individuals and any number of *)
(* epochs.                                                                  *)
EXTENDS MapElite, TLAPS

-----------------------------------------------------------------------------
(* Beats is a strict order, and a cell only changes hands along it.         *)

LEMMA BeatsOrder ==
  ASSUME NEW x \in Indivs, NEW y \in Indivs, NEW z \in Indivs
  PROVE  /\ ~ Beats(x, x)
         /\ Beats(x, y) /\ Beats(y, z) => Beats(x, z)
<1>1. /\ x.value \in Int /\ y.value \in Int /\ z.value \in Int
      /\ x.mod \in Int /\ y.mod \in Int /\ z.mod \in Int
  BY IndivsAssumption
<1> QED
  BY <1>1 DEF Beats

LEMMA CellsOfType ==
  ASSUME NEW x \in Indivs
  PROVE  CellsOf(x) \subseteq Cells
<1>1. ASSUME NEW d \in Int
      PROVE  Coords(d) \subseteq Coord
  <2>1. CASE d < 0
    BY <2>1, SideAssumption DEF Coords, Coord
  <2>2. CASE ~ (d < 0)
    <3> DEFINE h == Smaller(d, 2 * Side) + 1
    <3>1. h \in Nat
      BY <2>2, SideAssumption DEF Smaller
    <3> HIDE DEF h
    <3>2. h \div 2 \in Nat
      BY <3>1
    <3>3. Smaller(h \div 2, Side - 1) \in Coord
      BY <3>2, SideAssumption DEF Smaller, Coord
    <3> QED
      BY <2>2, <3>3 DEF Coords, h
  <2> QED
    BY <2>1, <2>2
<1>2. x.desc[1] \in Int /\ x.desc[2] \in Int
  BY IndivsAssumption
<1> QED
  BY <1>1, <1>2 DEF CellsOf, Cells

(* What _add_to_archive() does to the grid, seen from every cell.           *)
LEMMA AddFinal ==
  ASSUME TypeOK, NEW x \in Indivs, NEW p \in Indivs, AddToArchive(x, p)
  PROVE  Final
<1>1. PICK k \in CellsOf(x) :
        IF array[k] = None \/ Beats(x, array[k])
        THEN /\ array' = [array EXCEPT ![k] = x]
             /\ parents' = [parents EXCEPT ![k] = p]
        ELSE UNCHANGED <<array, parents>>
  BY DEF AddToArchive
<1>2. SUFFICES ASSUME NEW c \in Filled
               PROVE  /\ array'[c] # None
                      /\ \A z \in Indivs : Beats(z, array'[c]) => Beats(z, array[c])
  BY DEF Final
<1>3. c \in Cells /\ array[c] \in Indivs /\ x # None
  BY IndivsAssumption DEF Filled, TypeOK
<1>4. CASE array'[c] = array[c]
  BY <1>3, <1>4, IndivsAssumption
<1>5. CASE array'[c] = x /\ Beats(x, array[c])
  BY <1>3, <1>5, BeatsOrder
<1>6. array'[c] = array[c] \/ (array'[c] = x /\ Beats(x, array[c]))
  BY <1>1, <1>3, CellsOfType, IndivsAssumption DEF TypeOK
<1> QED
  BY <1>4, <1>5, <1>6

(* Held(x) in the state after a step. *)
HeldNext(x) == \E c \in CellsOf(x) : array'[c] # None /\ ~ Beats(x, array'[c])

(* A niche that is held stays held. *)
LEMMA HeldStays ==
  ASSUME Final, TypeOK, NEW x \in Indivs, Held(x)
  PROVE  HeldNext(x)
<1>1. PICK c \in CellsOf(x) : array[c] # None /\ ~ Beats(x, array[c])
  BY DEF Held
<1>2. c \in Filled
  BY <1>1, CellsOfType DEF Filled
<1> QED
  BY <1>1, <1>2 DEF Final, HeldNext

-----------------------------------------------------------------------------
LEMMA InitHolds == Init => IInv
BY DEF Init, IInv, TypeOK, ParentNicheHeld, SelectionHasMates, InItsNiche,
       MatesHeld, FirstFills, Filled

(* One individual is filed, with a parent whose niche is held afterwards.   *)
LEMMA FileHolds ==
  ASSUME IInv, pc \in {"first", "file"}, NEW x \in Indivs, NEW p \in Indivs,
         File(x, p), p = x \/ Held(p)
  PROVE  IInv' /\ Final
<1>0. TypeOK /\ x # None /\ p # None /\ left \in Nat
  BY IndivsAssumption DEF IInv, TypeOK
<1>1. Final
  BY <1>0, AddFinal DEF File
<1>2. PICK k \in CellsOf(x) :
        IF array[k] = None \/ Beats(x, array[k])
        THEN /\ array' = [array EXCEPT ![k] = x]
             /\ parents' = [parents EXCEPT ![k] = p]
        ELSE UNCHANGED <<array, parents>>
  BY DEF File, AddToArchive
<1>3. k \in Cells
  BY CellsOfType
<1>4. left' \in Nat
  BY <1>0 DEF File
<1>5. TypeOK'
  BY <1>0, <1>2, <1>3, <1>4 DEF TypeOK, File
<1>6. HeldNext(x)
  BY <1>0, <1>2, <1>3, BeatsOrder DEF HeldNext, TypeOK
<1>7. HeldNext(p)
  BY <1>0, <1>1, <1>6, HeldStays
<1>8. ParentNicheHeld'
  <2>1. SUFFICES ASSUME NEW c \in Cells
                 PROVE  /\ array'[c] = None <=> parents'[c] = None
                        /\ parents'[c] # None => HeldNext(parents'[c])
    BY DEF ParentNicheHeld, Held, HeldNext
  <2>2. CASE parents'[c] = parents[c] /\ array'[c] = array[c]
    <3>1. parents[c] # None => parents[c] \in Indivs /\ Held(parents[c])
      BY <1>0 DEF IInv, ParentNicheHeld, TypeOK
    <3>2. parents[c] # None => HeldNext(parents[c])
      BY <1>0, <1>1, <3>1, HeldStays
    <3>3. array[c] = None <=> parents[c] = None
      BY DEF IInv, ParentNicheHeld
    <3> QED
      BY <2>2, <3>2, <3>3
  <2>3. CASE parents'[c] = p /\ array'[c] = x
    BY <1>0, <1>7, <2>3
  <2> QED
    BY <1>0, <1>2, <1>3, <2>2, <2>3 DEF TypeOK
<1>9. InItsNiche'
  BY <1>0, <1>2, <1>3 DEF IInv, InItsNiche, Filled, TypeOK
<1>10. MatesHeld'
  <2>1. \A m \in mates : m \in Indivs /\ Held(m)
    BY <1>0 DEF IInv, MatesHeld, TypeOK
  <2>2. \A m \in mates : HeldNext(m)
    BY <1>0, <1>1, <2>1, HeldStays
  <2>3. mates' = mates
    BY DEF File
  <2> QED
    BY <2>2, <2>3 DEF MatesHeld, Held, HeldNext
<1>11. SelectionHasMates'
  BY DEF IInv, SelectionHasMates, File
<1>12. FirstFills'
  BY <1>6, CellsOfType DEF FirstFills, Filled, HeldNext
<1> QED
  BY <1>1, <1>5, <1>8, <1>9, <1>10, <1>11, <1>12 DEF IInv

(* The steps that leave the grid alone. *)
LEMMA GridUnchanged ==
  ASSUME TypeOK, UNCHANGED array
  PROVE  Final
BY DEF Final, Filled

LEMMA RandomPopHolds == IInv /\ RandomPop => IInv' /\ Final
<1> SUFFICES ASSUME IInv, RandomPop PROVE IInv' /\ Final
  OBVIOUS
<1>1. TypeOK'
  BY SizeAssumption DEF IInv, RandomPop, TypeOK
<1>2. Final
  BY GridUnchanged DEF IInv, RandomPop
<1> QED
  BY <1>1, <1>2
     DEF IInv, RandomPop, ParentNicheHeld, SelectionHasMates, InItsNiche,
         MatesHeld, FirstFills, Filled, Held

LEMMA EpochHolds == IInv /\ Epoch => IInv' /\ Final
<1> SUFFICES ASSUME IInv, Epoch PROVE IInv' /\ Final
  OBVIOUS
<1> USE DEF Epoch
<1>1. Elites \subseteq Indivs
  BY DEF IInv, TypeOK, Elites, Filled
<1>2. TypeOK'
  BY <1>1, SizeAssumption DEF IInv, TypeOK
<1>3. Final
  BY GridUnchanged DEF IInv
<1>4. MatesHeld'
  <2>1. SUFFICES ASSUME NEW c \in Filled PROVE Held(array[c])
    BY DEF MatesHeld, Elites, Held
  <2>2. array[c] \in Elites /\ c \in CellsOf(array[c]) /\ array[c] # None
    BY DEF IInv, InItsNiche, Elites, Filled
  <2>3. ~ Beats(array[c], array[c])
    BY <1>1, <2>2, BeatsOrder
  <2> QED
    BY <2>2, <2>3 DEF Held
<1>5. SelectionHasMates'
  BY DEF IInv, SelectionHasMates
<1> QED
  BY <1>2, <1>3, <1>4, <1>5
     DEF IInv, ParentNicheHeld, InItsNiche, FirstFills, Filled, Held

LEMMA EndEpochHolds == IInv /\ EndEpoch => IInv' /\ Final
<1> SUFFICES ASSUME IInv, EndEpoch PROVE IInv' /\ Final
  OBVIOUS
<1> USE DEF EndEpoch
<1>1. TypeOK'
  BY DEF IInv, TypeOK
<1>2. Final
  BY GridUnchanged DEF IInv
<1>3. Filled # {}
  <2>1. CASE pc = "first"
    BY <2>1, SizeAssumption DEF IInv, FirstFills
  <2>2. CASE pc = "file"
    <3>1. PICK m \in mates : Held(m) /\ m \in Indivs
      BY <2>2 DEF IInv, SelectionHasMates, MatesHeld, TypeOK
    <3> QED
      BY <3>1, CellsOfType DEF Held, Filled
  <2> QED
    BY <2>1, <2>2
<1>4. SelectionHasMates'
  BY <1>3 DEF SelectionHasMates, Elites, Filled
<1> QED
  BY <1>1, <1>2, <1>4
     DEF IInv, ParentNicheHeld, InItsNiche, MatesHeld, FirstFills, Filled, Held

LEMMA NextHolds == IInv /\ [Next]_vars => IInv' /\ [Final]_vars
<1> SUFFICES ASSUME IInv, [Next]_vars PROVE IInv' /\ [Final]_vars
  OBVIOUS
<1>1. CASE FileFirst
  BY <1>1, FileHolds DEF FileFirst
<1>2. CASE FileOffspring
  <2>1. \A p \in mates : p \in Indivs /\ Held(p)
    BY DEF IInv, TypeOK, MatesHeld
  <2> QED
    BY <1>2, <2>1, FileHolds DEF FileOffspring
<1>3. CASE UNCHANGED vars
  BY <1>3 DEF vars, IInv, TypeOK, ParentNicheHeld, SelectionHasMates,
              InItsNiche, MatesHeld, FirstFills, Filled, Elites, Held
<1> QED
  BY <1>1, <1>2, <1>3, RandomPopHolds, EpochHolds, EndEpochHolds DEF Next

-----------------------------------------------------------------------------
THEOREM Invariance == Spec => []IInv
<1>1. IInv /\ [Next]_vars => IInv'
  BY NextHolds
<1> QED
  BY <1>1, InitHolds, PTL DEF Spec

(* What a cell has turned down once, _add_to_archive() turns down for ever. *)
THEOREM RejectionsStayFinal == Spec => RejectionsAreFinal
<1>1. IInv /\ [Next]_vars => [Final]_vars
  BY NextHolds
<1> QED
  BY <1>1, Invariance, PTL DEF Spec, RejectionsAreFinal

(* The parents of the elites keep their niches.                             *)
THEOREM ParentsStayHeld == Spec => []ParentNicheHeld
<1>1. IInv => ParentNicheHeld
  BY DEF IInv
<1> QED
  BY <1>1, Invariance, PTL

(* _selection() always has somebody to draw.                                *)
THEOREM MatesAreThere == Spec => []SelectionHasMates
<1>1. IInv => SelectionHasMates
  BY DEF IInv
<1> QED
  BY <1>1, Invariance, PTL

(* Elites stay in the cells of their descriptors.                           *)
THEOREM ElitesInNiches == Spec => []InItsNiche
<1>1. IInv => InItsNiche
  BY DEF IInv
<1> QED
  BY <1>1, Invariance, PTL
=============================================================================
