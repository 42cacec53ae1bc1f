--------------------------- MODULE EpsMoeaProofs ---------------------------
(***************************************************************************)
(* The archive of the epsilon-MOEA, for every set of objective vectors,    *)
(* every eps and min_fit, every population and every number of epochs.     *)
(***************************************************************************)
EXTENDS EpsMoea, SequenceTheorems, TLAPS

-----------------------------------------------------------------------------
(* The boxes, and the order that they put on the objective vectors.         *)

LEMMA BoxType ==
  ASSUME NEW o \in Objs
  PROVE  Box(o) \in [Dim -> Int]
<1>1. ASSUME NEW d \in Dim
      PROVE  - ((MinFit[d] - o[d]) \div Eps[d]) \in Int
  <2>1. o[d] \in Int /\ MinFit[d] \in Int /\ Eps[d] \in Nat \ {0}
    BY ObjsAssumption, EpsAssumption
  <2>2. MinFit[d] - o[d] \in Int
    BY <2>1
  <2> QED
    BY <2>1, <2>2
<1> QED
  BY <1>1 DEF Box

(* Division rounds down, so it keeps the order. *)
LEMMA DivMonotone ==
  ASSUME NEW x \in Int, NEW y \in Int, NEW e \in Nat \ {0}, x <= y
  PROVE  x \div e <= y \div e
<1> DEFINE p == x \div e
           q == y \div e
<1>1. p \in Int /\ q \in Int
  OBVIOUS
<1>2. e * p <= x /\ y < e * q + e
  OBVIOUS
<1>3. SUFFICES ASSUME p >= q + 1 PROVE FALSE
  BY <1>1
<1>4. e * p >= e * (q + 1)
  <2> HIDE DEF p, q
  <2> QED
    BY <1>1, <1>3
<1>5. e * (q + 1) = e * q + e
  <2> HIDE DEF p, q
  <2> QED
    BY <1>1
<1>6. e * p \in Int /\ e * q \in Int
  <2> HIDE DEF p, q
  <2> QED
    BY <1>1
<1> HIDE DEF p, q
<1> QED
  BY <1>2, <1>4, <1>5, <1>6

(* What dominates has a box at least as good. *)
LEMMA DominatesAtLeast ==
  ASSUME NEW a \in Objs, NEW b \in Objs, Dominates(a, b)
  PROVE  AtLeast(a, b)
<1>1. SUFFICES ASSUME NEW d \in Dim PROVE Box(a)[d] >= Box(b)[d]
  BY DEF AtLeast
<1>2. a[d] \in Int /\ b[d] \in Int /\ MinFit[d] \in Int /\ Eps[d] \in Nat \ {0}
  BY ObjsAssumption, EpsAssumption
<1>3. a[d] >= b[d]
  BY DEF Dominates
<1> DEFINE x == MinFit[d] - a[d]
           y == MinFit[d] - b[d]
<1>4. x \in Int /\ y \in Int /\ x <= y
  BY <1>2, <1>3
<1>5. x \div Eps[d] <= y \div Eps[d]
  <2> HIDE DEF x, y
  <2> QED
    BY <1>2, <1>4, DivMonotone
<1>6. x \div Eps[d] \in Int /\ y \div Eps[d] \in Int
  <2> HIDE DEF x, y
  <2> QED
    BY <1>2, <1>4
<1>7. Box(a)[d] = - (x \div Eps[d]) /\ Box(b)[d] = - (y \div Eps[d])
  BY DEF Box
<1> HIDE DEF x, y
<1> QED
  BY <1>5, <1>6, <1>7

LEMMA BoxOrder ==
  ASSUME NEW a \in Objs, NEW b \in Objs
  PROVE  /\ AtLeast(a, a)
         /\ BoxDominates(a, b) => AtLeast(a, b)
         /\ SameBox(a, b) => AtLeast(a, b) /\ AtLeast(b, a)
         /\ Apart(a, b) => Apart(b, a)
         /\ Apart(a, b) => ~ AtLeast(a, b)
         /\ ~ Dominates(a, a)
<1>1. Box(a) \in [Dim -> Int] /\ Box(b) \in [Dim -> Int]
  BY BoxType
<1>2. a \in [Dim -> Int]
  BY ObjsAssumption
<1>3. ~ Dominates(a, a)
  BY <1>2 DEF Dominates
<1>4. Apart(a, b) => ~ AtLeast(a, b)
  <2>1. SUFFICES ASSUME AtLeast(a, b), ~ SameBox(a, b) PROVE BoxDominates(a, b)
    BY DEF Apart
  <2>2. PICK d \in Dim : Box(a)[d] # Box(b)[d]
    BY <1>1, <2>1 DEF SameBox
  <2>3. Box(a)[d] > Box(b)[d]
    BY <1>1, <2>1, <2>2 DEF AtLeast
  <2> QED
    BY <2>1, <2>3 DEF AtLeast, BoxDominates, Dominates
<1> QED
  BY <1>1, <1>3, <1>4 DEF AtLeast, BoxDominates, SameBox, Apart, Dominates

LEMMA AtLeastTransitive ==
  ASSUME NEW a \in Objs, NEW b \in Objs, NEW c \in Objs,
         AtLeast(a, b), AtLeast(b, c)
  PROVE  AtLeast(a, c)
<1>1. SUFFICES ASSUME NEW d \in Dim PROVE Box(a)[d] >= Box(c)[d]
  BY DEF AtLeast
<1>2. Box(a)[d] \in Int /\ Box(b)[d] \in Int /\ Box(c)[d] \in Int
  BY BoxType
<1> QED
  BY <1>2 DEF AtLeast

(* The members of one box are apart from the same individuals. *)
LEMMA SameBoxApart ==
  ASSUME NEW a \in Objs, NEW b \in Objs, NEW c \in Objs,
         SameBox(a, b), Apart(b, c)
  PROVE  Apart(a, c)
BY DEF SameBox, Apart, BoxDominates

(* list::erase *)
LEMMA RemoveAtProperties ==
  ASSUME NEW S, NEW s \in Seq(S), NEW i \in DOMAIN s
  PROVE  /\ RemoveAt(s, i) \in Seq(S)
         /\ Len(RemoveAt(s, i)) = Len(s) - 1
         /\ \A j \in 1 .. (Len(s) - 1) :
              RemoveAt(s, i)[j] = IF j < i THEN s[j] ELSE s[j + 1]
<1> DEFINE a == SubSeq(s, 1, i - 1)
           b == SubSeq(s, i + 1, Len(s))
<1>1. Len(s) \in Nat /\ DOMAIN s = 1 .. Len(s) /\ s \in [1 .. Len(s) -> S]
  BY LenProperties
<1>2. i \in 1 .. Len(s)
  BY <1>1
<1>3. /\ a \in Seq(S)
      /\ Len(a) = i - 1
      /\ \A j \in 1 .. (i - 1) : a[j] = s[j]
  <2>1. \A j \in 1 .. (i - 1) : s[j] \in S
    BY <1>1, <1>2
  <2> QED
    BY <1>1, <1>2, <2>1, SubSeqProperties
<1>4. /\ b \in Seq(S)
      /\ Len(b) = Len(s) - i
      /\ \A j \in 1 .. (Len(s) - i) : b[j] = s[i + j]
  <2>1. \A j \in (i + 1) .. Len(s) : s[j] \in S
    BY <1>1, <1>2
  <2> QED
    BY <1>1, <1>2, <2>1, SubSeqProperties
<1> HIDE DEF a, b
<1>5. /\ a \o b \in Seq(S)
      /\ Len(a \o b) = Len(a) + Len(b)
      /\ \A j \in 1 .. Len(a) + Len(b) :
           (a \o b)[j] = IF j <= Len(a) THEN a[j] ELSE b[j - Len(a)]
  BY <1>3, <1>4, ConcatProperties
<1>6. RemoveAt(s, i) = a \o b
  BY DEF RemoveAt, a, b
<1>7. Len(a) + Len(b) = Len(s) - 1
  BY <1>1, <1>2, <1>3, <1>4
<1>8. ASSUME NEW j \in 1 .. (Len(s) - 1)
      PROVE  (a \o b)[j] = IF j < i THEN s[j] ELSE s[j + 1]
  <2>1. CASE j < i
    BY <1>1, <1>2, <1>3, <1>5, <1>7, <2>1
  <2>2. CASE ~ (j < i)
    <3>1. j - Len(a) \in 1 .. (Len(s) - i) /\ ~ (j <= Len(a))
      BY <1>1, <1>2, <1>3, <2>2
    <3>2. i + (j - Len(a)) = j + 1
      BY <1>1, <1>2, <1>3
    <3> QED
      BY <1>4, <1>5, <1>7, <2>2, <3>1, <3>2
  <2> QED
    BY <2>1, <2>2
<1> QED
  BY <1>5, <1>6, <1>7, <1>8

(* Erasing loses one member and brings none. *)
LEMMA RemoveAtMembers ==
  ASSUME NEW S, NEW s \in Seq(S), NEW i \in DOMAIN s
  PROVE  /\ \A j \in DOMAIN s : j # i =>
              \E k \in DOMAIN RemoveAt(s, i) : RemoveAt(s, i)[k] = s[j]
         /\ \A j, k \in DOMAIN RemoveAt(s, i) : j # k =>
              \E m, n \in DOMAIN s :
                /\ m # n /\ m # i /\ n # i
                /\ RemoveAt(s, i)[j] = s[m] /\ RemoveAt(s, i)[k] = s[n]
         /\ \A j \in DOMAIN RemoveAt(s, i) :
              \E m \in DOMAIN s : m # i /\ RemoveAt(s, i)[j] = s[m]
<1> DEFINE r == RemoveAt(s, i)
<1>1. /\ Len(s) \in Nat /\ DOMAIN s = 1 .. Len(s) /\ i \in 1 .. Len(s)
      /\ r \in Seq(S) /\ Len(r) = Len(s) - 1 /\ DOMAIN r = 1 .. (Len(s) - 1)
  BY LenProperties, RemoveAtProperties
<1>2. \A j \in 1 .. (Len(s) - 1) : r[j] = IF j < i THEN s[j] ELSE s[j + 1]
  BY RemoveAtProperties
<1> HIDE DEF r
<1> DEFINE Old(j) == IF j < i THEN j ELSE j + 1
<1>3. \A j \in DOMAIN r : Old(j) \in DOMAIN s /\ Old(j) # i /\ r[j] = s[Old(j)]
  BY <1>1, <1>2
<1>4. \A j, k \in DOMAIN r : j # k => Old(j) # Old(k)
  BY <1>1
<1>5. ASSUME NEW j \in DOMAIN s, j # i
      PROVE  \E k \in DOMAIN r : r[k] = s[j]
  <2>1. CASE j < i
    <3>1. j \in DOMAIN r /\ r[j] = s[j]
      BY <1>1, <1>2, <2>1
    <3> QED
      BY <3>1
  <2>2. CASE j > i
    <3>1. j - 1 \in DOMAIN r /\ ~ (j - 1 < i) /\ (j - 1) + 1 = j
      BY <1>1, <2>2
    <3>2. r[j - 1] = s[j]
      BY <1>1, <1>2, <3>1
    <3> QED
      BY <3>1, <3>2
  <2> QED
    BY <1>1, <1>5, <2>1, <2>2
<1> HIDE DEF Old
<1>6. \A j \in DOMAIN r : \E m \in DOMAIN s : m # i /\ r[j] = s[m]
  BY <1>3
<1>7. \A j, k \in DOMAIN r : j # k =>
        \E m, n \in DOMAIN s : m # n /\ m # i /\ n # i /\ r[j] = s[m] /\ r[k] = s[n]
  BY <1>3, <1>4
<1> QED
  BY <1>5, <1>6, <1>7 DEF r

-----------------------------------------------------------------------------
(* The archive and the offspring before and after a step.                   *)

LEMMA ReachedType ==
  ASSUME TypeOK
  PROVE  Reached \subseteq Objs
<1>1. \A i \in DOMAIN archive : archive[i] \in Objs
  BY LenProperties DEF TypeOK
<1> QED
  BY <1>1 DEF Reached, TypeOK

LEMMA ReachedTypeNext ==
  ASSUME TypeOK'
  PROVE  Reached' \subseteq Objs
<1>1. \A i \in DOMAIN archive' : archive'[i] \in Objs
  BY LenProperties DEF TypeOK
<1> QED
  BY <1>1 DEF Reached, TypeOK

(* What was covered stays so in a step that does not change the population. *)
LEMMA CoveredStep ==
  ASSUME TypeOK, TypeOK', Grows, Covered,
         \A k \in Index : (initial' => k < PopSize - left') =>
           (initial => k < PopSize - left) /\ pop'[k] = pop[k],
         pc # "begin"
  PROVE  Covered'
<1>1. SUFFICES ASSUME NEW k \in Index, initial' => k < PopSize - left'
               PROVE  \E y \in Reached' : AtLeast(y, pop'[k])
  BY DEF Covered, Index
<1>2. pop'[k] = pop[k] /\ (initial => k < PopSize - left)
  BY <1>1
<1>3. PICK x \in Reached : AtLeast(x, pop[k])
  BY <1>2 DEF Covered
<1>4. PICK y \in Reached' : AtLeast(y, x)
  BY DEF Grows
<1>5. x \in Objs /\ y \in Objs /\ pop[k] \in Objs
  BY ReachedType, ReachedTypeNext DEF TypeOK
<1>6. AtLeast(y, pop[k])
  BY <1>3, <1>4, <1>5, AtLeastTransitive
<1> QED
  BY <1>2, <1>6

(* An archive to which nothing is done, and no offspring that is dropped.   *)
LEMMA SameArchiveGrows ==
  ASSUME TypeOK, archive' = archive,
         pc \in {"scan", "same_box"} =>
           /\ pc' \in {"scan", "same_box"}
           /\ ind' = ind
  PROVE  Grows
<1>1. \A x \in Reached : x \in Objs
  BY ReachedType
<1>2. \A x \in Reached : x \in Reached'
  BY DEF Reached
<1> QED
  BY <1>1, <1>2, BoxOrder DEF Grows

-----------------------------------------------------------------------------
(* The invariant, action by action, with the action property.               *)

LEMMA InitHolds == Init => IInv
<1> SUFFICES ASSUME Init PROVE IInv
  OBVIOUS
<1>1. TypeOK
  <2>1. pop \in [Index -> Objs]
    BY DEF Init
  <2>2. 0 \in Index
    BY SizeAssumption DEF Index
  <2>3. ind \in Objs
    BY <2>1, <2>2 DEF Init
  <2> QED
    BY <2>1, <2>3 DEF Init, TypeOK
<1>2. Counted
  BY SizeAssumption DEF Init, Counted
<1> QED
  BY <1>1, <1>2 DEF Init, IInv, ArchiveSpread, ArchiveNonEmpty, Placed, Covered

LEMMA RandomPopHolds == IInv /\ RandomPop => IInv' /\ Grows
<1> SUFFICES ASSUME IInv, RandomPop PROVE IInv' /\ Grows
  OBVIOUS
<1> USE DEF RandomPop
<1>0. TypeOK /\ archive = <<>> /\ initial
  BY DEF IInv, Counted
<1>1. 0 \in Index /\ PopSize \in Nat
  BY SizeAssumption DEF Index
<1>2. pop'[0] \in Objs
  BY <1>1
<1>3. /\ archive' = <<pop'[0]>>
      /\ DOMAIN archive' = {1}
      /\ archive'[1] = pop'[0]
  BY DEF RandomPop
<1>4. TypeOK'
  BY <1>0, <1>1, <1>2, <1>3 DEF TypeOK
<1>5. Grows
  BY <1>0 DEF Grows, Reached
<1>6. ArchiveSpread' /\ ArchiveNonEmpty'
  BY <1>3 DEF ArchiveSpread, ArchiveNonEmpty
<1>7. Counted' /\ Placed'
  BY <1>0, <1>1 DEF Counted, Placed
<1>8. Covered'
  <2>1. \A k \in Index : ~ (k < PopSize - left')
    BY <1>1 DEF Index
  <2> QED
    BY <1>0, <2>1 DEF Covered, Index
<1> QED
  BY <1>4, <1>5, <1>6, <1>7, <1>8 DEF IInv

LEMMA EpochHolds == IInv /\ Epoch => IInv' /\ Grows
<1> SUFFICES ASSUME IInv, Epoch PROVE IInv' /\ Grows
  OBVIOUS
<1> USE DEF Epoch, IInv
<1>1. TypeOK'
  BY SizeAssumption DEF TypeOK
<1>2. Grows
  BY SameArchiveGrows
<1>3. ArchiveSpread' /\ ArchiveNonEmpty' /\ Counted' /\ Placed'
  BY DEF ArchiveSpread, ArchiveNonEmpty, Counted, Placed
<1>4. Covered'
  BY <1>1, <1>2, CoveredStep DEF Counted
<1> QED
  BY <1>1, <1>2, <1>3, <1>4

LEMMA NextMemberHolds == IInv /\ NextMember => IInv' /\ Grows
<1> SUFFICES ASSUME IInv, NextMember PROVE IInv' /\ Grows
  OBVIOUS
<1> USE DEF NextMember, Propose
<1>0. TypeOK /\ initial /\ left \in Nat /\ left > 0 /\ left <= PopSize
  BY DEF IInv, TypeOK, Counted
<1>1. PopSize - left \in Index
  BY <1>0, SizeAssumption DEF Index
<1>2. ind' = pop[PopSize - left] /\ ind' \in Objs
  BY <1>0, <1>1 DEF TypeOK
<1>3. left' \in Nat
  BY <1>0
<1>4. TypeOK'
  BY <1>0, <1>2, <1>3 DEF TypeOK
<1>5. Grows
  BY <1>0, SameArchiveGrows
<1>6. ArchiveSpread' /\ ArchiveNonEmpty'
  BY DEF IInv, ArchiveSpread, ArchiveNonEmpty
<1>7. Counted'
  BY <1>0, SizeAssumption DEF Counted
<1>8. Placed'
  BY <1>0, LenProperties DEF Placed, TypeOK
<1>9. Covered'
  <2>1. SUFFICES ASSUME NEW k \in Index, k < PopSize - left'
                 PROVE  \E y \in Reached' : AtLeast(y, pop'[k])
    BY <1>0 DEF Covered, Index
  <2>2. CASE k = PopSize - left
    <3>1. ind' \in Reached' /\ pop'[k] = ind'
      BY <1>2, <2>2 DEF Reached
    <3> QED
      BY <1>2, <3>1, BoxOrder
  <2>3. CASE k # PopSize - left
    <3>1. k < PopSize - left
      BY <1>0, <2>1, <2>3, SizeAssumption DEF Index
    <3>2. PICK x \in Reached : AtLeast(x, pop[k])
      BY <3>1 DEF IInv, Covered
    <3>3. x \in Reached'
      BY DEF Reached
    <3> QED
      BY <3>2, <3>3
  <2> QED
    BY <2>2, <2>3
<1> QED
  BY <1>4, <1>5, <1>6, <1>7, <1>8, <1>9 DEF IInv

LEMMA RefuseHolds ==
  ASSUME NEW o \in Objs
  PROVE  IInv /\ Refuse(o) => IInv' /\ Grows
<1> SUFFICES ASSUME IInv, Refuse(o) PROVE IInv' /\ Grows
  OBVIOUS
<1> USE DEF Refuse, Propose, IInv
<1>1. left' \in Nat
  BY DEF TypeOK
<1>2. TypeOK'
  BY <1>1 DEF TypeOK
<1>3. Grows
  BY SameArchiveGrows
<1>4. ArchiveSpread' /\ ArchiveNonEmpty' /\ Counted' /\ Placed'
  BY DEF ArchiveSpread, ArchiveNonEmpty, Counted, Placed
<1>5. Covered'
  BY <1>2, <1>3, CoveredStep
<1> QED
  BY <1>2, <1>3, <1>4, <1>5

LEMMA AcceptHolds ==
  ASSUME NEW o \in Objs
  PROVE  IInv /\ Accept(o) => IInv' /\ Grows
<1> SUFFICES ASSUME IInv, Accept(o) PROVE IInv' /\ Grows
  OBVIOUS
<1> USE DEF Accept, Propose
<1>0. TypeOK /\ ~ initial /\ ~ initial'
  BY DEF IInv
<1>1. PICK m \in Index : pop' = [pop EXCEPT ![m] = o]
  OBVIOUS
<1>2. left' \in Nat
  BY <1>0 DEF TypeOK
<1>3. pop' \in [Index -> Objs]
  BY <1>0, <1>1 DEF TypeOK
<1>4. TypeOK'
  BY <1>0, <1>2, <1>3 DEF TypeOK
<1>5. Grows
  BY <1>0, SameArchiveGrows
<1>6. ArchiveSpread' /\ ArchiveNonEmpty' /\ Counted'
  BY <1>0 DEF IInv, ArchiveSpread, ArchiveNonEmpty, Counted
<1>7. Placed'
  BY <1>0, LenProperties DEF Placed, TypeOK
<1>8. Covered'
  <2>1. SUFFICES ASSUME NEW k \in Index
                 PROVE  \E y \in Reached' : AtLeast(y, pop'[k])
    BY DEF Covered, Index
  <2>2. CASE k = m
    <3>1. o \in Reached' /\ pop'[k] = o
      BY <1>0, <1>1, <2>2 DEF Reached, TypeOK
    <3> QED
      BY <3>1, BoxOrder
  <2>3. CASE k # m
    <3>1. pop'[k] = pop[k]
      BY <1>0, <1>1, <2>3 DEF TypeOK
    <3>2. PICK x \in Reached : AtLeast(x, pop[k])
      BY <1>0 DEF IInv, Covered
    <3>3. x \in Reached'
      BY DEF Reached
    <3> QED
      BY <3>1, <3>2, <3>3
  <2> QED
    BY <2>2, <2>3
<1> QED
  BY <1>4, <1>5, <1>6, <1>7, <1>8 DEF IInv

LEMMA SyncHolds == IInv /\ Sync => IInv' /\ Grows
<1> SUFFICES ASSUME IInv, Sync PROVE IInv' /\ Grows
  OBVIOUS
<1> USE DEF Sync, IInv
<1>1. TypeOK'
  BY DEF TypeOK
<1>2. Grows
  BY SameArchiveGrows
<1>3. ArchiveSpread' /\ ArchiveNonEmpty' /\ Counted' /\ Placed'
  BY DEF ArchiveSpread, ArchiveNonEmpty, Counted, Placed
<1>4. \A k \in Index : k < PopSize - left
  BY SizeAssumption DEF Index
<1>5. Covered'
  BY <1>1, <1>2, <1>4, CoveredStep
<1> QED
  BY <1>1, <1>2, <1>3, <1>5

-----------------------------------------------------------------------------
(* archive_acceptance(), one lemma for each outcome of check_box_dominance  *)

Turn == /\ pc = "scan"
        /\ it \in DOMAIN archive
        /\ UNCHANGED <<pop, front, left, initial, ind>>

LEMMA TurnCovered ==
  ASSUME TypeOK, TypeOK', Grows, Covered, pc # "begin",
         UNCHANGED <<pop, left, initial>>
  PROVE  Covered'
BY CoveredStep

LEMMA EraseHolds ==
  ASSUME IInv, Turn, BoxDominates(ind, archive[it]),
         archive' = RemoveAt(archive, it), UNCHANGED <<pc, it>>
  PROVE  IInv' /\ Grows
<1> USE DEF Turn
<1>0. /\ TypeOK /\ archive \in Seq(Objs) /\ ind \in Objs /\ ArchiveSpread
      /\ archive' \in Seq(Objs)
  BY RemoveAtProperties DEF IInv, TypeOK
<1>1. TypeOK'
  BY <1>0 DEF TypeOK
<1>2. \A j \in DOMAIN archive : archive[j] \in Objs
  BY <1>0, LenProperties
<1>3. Grows
  <2>1. SUFFICES ASSUME NEW x \in Reached
                 PROVE  \E y \in Reached' : AtLeast(y, x)
    BY DEF Grows
  <2>2. ind \in Reached'
    BY DEF Reached
  <2>3. CASE x = ind
    BY <1>0, <2>2, <2>3, BoxOrder
  <2>4. CASE x = archive[it]
    BY <1>0, <1>2, <2>2, <2>4, BoxOrder
  <2>5. ASSUME NEW j \in DOMAIN archive, j # it, x = archive[j]
        PROVE  \E y \in Reached' : AtLeast(y, x)
    <3>1. PICK k \in DOMAIN archive' : archive'[k] = x
      BY <1>0, <2>5, RemoveAtMembers
    <3>2. x \in Reached'
      BY <3>1 DEF Reached
    <3> QED
      BY <1>2, <2>5, <3>2, BoxOrder
  <2> QED
    BY <2>3, <2>4, <2>5 DEF Reached
<1>4. ArchiveSpread'
  <2>1. SUFFICES ASSUME NEW i \in DOMAIN archive', NEW j \in DOMAIN archive', i # j
                 PROVE  Apart(archive'[i], archive'[j])
    BY DEF ArchiveSpread
  <2>2. PICK m, n \in DOMAIN archive :
          m # n /\ archive'[i] = archive[m] /\ archive'[j] = archive[n]
    BY <1>0, <2>1, RemoveAtMembers
  <2> QED
    BY <1>0, <2>2 DEF ArchiveSpread
<1>5. ArchiveNonEmpty' /\ Counted'
  BY DEF IInv, ArchiveNonEmpty, Counted
<1>6. Placed'
  <2>1. SUFFICES ASSUME NEW i \in DOMAIN archive', i < it
                 PROVE  Apart(ind, archive'[i])
    BY DEF Placed
  <2>2. /\ Len(archive) \in Nat
        /\ DOMAIN archive = 1 .. Len(archive)
        /\ DOMAIN archive' = 1 .. (Len(archive) - 1)
    BY <1>0, LenProperties, RemoveAtProperties
  <2>3. i \in 1 .. (Len(archive) - 1) /\ i \in DOMAIN archive
    BY <2>2
  <2>4. archive'[i] = archive[i]
    <3>1. RemoveAt(archive, it)[i] = IF i < it THEN archive[i] ELSE archive[i + 1]
      BY <1>0, <2>3, RemoveAtProperties
    <3> QED
      BY <2>1, <3>1
  <2> QED
    BY <2>1, <2>3, <2>4 DEF IInv, Placed
<1>7. Covered'
  BY <1>0, <1>1, <1>3, TurnCovered DEF IInv
<1> QED
  BY <1>1, <1>3, <1>4, <1>5, <1>6, <1>7 DEF IInv

(* An individual that leaves "scan" or "same_box" because archive[it] is at *)
(* least as good.                                                           *)
LEMMA RejectHolds ==
  ASSUME IInv, it \in DOMAIN archive, pc \in {"scan", "same_box"},
         AtLeast(archive[it], ind), pc' = "next",
         UNCHANGED <<pop, archive, front, left, initial, ind, it>>
  PROVE  IInv' /\ Grows
<1>0. /\ TypeOK /\ archive \in Seq(Objs)
      /\ \A j \in DOMAIN archive : archive[j] \in Objs
  BY LenProperties DEF IInv, TypeOK
<1>1. TypeOK'
  BY <1>0 DEF TypeOK
<1>2. Grows
  <2>1. \A j \in DOMAIN archive : archive[j] \in Reached'
    BY DEF Reached
  <2>2. \A x \in Reached : x = ind \/ \E j \in DOMAIN archive : x = archive[j]
    BY DEF Reached
  <2> QED
    BY <1>0, <2>1, <2>2, BoxOrder DEF Grows
<1>3. ArchiveNonEmpty'
  BY <1>0, LenProperties DEF ArchiveNonEmpty
<1>4. ArchiveSpread' /\ Counted' /\ Placed'
  BY DEF IInv, ArchiveSpread, Counted, Placed
<1>5. Covered'
  BY <1>0, <1>1, <1>2, TurnCovered DEF IInv
<1> QED
  BY <1>1, <1>2, <1>3, <1>4, <1>5 DEF IInv

LEMMA AdvanceHolds ==
  ASSUME IInv, Turn, Apart(ind, archive[it]), it' = it + 1,
         UNCHANGED <<pc, archive>>
  PROVE  IInv' /\ Grows
<1> USE DEF Turn
<1>0. TypeOK /\ it \in Nat \ {0} /\ archive \in Seq(Objs)
  BY DEF IInv, TypeOK
<1>1. it' \in Nat \ {0}
  BY <1>0
<1>2. TypeOK'
  BY <1>0, <1>1 DEF TypeOK
<1>3. Grows
  BY <1>0, SameArchiveGrows
<1>4. ArchiveSpread' /\ ArchiveNonEmpty' /\ Counted'
  BY DEF IInv, ArchiveSpread, ArchiveNonEmpty, Counted
<1>5. Placed'
  <2>1. SUFFICES ASSUME NEW i \in DOMAIN archive, i < it + 1
                 PROVE  Apart(ind, archive[i])
    BY DEF Placed
  <2>2. i < it \/ i = it
    BY <1>0, <2>1, LenProperties
  <2> QED
    BY <2>2 DEF IInv, Placed
<1>6. Covered'
  BY <1>0, <1>2, <1>3, TurnCovered DEF IInv
<1> QED
  BY <1>2, <1>3, <1>4, <1>5, <1>6 DEF IInv

LEMMA MeetHolds ==
  ASSUME IInv, Turn, SameBox(ind, archive[it]), pc' = "same_box",
         UNCHANGED <<archive, it>>
  PROVE  IInv' /\ Grows
<1> USE DEF Turn
<1>0. TypeOK
  BY DEF IInv
<1>1. TypeOK'
  BY <1>0 DEF TypeOK
<1>2. Grows
  BY <1>0, SameArchiveGrows
<1>3. ArchiveNonEmpty'
  BY <1>0, LenProperties DEF TypeOK, ArchiveNonEmpty
<1>4. ArchiveSpread' /\ Counted' /\ Placed'
  BY DEF IInv, ArchiveSpread, Counted, Placed
<1>5. Covered'
  BY <1>0, <1>1, <1>2, TurnCovered DEF IInv
<1> QED
  BY <1>1, <1>2, <1>3, <1>4, <1>5 DEF IInv

LEMMA ScanHolds == IInv /\ Scan => IInv' /\ Grows
<1> SUFFICES ASSUME IInv, Scan PROVE IInv' /\ Grows
  OBVIOUS
<1>1. /\ Turn /\ archive[it] \in Objs /\ ind \in Objs
  BY LenProperties DEF Scan, Turn, IInv, TypeOK
<1>2. CASE BoxDominates(ind, archive[it]) /\ archive' = RemoveAt(archive, it)
           /\ UNCHANGED <<pc, it>>
  BY <1>1, <1>2, EraseHolds
<1>3. CASE BoxDominates(archive[it], ind) /\ pc' = "next" /\ UNCHANGED <<archive, it>>
  BY <1>1, <1>3, RejectHolds, BoxOrder DEF Turn
<1>4. CASE Apart(ind, archive[it]) /\ it' = it + 1 /\ UNCHANGED <<pc, archive>>
  BY <1>1, <1>4, AdvanceHolds
<1>5. CASE SameBox(ind, archive[it]) /\ pc' = "same_box" /\ UNCHANGED <<archive, it>>
  BY <1>1, <1>5, MeetHolds
<1> QED
  BY <1>2, <1>3, <1>4, <1>5 DEF Scan

(* push_back() of an individual that is apart from the whole list, where    *)
(* at most one member, which it replaces, is missing.                       *)
LEMMA PushHolds ==
  ASSUME IInv, pc \in {"scan", "same_box"}, pc' = "next",
         UNCHANGED <<pop, front, left, initial, ind, it>>,
         NEW rest \in Seq(Objs), archive' = Append(rest, ind),
         \A i, j \in DOMAIN rest : i # j => Apart(rest[i], rest[j]),
         \A i \in DOMAIN rest : Apart(ind, rest[i]),
         \A j \in DOMAIN archive :
           \/ AtLeast(ind, archive[j])
           \/ \E k \in DOMAIN rest : rest[k] = archive[j]
  PROVE  IInv' /\ Grows
<1>0. TypeOK /\ ind \in Objs /\ archive \in Seq(Objs)
  BY DEF IInv, TypeOK
<1>1. /\ Len(rest) \in Nat
      /\ DOMAIN rest = 1 .. Len(rest)
      /\ \A i \in DOMAIN rest : rest[i] \in Objs
  BY LenProperties
<1>2. /\ archive' \in Seq(Objs)
      /\ archive' # <<>>
      /\ Len(archive') = Len(rest) + 1
      /\ \A i \in DOMAIN rest : archive'[i] = rest[i]
      /\ archive'[Len(rest) + 1] = ind
  BY <1>0, <1>1, AppendProperties
<1>3. DOMAIN archive' = 1 .. (Len(rest) + 1)
  BY <1>2, LenProperties
<1>4. \A i \in DOMAIN archive' : i \in DOMAIN rest \/ i = Len(rest) + 1
  BY <1>1, <1>3
<1>5. TypeOK'
  BY <1>0, <1>2 DEF TypeOK
<1>6. ArchiveSpread'
  <2>1. SUFFICES ASSUME NEW i \in DOMAIN archive', NEW j \in DOMAIN archive', i # j
                 PROVE  Apart(archive'[i], archive'[j])
    BY DEF ArchiveSpread
  <2>2. CASE i \in DOMAIN rest /\ j \in DOMAIN rest
    BY <1>2, <2>1, <2>2
  <2>3. CASE i = Len(rest) + 1 /\ j \in DOMAIN rest
    BY <1>2, <2>3
  <2>4. CASE i \in DOMAIN rest /\ j = Len(rest) + 1
    BY <1>0, <1>1, <1>2, <2>4, BoxOrder
  <2> QED
    BY <1>4, <2>1, <2>2, <2>3, <2>4
<1>7. Grows
  <2>1. ind \in Reached'
    <3>1. Len(rest) + 1 \in DOMAIN archive'
      BY <1>1, <1>3
    <3> QED
      BY <1>2, <3>1 DEF Reached
  <2>2. \A k \in DOMAIN rest : rest[k] \in Reached'
    <3>1. \A k \in DOMAIN rest : k \in DOMAIN archive'
      BY <1>1, <1>3
    <3> QED
      BY <1>2, <3>1 DEF Reached
  <2>3. \A x \in Reached : x = ind \/ \E j \in DOMAIN archive : x = archive[j]
    BY DEF Reached
  <2> QED
    BY <1>0, <1>1, <2>1, <2>2, <2>3, BoxOrder DEF Grows
<1>8. ArchiveNonEmpty' /\ Counted' /\ Placed'
  BY <1>2 DEF IInv, ArchiveNonEmpty, Counted, Placed
<1>9. Covered'
  BY <1>0, <1>5, <1>7, TurnCovered DEF IInv
<1> QED
  BY <1>5, <1>6, <1>7, <1>8, <1>9 DEF IInv

LEMMA NewBoxHolds == IInv /\ NewBox => IInv' /\ Grows
<1> SUFFICES ASSUME IInv, NewBox PROVE IInv' /\ Grows
  OBVIOUS
<1>1. archive \in Seq(Objs) /\ it \in Nat /\ ind \in Objs
  BY DEF IInv, TypeOK
<1>2. \A i \in DOMAIN archive : i < it
  BY <1>1, LenProperties DEF NewBox
<1>3. \A i \in DOMAIN archive : Apart(ind, archive[i])
  BY <1>2 DEF IInv, Placed, NewBox
<1> QED
  BY <1>1, <1>3, PushHolds DEF NewBox, IInv, ArchiveSpread

LEMMA ContestHolds == IInv /\ Contest => IInv' /\ Grows
<1> SUFFICES ASSUME IInv, Contest PROVE IInv' /\ Grows
  OBVIOUS
<1>1. /\ archive \in Seq(Objs) /\ ind \in Objs
      /\ it \in DOMAIN archive /\ SameBox(ind, archive[it])
      /\ \A j \in DOMAIN archive : archive[j] \in Objs
      /\ ArchiveSpread
  BY LenProperties DEF IInv, TypeOK, Placed, Contest
<1>2. AtLeast(archive[it], ind) /\ AtLeast(ind, archive[it])
  BY <1>1, BoxOrder
<1>3. CASE archive' = archive
  BY <1>1, <1>2, <1>3, RejectHolds DEF Contest
<1>4. CASE archive' = Append(RemoveAt(archive, it), ind)
  <2> DEFINE rest == RemoveAt(archive, it)
  <2>1. rest \in Seq(Objs)
    BY <1>1, RemoveAtProperties
  <2>2. ASSUME NEW i \in DOMAIN rest, NEW j \in DOMAIN rest, i # j
        PROVE  Apart(rest[i], rest[j])
    <3>1. PICK m, n \in DOMAIN archive :
            m # n /\ rest[i] = archive[m] /\ rest[j] = archive[n]
      BY <1>1, <2>2, RemoveAtMembers
    <3> QED
      BY <1>1, <3>1 DEF ArchiveSpread
  <2>3. ASSUME NEW i \in DOMAIN rest
        PROVE  Apart(ind, rest[i])
    <3>1. PICK m \in DOMAIN archive : m # it /\ rest[i] = archive[m]
      BY <1>1, RemoveAtMembers
    <3>2. Apart(archive[it], archive[m])
      BY <1>1, <3>1 DEF ArchiveSpread
    <3> QED
      BY <1>1, <3>1, <3>2, SameBoxApart
  <2>4. ASSUME NEW j \in DOMAIN archive
        PROVE  AtLeast(ind, archive[j]) \/ \E k \in DOMAIN rest : rest[k] = archive[j]
    <3>1. CASE j = it
      BY <1>2, <3>1
    <3>2. CASE j # it
      BY <1>1, <3>2, RemoveAtMembers
    <3> QED
      BY <3>1, <3>2
  <2> HIDE DEF rest
  <2>5. archive' = Append(rest, ind)
    BY <1>4 DEF rest
  <2> QED
    BY <2>1, <2>2, <2>3, <2>4, <2>5, PushHolds DEF Contest
<1> QED
  BY <1>3, <1>4 DEF Contest

-----------------------------------------------------------------------------
LEMMA NextHolds == IInv /\ [Next]_vars => IInv' /\ [Grows]_vars
<1>1. IInv /\ Next => IInv' /\ Grows
  BY RandomPopHolds, EpochHolds, NextMemberHolds, RefuseHolds, AcceptHolds,
     ScanHolds, NewBoxHolds, ContestHolds, SyncHolds
     DEF Next, InEpoch
<1>2. IInv /\ UNCHANGED vars => IInv'
  BY DEF vars, IInv, TypeOK, ArchiveSpread, ArchiveNonEmpty, Counted, Placed,
         Covered, Reached
<1> QED
  BY <1>1, <1>2

(* The invariant that everything below rests on.                            *)
THEOREM Invariance == Spec => []IInv
<1>1. IInv /\ [Next]_vars => IInv'
  BY NextHolds
<1> QED
  BY <1>1, InitHolds, PTL DEF Spec

(* archive_acceptance() keeps one individual for each box, and no box of    *)
(* the archive dominates another, for ever.                                 *)
THEOREM ArchiveStaysSpread == Spec => []ArchiveSpread
<1>1. IInv => ArchiveSpread
  BY DEF IInv
<1> QED
  BY <1>1, Invariance, PTL

(* Whenever archive_acceptance() starts its do-while loop, which reads the  *)
(* first element before it looks for the end, there is one.                 *)
THEOREM ArchiveNeverEmpty == Spec => []ArchiveNonEmpty
<1>1. IInv => ArchiveNonEmpty
  BY DEF IInv
<1> QED
  BY <1>1, Invariance, PTL

(* What the statistics read is a Pareto front of the real objectives: boxes *)
(* that do not dominate each other hold vectors that do not either.         *)
THEOREM FrontStaysPareto == Spec => []FrontIsPareto
<1>1. ASSUME TypeOK, ArchiveSpread,
             NEW i \in DOMAIN archive, NEW j \in DOMAIN archive
      PROVE  ~ Dominates(archive[i], archive[j])
  <2>1. archive[i] \in Objs /\ archive[j] \in Objs
    BY <1>1, LenProperties DEF TypeOK
  <2>2. CASE i = j
    BY <2>1, <2>2, BoxOrder
  <2>3. CASE i # j
    BY <1>1, <2>1, <2>3, BoxOrder, DominatesAtLeast DEF ArchiveSpread
  <2> QED
    BY <2>2, <2>3
<1>2. Init => FrontIsPareto
  BY DEF Init, FrontIsPareto
<1>3. IInv /\ FrontIsPareto /\ [Next]_vars => FrontIsPareto'
  <2> SUFFICES ASSUME IInv, FrontIsPareto, [Next]_vars PROVE FrontIsPareto'
    OBVIOUS
  <2>1. CASE Sync
    BY <1>1, <2>1 DEF IInv, FrontIsPareto, Sync
  <2>2. CASE front' = front /\ pc' # "epoch"
    BY <2>2 DEF FrontIsPareto
  <2>3. CASE UNCHANGED vars
    BY <2>3 DEF FrontIsPareto, vars
  <2> QED
    BY <2>1, <2>2, <2>3
       DEF Next, InEpoch, Epoch, RandomPop, NextMember, Refuse, Accept, Propose,
           Scan, NewBox, Contest
<1> QED
  BY <1>2, <1>3, Invariance, PTL DEF Spec

(* No progress is ever lost: every vector of boxes that was reached stays   *)
(* matched or improved on by an archived individual.                        *)
THEOREM CoverageNeverShrinks == Spec => CoverageGrows
<1>1. IInv /\ [Next]_vars => [Grows]_vars
  BY NextHolds
<1> QED
  BY <1>1, Invariance, PTL DEF Spec, CoverageGrows

(* The archive answers for the whole population.                            *)
THEOREM ArchiveCoversPopulation == Spec => []PopCovered
<1>1. IInv => PopCovered
  BY DEF IInv, Counted, Covered, PopCovered
<1> QED
  BY <1>1, Invariance, PTL

-----------------------------------------------------------------------------
(* Why an epoch ends.  The turns an offspring may still cost; the scan goes *)
(* on or erases, and then the list is shorter.                              *)
Turns ==
  CASE pc = "scan" -> 3 + (IF it > Len(archive) THEN 0 ELSE Len(archive) - it + 1)
    [] pc = "same_box" -> 2
    [] pc = "next" -> 1
    [] OTHER -> 0

LEMMA TurnsAreCounted == TypeOK => Turns \in Nat /\ left \in Nat
BY LenProperties DEF TypeOK, Turns

LEMMA TurnsFall ==
  ASSUME TypeOK, InEpoch, pc # "begin"
  PROVE  left' < left \/ (left' = left /\ Turns' < Turns)
<1>1. CASE NextMember \/ \E o \in Objs : Refuse(o) \/ Accept(o)
  BY <1>1 DEF TypeOK, NextMember, Refuse, Accept, Propose
<1>2. CASE Scan
  <2>1. /\ archive \in Seq(Objs) /\ it \in Nat \ {0} /\ it <= Len(archive)
        /\ Len(archive) \in Nat /\ pc = "scan" /\ left' = left
    BY <1>2, LenProperties DEF TypeOK, Scan
  <2>2. Turns = 3 + (Len(archive) - it + 1)
    BY <2>1 DEF Turns
  <2>3. CASE archive' = RemoveAt(archive, it) /\ UNCHANGED <<pc, it>>
    <3>1. Len(archive') = Len(archive) - 1
      BY <2>1, <2>3, RemoveAtProperties
    <3> QED
      BY <2>1, <2>2, <2>3, <3>1 DEF Turns
  <2>4. CASE pc' = "next"
    BY <2>1, <2>2, <2>4 DEF Turns
  <2>5. CASE it' = it + 1 /\ UNCHANGED <<pc, archive>>
    BY <2>1, <2>2, <2>5 DEF Turns
  <2>6. CASE pc' = "same_box"
    BY <2>1, <2>2, <2>6 DEF Turns
  <2> QED
    BY <1>2, <2>3, <2>4, <2>5, <2>6 DEF Scan
<1>3. CASE NewBox
  BY <1>3 DEF TypeOK, NewBox, Turns
<1>4. CASE Contest
  BY <1>4 DEF TypeOK, Contest, Turns
<1>5. CASE Sync
  BY <1>5 DEF TypeOK, Sync, Turns
<1> QED
  BY <1>1, <1>2, <1>3, <1>4, <1>5 DEF InEpoch, RandomPop

(* The do-while loop erases while it advances, and still every step of an   *)
(* epoch leaves fewer offspring, or as many and fewer turns for the present *)
(* one: the pair falls in a well-founded order, so an epoch has finitely    *)
(* many steps whatever the archive holds.                                   *)
THEOREM EpochsAreFinite ==
  Spec => /\ [](left \in Nat /\ Turns \in Nat)
          /\ [][pc \notin {"begin", "epoch"} =>
                  left' < left \/ (left' = left /\ Turns' < Turns)]_vars
<1>1. IInv => left \in Nat /\ Turns \in Nat
  BY TurnsAreCounted DEF IInv
<1>2. IInv /\ [Next]_vars =>
        [pc \notin {"begin", "epoch"} =>
           left' < left \/ (left' = left /\ Turns' < Turns)]_vars
  BY TurnsFall DEF IInv, Next, Epoch
<1> QED
  BY <1>1, <1>2, Invariance, PTL DEF Spec
=============================================================================
