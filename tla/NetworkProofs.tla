--------------------------- MODULE NetworkProofs ---------------------------
(* The evolved networks: for every number of neurons they stay feed-forward *)
(* in every generation (DnnFF), and an evaluation that makes as many steps  *)
(* as their depth answers the question it was asked (NnStep).               *)
EXTENDS NnStep, FiniteSetTheorems, WellFoundedInduction, TLAPS

-----------------------------------------------------------------------------
(* Induction, without a predicate as a parameter: a set of numbers has a    *)
(* least element, so the least of the bad ones has a good one before it.    *)

LEMMA LeastElement ==
  ASSUME NEW T \in SUBSET Nat, T # {}
  PROVE  \E m \in T : \A k \in T : m <= k
<1>1. PICK m \in T : \A k \in T : <<k, m>> \notin OpToRel(<, Nat)
  BY NatLessThanWellFounded, WFMin
<1>2. \A k \in T : ~ (k < m)
  BY <1>1 DEF OpToRel
<1>3. \A k \in T : m <= k
  <2>1. SUFFICES ASSUME NEW k \in T PROVE m <= k
    OBVIOUS
  <2>2. k \in Nat /\ m \in Nat
    OBVIOUS
  <2> QED
    BY <1>2, <2>2, SMT
<1> QED
  BY <1>3

(* Induction over 0 .. n, for a set instead of a predicate. *)
LEMMA UpToAll ==
  ASSUME NEW n \in Nat, NEW Good,
         0 \in Good,
         \A k \in 1 .. n : k - 1 \in Good => k \in Good
  PROVE  0 .. n \subseteq Good
<1> DEFINE Bad == (0 .. n) \ Good
<1>1. SUFFICES ASSUME Bad # {} PROVE FALSE
  OBVIOUS
<1>2. Bad \in SUBSET Nat
  OBVIOUS
<1>3. PICK m \in Bad : \A k \in Bad : m <= k
  BY <1>1, <1>2, LeastElement
<1>4. m \in 1 .. n /\ m - 1 \in 0 .. n
  OBVIOUS
<1>5. m - 1 \notin Bad
  BY <1>2, <1>3, <1>4
<1> QED
  BY <1>4, <1>5

-----------------------------------------------------------------------------
(* Graphs.                                                                  *)

LEMMA PredsProperties ==
  ASSUME NEW N, NEW E, NEW v \in N, \A e \in E : e[1] \in N
  PROVE  /\ Preds(N, E, v) \subseteq N
         /\ v \in Preds(N, E, v)
         /\ PredClosed(E, Preds(N, E, v))
<1>1. ASSUME NEW e \in E, e[2] \in Preds(N, E, v)
      PROVE  e[1] \in Preds(N, E, v)
  <2>1. SUFFICES ASSUME NEW S \in SUBSET N, v \in S, PredClosed(E, S)
                 PROVE  e[1] \in S
    BY DEF Preds
  <2>2. e[2] \in S
    BY <1>1, <2>1 DEF Preds
  <2> QED
    BY <2>1, <2>2 DEF PredClosed
<1> QED
  BY <1>1 DEF Preds, PredClosed

(* A connection to a neuron that is no predecessor of its source: a set of  *)
(* neurons that meets the predecessors of v has a first one among them, the *)
(* others do not hold v, so that the new connection does not concern them.  *)
LEMMA AddKeepsAcyclic ==
  ASSUME NEW N, NEW E, NEW v \in N, NEW t \in N,
         \A e \in E : e[1] \in N,
         AcyclicGraph(N, E),
         t \notin Preds(N, E, v)
  PROVE  AcyclicGraph(N, E \cup {<<v, t>>})
<1> DEFINE P == Preds(N, E, v)
<1>1. v \in P /\ PredClosed(E, P)
  BY PredsProperties
<1> HIDE DEF P
<1>2. SUFFICES ASSUME NEW S \in SUBSET N, S # {}
               PROVE  \E w \in S : \A u \in S : <<u, w>> \notin E \cup {<<v, t>>}
  BY DEF AcyclicGraph
<1>3. CASE S \cap P # {}
  <2>1. PICK w \in S \cap P : \A u \in S \cap P : <<u, w>> \notin E
    BY <1>3 DEF AcyclicGraph
  <2>2. w # t
    BY <2>1 DEF P
  <2>3. ASSUME NEW u \in S, <<u, w>> \in E PROVE FALSE
    <3>1. u \in P
      BY <1>1, <2>1, <2>3 DEF PredClosed
    <3> QED
      BY <2>1, <2>3, <3>1
  <2> QED
    BY <2>1, <2>2, <2>3
<1>4. CASE S \cap P = {}
  <2>1. PICK w \in S : \A u \in S : <<u, w>> \notin E
    BY <1>2 DEF AcyclicGraph
  <2>2. v \notin S
    BY <1>1, <1>4
  <2> QED
    BY <2>1, <2>2
<1> QED
  BY <1>3, <1>4

LEMMA LessKeepsAcyclic ==
  ASSUME NEW N, NEW E, NEW M \in SUBSET N, NEW F \in SUBSET E, AcyclicGraph(N, E)
  PROVE  AcyclicGraph(M, F)
BY DEF AcyclicGraph

-----------------------------------------------------------------------------
(* Paths.                                                                   *)

(* AtDistance is defined by recursion; that a function solves its equation  *)
(* is shown for the domains 0 .. 0, 0 .. 1 and so on.                       *)
LEMMA AtDistanceEquation ==
  ASSUME NEW N, IsFiniteSet(N), NEW E, NEW s
  PROVE  LET at == AtDistance(N, E, s) IN
         /\ at[0] = {s}
         /\ \A k \in 1 .. Cardinality(N) :
              at[k] = {v \in N : \E u \in at[k - 1] : <<u, v>> \in E}
         /\ DOMAIN at = 0 .. Cardinality(N)
<1> DEFINE c == Cardinality(N)
           After(S) == {v \in N : \E u \in S : <<u, v>> \in E}
           Solves(g, n) == g = [k \in 0 .. n |-> IF k = 0 THEN {s} ELSE After(g[k - 1])]
           Good == {n \in 0 .. c : \E g : Solves(g, n)}
<1>1. c \in Nat
  BY FS_CardinalityType
<1>2. AtDistance(N, E, s) = CHOOSE g : Solves(g, c)
  BY DEF AtDistance
<1> HIDE DEF c, After
<1>3. 0 \in Good
  <2>1. Solves([k \in 0 .. 0 |-> {s}], 0)
    OBVIOUS
  <2> HIDE DEF Solves
  <2> QED
    BY <1>1, <2>1
<1>4. ASSUME NEW n \in 1 .. c, n - 1 \in Good
      PROVE  n \in Good
  <2>1. PICK g : Solves(g, n - 1)
    BY <1>4
  <2> DEFINE h == [k \in 0 .. n |-> IF k = n THEN After(g[n - 1]) ELSE g[k]]
  <2>2. ASSUME NEW k \in 0 .. n
        PROVE  h[k] = IF k = 0 THEN {s} ELSE After(h[k - 1])
    <3>1. CASE k = n
      <4>1. n # 0 /\ n - 1 \in 0 .. n /\ n - 1 # n
        OBVIOUS
      <4>2. h[n - 1] = g[n - 1]
        BY <4>1
      <4> QED
        BY <3>1, <4>1, <4>2
    <3>2. CASE k # n
      <4>1. k \in 0 .. (n - 1)
        BY <3>2
      <4>2. g[k] = IF k = 0 THEN {s} ELSE After(g[k - 1])
        BY <2>1, <4>1
      <4>3. k # 0 => h[k - 1] = g[k - 1]
        BY <4>1
      <4> QED
        BY <3>2, <4>2, <4>3
    <3> QED
      BY <3>1, <3>2
  <2>3. Solves(h, n)
    BY <2>2, Zenon
  <2> HIDE DEF Solves, h
  <2> QED
    BY <1>1, <2>3
<1>5. c \in Good
  <2> HIDE DEF Good
  <2>1. 0 .. c \subseteq Good
    BY <1>1, <1>3, <1>4, UpToAll
  <2> QED
    BY <1>1, <2>1
<1>6. Solves(AtDistance(N, E, s), c)
  BY <1>2, <1>5
<1> HIDE DEF Good
<1>7. \A k \in 1 .. c : k \in 0 .. c /\ k # 0
  BY <1>1
<1>8. 0 \in 0 .. c
  BY <1>1
<1> QED
  BY <1>6, <1>7, <1>8 DEF c, After

(* The equation, where it is used: the first neuron, an earlier one, a later. *)
LEMMA PathSteps ==
  ASSUME NEW N, IsFiniteSet(N), NEW E, NEW s \in N
  PROVE  LET at == AtDistance(N, E, s) IN
         /\ Cardinality(N) \in Nat /\ at[0] = {s}
         /\ \A k \in 0 .. Cardinality(N) : at[k] \subseteq N
         /\ \A k \in 1 .. Cardinality(N) : \A v \in at[k] :
              \E u \in at[k - 1] : <<u, v>> \in E
         /\ \A k \in 0 .. (Cardinality(N) - 1) : \A u \in at[k], v \in N :
              <<u, v>> \in E => v \in at[k + 1]
<1> DEFINE at == AtDistance(N, E, s)
<1>1. Cardinality(N) \in Nat
  BY FS_CardinalityType
<1>2. /\ at[0] = {s}
      /\ \A k \in 1 .. Cardinality(N) :
           at[k] = {v \in N : \E u \in at[k - 1] : <<u, v>> \in E}
      /\ DOMAIN at = 0 .. Cardinality(N)
  BY AtDistanceEquation
<1> HIDE DEF at
<1>3. \A k \in 0 .. Cardinality(N) : at[k] \subseteq N
  BY <1>1, <1>2
<1>4. ASSUME NEW k \in 0 .. (Cardinality(N) - 1), NEW u \in at[k], NEW v \in N,
             <<u, v>> \in E
      PROVE  v \in at[k + 1]
  <2>1. k + 1 \in 1 .. Cardinality(N) /\ (k + 1) - 1 = k
    BY <1>1
  <2> QED
    BY <1>2, <1>4, <2>1
<1> QED
  BY <1>1, <1>2, <1>3, <1>4 DEF at

LEMMA PredsLeast ==
  ASSUME NEW N, NEW E, NEW v, NEW S \in SUBSET N, v \in S, PredClosed(E, S)
  PROVE  Preds(N, E, v) \subseteq S
BY DEF Preds

(* The predecessors of a neuron that is fed are itself and those of the     *)
(* neurons that feed it.                                                    *)
LEMMA PredsThrough ==
  ASSUME NEW N, NEW E \in SUBSET (N \X N), NEW v \in N, NEW p \in Preds(N, E, v), p # v
  PROVE  \E u \in Preds(N, E, v) : <<u, v>> \in E /\ p \in Preds(N, E, u)
<1> DEFINE Through == {w \in N : \E u \in N : <<u, v>> \in E /\ w \in Preds(N, E, u)}
<1>1. \A u \in N : /\ Preds(N, E, u) \subseteq N /\ u \in Preds(N, E, u)
                   /\ PredClosed(E, Preds(N, E, u))
  BY PredsProperties
<1>2. PredClosed(E, Through \cup {v})
  <2>1. SUFFICES ASSUME NEW e \in E, e[2] \in Through \cup {v}
                 PROVE  e[1] \in Through
    BY DEF PredClosed
  <2>2. e = <<e[1], e[2]>> /\ e[1] \in N
    OBVIOUS
  <2>3. CASE e[2] = v
    BY <1>1, <2>2, <2>3
  <2>4. CASE e[2] \in Through
    <3>1. PICK u \in N : <<u, v>> \in E /\ e[2] \in Preds(N, E, u)
      BY <2>4
    <3>2. e[1] \in Preds(N, E, u)
      BY <1>1, <3>1 DEF PredClosed
    <3> QED
      BY <2>2, <3>1, <3>2
  <2> QED
    BY <2>1, <2>3, <2>4
<1>3. p \in Through
  BY <1>2, PredsLeast
<1>4. PICK u \in N : <<u, v>> \in E /\ p \in Preds(N, E, u)
  BY <1>3
<1>5. u \in Preds(N, E, v)
  <2>1. <<u, v>>[1] = u /\ <<u, v>>[2] = v
    OBVIOUS
  <2> QED
    BY <1>1, <1>4, <2>1 DEF PredClosed
<1> QED
  BY <1>4, <1>5

(* Along a connection of an acyclic graph the predecessors get more.        *)
LEMMA PredsGrow ==
  ASSUME NEW N, NEW E \in SUBSET (N \X N), AcyclicGraph(N, E),
         NEW u \in N, NEW v \in N, <<u, v>> \in E
  PROVE  /\ Preds(N, E, u) \cup {v} \subseteq Preds(N, E, v)
         /\ v \notin Preds(N, E, u)
<1>1. \A w \in N : /\ Preds(N, E, w) \subseteq N /\ w \in Preds(N, E, w)
                   /\ PredClosed(E, Preds(N, E, w))
  BY PredsProperties
<1>2. u \in Preds(N, E, v)
  <2>1. <<u, v>>[1] = u /\ <<u, v>>[2] = v
    OBVIOUS
  <2> QED
    BY <1>1, <2>1 DEF PredClosed
<1>3. Preds(N, E, u) \subseteq Preds(N, E, v)
  BY <1>1, <1>2, PredsLeast
<1>4. ASSUME v \in Preds(N, E, u) PROVE FALSE
  <2> DEFINE cycle == {w \in Preds(N, E, u) : v \in Preds(N, E, w)}
  <2>1. u \in cycle /\ cycle \subseteq N
    BY <1>1, <1>4
  <2>2. PICK w \in cycle : \A x \in cycle : <<x, w>> \notin E
    BY <2>1 DEF AcyclicGraph
  <2>3. w # v
    BY <2>1, <2>2
  <2>4. PICK x \in Preds(N, E, w) : <<x, w>> \in E /\ v \in Preds(N, E, x)
    BY <2>1, <2>2, <2>3, PredsThrough
  <2>5. x \in Preds(N, E, u)
    BY <1>1, <2>1, <2>2, <2>4, PredsLeast
  <2> QED
    BY <2>2, <2>4, <2>5
<1> QED
  BY <1>1, <1>3, <1>4

(* So no path has as many connections as there are neurons: AtDistance      *)
(* stops late enough.                                                       *)
LEMMA PathsAreShort ==
  ASSUME NEW N, IsFiniteSet(N), NEW E \in SUBSET (N \X N), AcyclicGraph(N, E),
         NEW s \in N, NEW k \in 0 .. Cardinality(N), NEW v \in AtDistance(N, E, s)[k]
  PROVE  k < Cardinality(N)
<1> DEFINE at == AtDistance(N, E, s)
           c == Cardinality(N)
           Many == {n \in 0 .. c : \A w \in at[n] : n < Cardinality(Preds(N, E, w))}
<1>1. /\ c \in Nat /\ at[0] = {s}
      /\ \A n \in 0 .. c : at[n] \subseteq N
      /\ \A n \in 1 .. c : \A w \in at[n] : \E u \in at[n - 1] : <<u, w>> \in E
  BY PathSteps
<1>2. ASSUME NEW w \in N
      PROVE  /\ w \in Preds(N, E, w) /\ IsFiniteSet(Preds(N, E, w))
             /\ Cardinality(Preds(N, E, w)) \in Nat
             /\ Cardinality(Preds(N, E, w)) <= c
  <2>1. w \in Preds(N, E, w) /\ Preds(N, E, w) \subseteq N
    BY PredsProperties
  <2> QED
    BY <2>1, FS_Subset, FS_CardinalityType
<1> HIDE DEF at, c
<1>3. 0 \in Many
  <2>1. Cardinality(Preds(N, E, s)) # 0
    BY <1>2, FS_EmptySet
  <2> QED
    BY <1>1, <1>2, <2>1
<1>4. ASSUME NEW n \in 1 .. c, n - 1 \in Many
      PROVE  n \in Many
  <2>1. SUFFICES ASSUME NEW w \in at[n] PROVE n < Cardinality(Preds(N, E, w))
    BY <1>1
  <2>2. PICK u \in at[n - 1] : <<u, w>> \in E
    BY <1>1
  <2>3. w \in N /\ u \in N /\ n - 1 < Cardinality(Preds(N, E, u))
    BY <1>1, <1>4, <2>2
  <2>4. /\ Preds(N, E, u) \cup {w} \subseteq Preds(N, E, w)
        /\ w \notin Preds(N, E, u)
    BY <2>2, <2>3, PredsGrow
  <2>5. Cardinality(Preds(N, E, u) \cup {w}) = Cardinality(Preds(N, E, u)) + 1
    BY <1>2, <2>3, <2>4, FS_AddElement
  <2>6. Cardinality(Preds(N, E, u) \cup {w}) <= Cardinality(Preds(N, E, w))
    BY <1>2, <2>3, <2>4, FS_Subset
  <2> QED
    BY <1>1, <1>2, <2>3, <2>5, <2>6
<1>5. k \in Many
  <2> HIDE DEF Many
  <2>1. 0 .. c \subseteq Many
    BY <1>1, <1>3, <1>4, UpToAll
  <2> QED
    BY <2>1 DEF c
<1> QED
  BY <1>1, <1>2, <1>5 DEF at, c

(* What follows a neuron that a search finds is found too.                  *)
LEMMA FoundFollows ==
  ASSUME NEW N, IsFiniteSet(N), NEW E \in SUBSET (N \X N), AcyclicGraph(N, E),
         NEW s \in N, NEW u \in Found(N, E, s), NEW v, <<u, v>> \in E
  PROVE  v \in Found(N, E, s)
<1> DEFINE at == AtDistance(N, E, s)
           c == Cardinality(N)
<1>1. PICK k \in 0 .. c : u \in at[k]
  BY DEF Found
<1>2. k < c
  BY <1>1, PathsAreShort
<1>3. /\ c \in Nat
      /\ \A n \in 0 .. (c - 1) : \A x \in at[n], y \in N :
           <<x, y>> \in E => y \in at[n + 1]
  BY PathSteps
<1>4. v \in N
  OBVIOUS
<1>5. v \in at[k + 1] /\ k + 1 \in 0 .. c
  <2> HIDE DEF at, c
  <2> QED
    BY <1>1, <1>2, <1>3, <1>4
<1> QED
  BY <1>5 DEF Found

(* The search backwards and the one forwards agree.                         *)
LEMMA PredsAreFound ==
  ASSUME NEW N, IsFiniteSet(N), NEW E \in SUBSET (N \X N), AcyclicGraph(N, E),
         NEW o \in N, NEW s \in Preds(N, E, o)
  PROVE  o \in Found(N, E, s)
<1> DEFINE missed == N \ Found(N, E, s)
<1>1. SUFFICES ASSUME o \notin Found(N, E, s) PROVE FALSE
  OBVIOUS
<1>2. s \in N
  BY PredsProperties
<1>3. s \in Found(N, E, s)
  <2>1. AtDistance(N, E, s)[0] = {s} /\ Cardinality(N) \in Nat
    BY <1>2, PathSteps
  <2>2. 0 \in 0 .. Cardinality(N)
    BY <2>1
  <2> QED
    BY <2>1, <2>2 DEF Found
<1>4. PredClosed(E, missed)
  <2>1. SUFFICES ASSUME NEW e \in E, e[2] \in missed, e[1] \in Found(N, E, s)
                 PROVE  FALSE
    BY DEF PredClosed
  <2>2. <<e[1], e[2]>> \in E
    OBVIOUS
  <2> QED
    BY <1>2, <2>1, <2>2, FoundFollows
<1>5. Preds(N, E, o) \subseteq missed
  BY <1>1, <1>4, PredsLeast
<1> QED
  BY <1>3, <1>5

(* _compute_depth() exceeds the length of every path it relaxes.            *)
LEMMA LengthsBelowDepth ==
  ASSUME NEW N, IsFiniteSet(N), NEW E, NEW inputs, NEW outputs
  PROVE  /\ DepthOf(N, E, inputs, outputs) \in Nat \ {0}
         /\ \A j \in DOMAIN inputs : \A k \in Lengths(N, E, inputs, outputs, j) :
              k < DepthOf(N, E, inputs, outputs)
<1> DEFINE c == Cardinality(N)
           found == UNION {Lengths(N, E, inputs, outputs, j) : j \in DOMAIN inputs}
           Longest(d) == \A k \in found : k <= d
<1>1. c \in Nat
  BY FS_CardinalityType
<1>2. ASSUME NEW j \in DOMAIN inputs
      PROVE  Lengths(N, E, inputs, outputs, j) \subseteq 0 .. c
  <2> DEFINE white == {e \in E : e[1] \notin Black(N, E, inputs, j)}
  <2>1. DOMAIN AtDistance(N, white, inputs[j]) = 0 .. c
    BY AtDistanceEquation
  <2> QED
    BY <2>1 DEF Lengths
<1>3. found \subseteq 0 .. c
  BY <1>2
<1>4. DepthOf(N, E, inputs, outputs) = 1 + (CHOOSE d \in found \cup {0} : Longest(d))
  BY DEF DepthOf
<1>5. \A j \in DOMAIN inputs : Lengths(N, E, inputs, outputs, j) \subseteq found
  OBVIOUS
<1> HIDE DEF c, found
<1>6. \E d \in found \cup {0} : Longest(d)
  <2> DEFINE rests == {c - k : k \in found \cup {0}}
  <2>1. rests \in SUBSET Nat /\ rests # {}
    BY <1>1, <1>3
  <2>2. PICK m \in rests : \A r \in rests : m <= r
    <3> HIDE DEF rests
    <3> QED
      BY <2>1, LeastElement
  <2>3. PICK d \in found \cup {0} : m = c - d
    OBVIOUS
  <2>4. \A k \in found : c - d <= c - k
    BY <2>2, <2>3
  <2> QED
    BY <1>1, <1>3, <2>4
<1>7. PICK d \in found \cup {0} :
        DepthOf(N, E, inputs, outputs) = 1 + d /\ Longest(d)
  <2> HIDE DEF Longest
  <2> QED
    BY <1>4, <1>6
<1>8. d \in Nat /\ \A k \in found : k \in Nat /\ k <= d
  BY <1>1, <1>3, <1>7
<1>9. ASSUME NEW j \in DOMAIN inputs, NEW k \in Lengths(N, E, inputs, outputs, j)
      PROVE  k < DepthOf(N, E, inputs, outputs)
  <2>1. k \in found
    BY <1>5
  <2> QED
    BY <1>7, <1>8, <2>1
<1> QED
  BY <1>7, <1>8, <1>9

(* The search from inputs[j] sees all the paths to an output that no search *)
(* before it has found: none of their neurons is black.                     *)
LEMMA PathsBelowDepth ==
  ASSUME NEW N, IsFiniteSet(N), NEW E \in SUBSET (N \X N), AcyclicGraph(N, E),
         NEW inputs \in Seq(N), NEW outputs, NEW j \in DOMAIN inputs,
         NEW o \in outputs, o \notin Black(N, E, inputs, j),
         NEW k \in 0 .. Cardinality(N), o \in AtDistance(N, E, inputs[j])[k]
  PROVE  k < DepthOf(N, E, inputs, outputs)
<1> DEFINE c == Cardinality(N)
           black == Black(N, E, inputs, j)
           white == {e \in E : e[1] \notin black}
           at == AtDistance(N, E, inputs[j])
           atWhite == AtDistance(N, white, inputs[j])
           Seen == {n \in 0 .. c : at[n] \ black \subseteq atWhite[n]}
<1>1. inputs[j] \in N /\ \A m \in 1 .. (j - 1) : inputs[m] \in N
  OBVIOUS
<1>2. \A u, v : <<u, v>> \in E /\ u \in black => v \in black
  <2>1. SUFFICES ASSUME NEW u, NEW v, <<u, v>> \in E, u \in black
                 PROVE  v \in black
    OBVIOUS
  <2>2. PICK m \in 1 .. (j - 1) : u \in Found(N, E, inputs[m])
    BY <2>1 DEF Black
  <2>3. v \in Found(N, E, inputs[m])
    BY <1>1, <2>1, <2>2, FoundFollows
  <2> QED
    BY <2>3 DEF Black
<1>3. /\ c \in Nat /\ at[0] = {inputs[j]}
      /\ \A n \in 0 .. c : at[n] \subseteq N
      /\ \A n \in 1 .. c : \A w \in at[n] : \E u \in at[n - 1] : <<u, w>> \in E
  BY <1>1, PathSteps
<1>4. /\ atWhite[0] = {inputs[j]}
      /\ \A n \in 0 .. (c - 1) : \A x \in atWhite[n], y \in N :
           <<x, y>> \in white => y \in atWhite[n + 1]
  BY <1>1, PathSteps
<1>5. DOMAIN atWhite = 0 .. c
  BY AtDistanceEquation
<1>6. o \notin black
  OBVIOUS
<1>7. atWhite[k] \cap outputs # {} => k \in Lengths(N, E, inputs, outputs, j)
  BY <1>5 DEF Lengths
<1>8. \A u, v : <<u, v>> \in E /\ u \notin black => <<u, v>> \in white
  OBVIOUS
<1> HIDE DEF c, black, white, at, atWhite
<1>9. 0 \in Seen
  BY <1>3, <1>4
<1>10. ASSUME NEW n \in 1 .. c, n - 1 \in Seen
       PROVE  n \in Seen
  <2>1. SUFFICES ASSUME NEW v \in at[n] \ black PROVE v \in atWhite[n]
    BY <1>3
  <2>2. PICK u \in at[n - 1] : <<u, v>> \in E
    BY <1>3
  <2>3. u \notin black
    BY <1>2, <2>1, <2>2
  <2>4. u \in atWhite[n - 1] /\ <<u, v>> \in white /\ v \in N
    BY <1>3, <1>8, <1>10, <2>2, <2>3
  <2>5. n - 1 \in 0 .. (c - 1) /\ (n - 1) + 1 = n
    BY <1>3
  <2> QED
    BY <1>4, <2>4, <2>5
<1>11. k \in Seen
  <2> HIDE DEF Seen
  <2>1. 0 .. c \subseteq Seen
    BY <1>3, <1>9, <1>10, UpToAll
  <2> QED
    BY <2>1 DEF c
<1>12. o \in atWhite[k]
  BY <1>6, <1>11 DEF at
<1>13. k \in Lengths(N, E, inputs, outputs, j)
  BY <1>7, <1>12
<1> QED
  BY <1>13, LengthsBelowDepth

-----------------------------------------------------------------------------
(* The invariant, action by action.                                         *)

LEMMA EdgesInside ==
  ASSUME IInv
  PROVE  \A e \in Edges : e[1] \in neurons /\ e[2] \in neurons
BY DEF IInv, WellFormed

LEMMA InitHolds == Init => IInv
<1> SUFFICES ASSUME Init PROVE IInv
  OBVIOUS
<1>1. Edges = {}
  BY DEF Init, Edges
<1> QED
  BY <1>1 DEF Init, IInv, TypeOK, FeedForward, AcyclicGraph, WellFormed, OwnDepth

LEMMA AddConnHolds ==
  ASSUME IInv, phase # "start", phase' # "start", AddConn, neurons' = neurons
  PROVE  /\ conns' \in [Pairs -> Nat]
         /\ FeedForward'
         /\ WellFormed'
<1>1. TypeOK
  BY DEF IInv
<1>2. CASE conns' = conns
  BY <1>2 DEF IInv, TypeOK, FeedForward, WellFormed, Edges
<1>3. ASSUME NEW v \in neurons \ Outputs,
             NEW t \in (neurons \ Preds(neurons, Edges, v)) \ Inputs,
             conns' = [conns EXCEPT ![<<v, t>>] = @ + 1]
      PROVE  /\ conns' \in [Pairs -> Nat]
             /\ FeedForward'
             /\ WellFormed'
  <2>1. <<v, t>> \in Pairs
    BY <1>1 DEF TypeOK, Pairs
  <2>2. conns' \in [Pairs -> Nat]
    BY <1>1, <1>3, <2>1 DEF TypeOK
  <2>3. Edges' = Edges \cup {<<v, t>>}
    <3>1. conns'[<<v, t>>] > 0
      BY <1>1, <1>3, <2>1 DEF TypeOK
    <3>2. \A e \in Pairs : e # <<v, t>> => conns'[e] = conns[e]
      BY <1>1, <1>3 DEF TypeOK
    <3>3. Pairs' = Pairs
      BY DEF Pairs
    <3> QED
      BY <2>1, <3>1, <3>2, <3>3 DEF Edges
  <2>4. FeedForward'
    <3>1. AcyclicGraph(neurons, Edges \cup {<<v, t>>})
      BY EdgesInside, AddKeepsAcyclic DEF IInv, FeedForward
    <3> QED
      BY <2>3, <3>1 DEF FeedForward
  <2>5. WellFormed'
    <3>1. \A e \in Edges : e[1] \in neurons \ Outputs /\ e[2] \in neurons \ Inputs
      BY DEF IInv, WellFormed
    <3>2. Inputs \cup Outputs \subseteq neurons
      BY DEF IInv, WellFormed
    <3> QED
      BY <2>3, <3>1, <3>2 DEF WellFormed
  <2> QED
    BY <2>2, <2>4, <2>5
<1> QED
  BY <1>2, <1>3 DEF AddConn

LEMMA RandomHolds == IInv /\ Random => IInv'
<1> SUFFICES ASSUME IInv, Random PROVE IInv'
  OBVIOUS
<1> USE DEF Random
<1>1. PICK H \in SUBSET Hidden : neurons' = Inputs \cup Outputs \cup H
  OBVIOUS
<1>2. todo' \in Nat
  BY NumbersAssumption
<1>3. TypeOK'
  BY <1>1, <1>2 DEF IInv, TypeOK, Vertices, Pairs
<1>4. Edges = {} /\ Edges' = {}
  BY DEF IInv, WellFormed, Edges, Pairs
<1>5. FeedForward'
  BY <1>4 DEF FeedForward, AcyclicGraph
<1>6. WellFormed'
  BY <1>1, <1>4 DEF WellFormed
<1> QED
  BY <1>3, <1>5, <1>6 DEF IInv, OwnDepth

LEMMA RandomConnHolds == IInv /\ RandomConn => IInv'
<1> SUFFICES ASSUME IInv, RandomConn PROVE IInv'
  OBVIOUS
<1> USE DEF RandomConn
<1>1. /\ conns' \in [Pairs -> Nat]
      /\ FeedForward'
      /\ WellFormed'
  BY AddConnHolds
<1>2. todo' \in Nat
  BY DEF IInv, TypeOK
<1>3. TypeOK'
  BY <1>1, <1>2 DEF IInv, TypeOK, Pairs
<1> QED
  BY <1>1, <1>3 DEF IInv, OwnDepth

LEMMA UsefulInside ==
  ASSUME Inputs \cup Outputs \subseteq neurons
  PROVE  Useful \subseteq neurons /\ Inputs \cup Outputs \subseteq Useful
<1> DEFINE leading == UNION {Preds(neurons, Edges, o) : o \in Outputs}
<1>1. leading \subseteq neurons
  <2>1. \A o \in Outputs : Preds(neurons, Edges, o) \subseteq neurons
    BY DEF Preds
  <2> QED
    BY <2>1
<1>2. Useful = Inputs \cup Outputs \cup leading
  BY DEF Useful
<1> HIDE DEF leading
<1> QED
  BY <1>1, <1>2

LEMMA SimplifyHolds == IInv /\ Simplify => IInv'
<1> SUFFICES ASSUME IInv, Simplify PROVE IInv'
  OBVIOUS
<1> USE DEF Simplify
<1>1. Inputs \cup Outputs \subseteq neurons
  BY DEF IInv, WellFormed
<1>2. Useful \subseteq neurons /\ Inputs \cup Outputs \subseteq Useful
  BY <1>1, UsefulInside
<1>3. conns' \in [Pairs -> Nat]
  BY DEF IInv, TypeOK
<1>4. Edges' \subseteq Edges /\ \A e \in Edges' : e[1] \in Useful /\ e[2] \in Useful
  <2>1. \A e \in Pairs : conns'[e] > 0 => e \in Useful \X Useful /\ conns[e] > 0
    OBVIOUS
  <2> QED
    BY <2>1 DEF Edges, Pairs
<1>5. TypeOK'
  BY <1>2, <1>3 DEF IInv, TypeOK, Pairs
<1>6. FeedForward'
  BY <1>2, <1>4, LessKeepsAcyclic DEF IInv, FeedForward
<1>7. WellFormed'
  BY <1>2, <1>4 DEF IInv, WellFormed
<1> QED
  BY <1>5, <1>6, <1>7 DEF IInv, OwnDepth

LEMMA CrossHolds == IInv /\ Cross => IInv'
BY DEF Cross, IInv, TypeOK, FeedForward, WellFormed, OwnDepth, Edges

LEMMA MutateAddHolds == IInv /\ MutateAdd => IInv'
<1> SUFFICES ASSUME IInv, MutateAdd PROVE IInv'
  OBVIOUS
<1> USE DEF MutateAdd
<1>1. CASE UNCHANGED conns
  BY <1>1 DEF IInv, TypeOK, FeedForward, WellFormed, OwnDepth, Edges
<1>2. CASE AddConn
  <2>1. /\ conns' \in [Pairs -> Nat]
        /\ FeedForward'
        /\ WellFormed'
    BY <1>2, AddConnHolds
  <2>2. TypeOK'
    BY <2>1 DEF IInv, TypeOK, Pairs
  <2> QED
    BY <2>1, <2>2 DEF IInv, OwnDepth
<1> QED
  BY <1>1, <1>2

LEMMA MutateDelHolds == IInv /\ MutateDel => IInv'
<1> SUFFICES ASSUME IInv, MutateDel PROVE IInv'
  OBVIOUS
<1> USE DEF MutateDel
<1>1. /\ conns' \in [Pairs -> Nat]
      /\ \A e \in Pairs : conns'[e] > 0 => conns[e] > 0
  <2>1. CASE UNCHANGED conns
    BY <2>1 DEF IInv, TypeOK
  <2>2. ASSUME NEW d \in Edges, conns' = [conns EXCEPT ![d] = @ - 1]
        PROVE  /\ conns' \in [Pairs -> Nat]
               /\ \A e \in Pairs : conns'[e] > 0 => conns[e] > 0
    <3>1. d \in Pairs /\ conns[d] \in Nat /\ conns[d] > 0
      BY DEF IInv, TypeOK, Edges
    <3>2. conns[d] - 1 \in Nat
      BY <3>1
    <3> QED
      BY <2>2, <3>1, <3>2 DEF IInv, TypeOK
  <2> QED
    BY <2>1, <2>2
<1>2. Edges' \subseteq Edges
  BY <1>1 DEF Edges, Pairs
<1>3. TypeOK'
  BY <1>1 DEF IInv, TypeOK, Pairs
<1>4. FeedForward'
  BY <1>2, LessKeepsAcyclic DEF IInv, FeedForward
<1>5. WellFormed'
  BY <1>2 DEF IInv, WellFormed
<1> QED
  BY <1>3, <1>4, <1>5 DEF IInv, OwnDepth

LEMMA DevelopHolds == IInv /\ Develop => IInv'
<1> SUFFICES ASSUME IInv, Develop PROVE IInv'
  OBVIOUS
<1> USE DEF Develop
<1>1. Edges' = Edges
  BY DEF Edges, Pairs
<1>2. depth' \in Nat
  <2>1. IsFiniteSet(neurons)
    BY FS_Subset, VerticesAssumption DEF IInv, TypeOK
  <2> QED
    BY <2>1, LengthsBelowDepth
<1>3. TypeOK'
  BY <1>2 DEF IInv, TypeOK, Pairs
<1>4. OwnDepth'
  BY <1>1 DEF IInv, OwnDepth
<1> QED
  BY <1>1, <1>3, <1>4 DEF IInv, FeedForward, WellFormed

-----------------------------------------------------------------------------
THEOREM Invariance == Spec => []IInv
<1>1. IInv /\ [Next]_vars => IInv'
  <2>1. IInv /\ UNCHANGED vars => IInv'
    BY DEF vars, IInv, TypeOK, FeedForward, WellFormed, OwnDepth, Edges
  <2> QED
    BY <2>1, RandomHolds, RandomConnHolds, SimplifyHolds, CrossHolds,
       MutateAddHolds, MutateDelHolds, DevelopHolds DEF Next
<1> QED
  BY <1>1, InitHolds, PTL DEF Spec

(* The breadth-first search for predecessors in _add_conn() is enough to    *)
(* keep every lineage of networks without a cycle.                          *)
THEOREM NetworksStayFeedForward == Spec => []FeedForward
<1>1. IInv => FeedForward
  BY DEF IInv
<1> QED
  BY <1>1, Invariance, PTL

(* Inputs and outputs are never lost and stay sources and sinks.            *)
THEOREM NetworksStayWellFormed == Spec => []WellFormed
<1>1. IInv => WellFormed
  BY DEF IInv
<1> QED
  BY <1>1, Invariance, PTL

(* The type invariant: a depth is computed, and a number, in every network. *)
THEOREM TypeCorrect == Spec => []TypeOK
<1>1. IInv => TypeOK
  BY DEF IInv
<1> QED
  BY <1>1, Invariance, PTL

-----------------------------------------------------------------------------
(* The depth of a network.                                                  *)

LEMMA GraphFacts ==
  ASSUME IInv
  PROVE  /\ IsFiniteSet(neurons)
         /\ Edges \in SUBSET (neurons \X neurons)
         /\ AcyclicGraph(neurons, Edges)
         /\ phase # "start" => InputSeq \in Seq(neurons) /\ Inputs \subseteq neurons
<1>1. IsFiniteSet(neurons)
  BY FS_Subset, VerticesAssumption DEF IInv, TypeOK
<1>2. Edges \in SUBSET (neurons \X neurons)
  <2>1. \A e \in Edges : e = <<e[1], e[2]>>
    BY DEF Edges, Pairs
  <2> QED
    BY <2>1, EdgesInside
<1>3. phase # "start" => Inputs \subseteq neurons
  BY DEF IInv, WellFormed
<1>4. Inputs \subseteq neurons => InputSeq \in Seq(neurons)
  BY VerticesAssumption
<1> QED
  BY <1>1, <1>2, <1>3, <1>4 DEF IInv, FeedForward

(* The paths from an input to an output that no earlier input leads to.     *)
FreshPathsSuffice ==
  \A j \in DOMAIN InputSeq, k \in Distances : \A o \in Outputs :
    /\ PathTo(InputSeq[j], o, k)
    /\ \A m \in 1 .. (j - 1) : o \notin Found(neurons, Edges, InputSeq[m])
    => k < depth

LEMMA NetworkDepth == IInv /\ phase = "network" => FreshPathsSuffice
<1> SUFFICES ASSUME IInv, phase = "network",
                    NEW j \in DOMAIN InputSeq, NEW k \in Distances, NEW o \in Outputs,
                    PathTo(InputSeq[j], o, k),
                    \A m \in 1 .. (j - 1) : o \notin Found(neurons, Edges, InputSeq[m])
             PROVE  k < depth
  BY DEF FreshPathsSuffice
<1>1. /\ IsFiniteSet(neurons) /\ Edges \in SUBSET (neurons \X neurons)
      /\ AcyclicGraph(neurons, Edges) /\ InputSeq \in Seq(neurons)
  BY GraphFacts
<1>2. o \notin Black(neurons, Edges, InputSeq, j)
  BY DEF Black
<1>3. depth = DepthOf(neurons, Edges, InputSeq, Outputs)
  BY DEF IInv, OwnDepth
<1> QED
  BY <1>1, <1>2, <1>3, PathsBelowDepth DEF PathTo, Distances

(* The depth of every network of a lineage exceeds all the paths to an      *)
(* output from the first input that leads there, however many inputs there  *)
(* are: what is not counted are paths to outputs that an earlier one found. *)
THEOREM DepthOfFreshPaths == Spec => [](phase = "network" => FreshPathsSuffice)
<1>1. IInv => (phase = "network" => FreshPathsSuffice)
  BY NetworkDepth
<1> QED
  BY <1>1, Invariance, PTL

LEMMA OneInputIsDeep ==
  ASSUME Len(InputSeq) = 1, IInv
  PROVE  DepthIsCurrent
<1>1. SUFFICES ASSUME phase = "network", NEW i \in Inputs,
                      NEW k \in 0 .. Cardinality(neurons),
                      AtDistance(neurons, Edges, i)[k] \cap Outputs # {}
               PROVE  k < depth
  BY DEF DepthIsCurrent, DepthSuffices
<1>2. PICK o \in Outputs : o \in AtDistance(neurons, Edges, i)[k]
  BY <1>1
<1>3. DOMAIN InputSeq = {1} /\ i = InputSeq[1]
  BY VerticesAssumption DEF Inputs
<1>4. PathTo(InputSeq[1], o, k) /\ k \in Distances
  BY <1>2, <1>3 DEF PathTo, Distances
<1>5. FreshPathsSuffice
  BY <1>1, NetworkDepth
<1> QED
  BY <1>3, <1>4, <1>5 DEF FreshPathsSuffice

(* With one input the depth is that of the longest path, as                 *)
(* gen_dnn_ff.hpp:536 says, in every network of every lineage.              *)
THEOREM DepthOfOneInput ==
  ASSUME Len(InputSeq) = 1
  PROVE  Spec => []DepthIsCurrent
<1>1. IInv => DepthIsCurrent
  BY OneInputIsDeep
<1> QED
  BY <1>1, Invariance, PTL

(* What NnStep evaluates is what DnnFF makes: each network of a lineage is  *)
(* one of Networks, with hidden neurons of its own and its own depth.       *)
THEOREM LineageIsEvaluable ==
  Spec => [](phase = "network" =>
               /\ todo = 0
               /\ \E H \in SUBSET Hidden : neurons = Inputs \cup Outputs \cup H
               /\ Edges \in Networks
               /\ depth = DepthOf(neurons, Edges, InputSeq, Outputs))
<1> DEFINE hidden == neurons \cap Hidden
           inside == Edges \cap Inner
           across == Edges \cap Border
<1>1. ASSUME IInv, phase = "network"
      PROVE  Edges \in Networks
  <2>1. AcyclicGraph(hidden, inside)
    BY <1>1, LessKeepsAcyclic, GraphFacts
  <2>2. \A e \in Edges : /\ e \in neurons \X neurons
                         /\ e[1] \in neurons \ Outputs /\ e[2] \in neurons \ Inputs
    BY <1>1, GraphFacts DEF IInv, WellFormed
  <2>3. Edges \subseteq (neurons \ Outputs) \X (neurons \ Inputs)
    BY <2>2
  <2>4. Edges = across \cup inside
    BY <2>3 DEF Border
  <2>5. across \in SUBSET Border /\ inside \in SUBSET Inner
    OBVIOUS
  <2> HIDE DEF inside, across
  <2> QED
    BY <2>1, <2>4, <2>5 DEF Networks
<1>2. ASSUME IInv, phase = "network"
      PROVE  /\ hidden \in SUBSET Hidden
             /\ neurons = Inputs \cup Outputs \cup hidden
  BY <1>1, <1>2 DEF IInv, TypeOK, WellFormed, Vertices
<1>3. IInv => (phase = "network" =>
                 /\ todo = 0
                 /\ \E H \in SUBSET Hidden : neurons = Inputs \cup Outputs \cup H
                 /\ Edges \in Networks
                 /\ depth = DepthOf(neurons, Edges, InputSeq, Outputs))
  BY <1>1, <1>2 DEF IInv, OwnDepth
<1> QED
  BY <1>3, Invariance, PTL

-----------------------------------------------------------------------------
(* The evaluation of a network.                                             *)

(* What the steps of the proof use of a developed network.                  *)
LEMMA DevelopedFacts ==
  ASSUME Developed
  PROVE  /\ Cardinality(neurons) \in Nat
         /\ Inputs \subseteq neurons /\ Outputs \subseteq neurons
         /\ Inputs \cap Outputs = {}
         /\ depth \in Nat \ {0}
         /\ \A v \in neurons : Sources(v) = {u \in neurons : <<u, v>> \in Edges}
         /\ \A u, v : <<u, v>> \in Edges => v \in neurons \ Inputs
<1>1. IInv /\ phase = "network"
  BY DEF Developed
<1>2. IsFiniteSet(neurons)
  BY <1>1, GraphFacts
<1>3. Cardinality(neurons) \in Nat
  BY <1>2, FS_CardinalityType
<1>4. depth \in Nat \ {0}
  BY <1>1, <1>2, LengthsBelowDepth DEF IInv, OwnDepth
<1>5. \A v \in neurons : Sources(v) = {u \in neurons : <<u, v>> \in Edges}
  BY <1>1 DEF IInv, TypeOK, Sources, Edges, Pairs
<1>6. \A u, v : <<u, v>> \in Edges => v \in neurons \ Inputs
  <2>1. \A u, v : <<u, v>>[2] = v
    OBVIOUS
  <2> QED
    BY <1>1, <2>1 DEF IInv, WellFormed
<1> QED
  BY <1>1, <1>3, <1>4, <1>5, <1>6, VerticesAssumption DEF IInv, WellFormed

(* The paths of a developed network: from an input, one longer, and back.   *)
LEMMA DevelopedPaths ==
  ASSUME Developed, NEW i \in Inputs
  PROVE  LET at == AtDistance(neurons, Edges, i) IN
         /\ at[0] = {i}
         /\ \A k \in Distances : at[k] \subseteq neurons
         /\ \A k \in Distances : \A u, v :
              u \in at[k] /\ <<u, v>> \in Edges => k + 1 \in Distances /\ v \in at[k + 1]
         /\ \A k \in Distances : \A v : k # 0 /\ v \in at[k] =>
              k - 1 \in Distances /\ \E u \in at[k - 1] : <<u, v>> \in Edges
<1> DEFINE c == Cardinality(neurons)
           at == AtDistance(neurons, Edges, i)
<1>1. /\ IsFiniteSet(neurons) /\ Edges \in SUBSET (neurons \X neurons)
      /\ AcyclicGraph(neurons, Edges) /\ i \in neurons /\ c \in Nat
  BY GraphFacts, DevelopedFacts DEF Developed
<1>2. /\ at[0] = {i}
      /\ \A k \in 0 .. c : at[k] \subseteq neurons
      /\ \A k \in 1 .. c : \A v \in at[k] : \E u \in at[k - 1] : <<u, v>> \in Edges
      /\ \A k \in 0 .. (c - 1) : \A u \in at[k], v \in neurons :
           <<u, v>> \in Edges => v \in at[k + 1]
  BY <1>1, PathSteps
<1>3. \A k \in 0 .. c : \A v \in at[k] : k < c
  BY <1>1, PathsAreShort
<1>4. \A u, v : <<u, v>> \in Edges => v \in neurons
  BY <1>1
<1> HIDE DEF c, at
<1>5. ASSUME NEW k \in 0 .. c, NEW u \in at[k], NEW v, <<u, v>> \in Edges
      PROVE  k + 1 \in 0 .. c /\ v \in at[k + 1]
  <2>1. k \in 0 .. (c - 1)
    BY <1>1, <1>3
  <2> QED
    BY <1>1, <1>2, <1>4, <1>5, <2>1
<1>6. ASSUME NEW k \in 0 .. c, NEW v \in at[k], k # 0
      PROVE  k - 1 \in 0 .. c /\ \E u \in at[k - 1] : <<u, v>> \in Edges
  <2>1. k \in 1 .. c /\ k - 1 \in 0 .. c
    BY <1>1, <1>6
  <2> QED
    BY <1>2, <1>6, <2>1
<1> QED
  BY <1>2, <1>5, <1>6 DEF c, at, Distances

(* A network of EvalInit: a cycle would have to be among its hidden neurons. *)
LEMMA NetworksAreAcyclic ==
  ASSUME NEW H \in SUBSET Hidden, neurons = Inputs \cup Outputs \cup H,
         NEW E \in Networks
  PROVE  /\ E \subseteq (neurons \ Outputs) \X (neurons \ Inputs)
         /\ AcyclicGraph(neurons, E)
<1> DEFINE hidden == neurons \cap Hidden
<1>1. PICK A \in SUBSET Border, B \in SUBSET Inner :
        E = A \cup B /\ AcyclicGraph(hidden, B)
  BY DEF Networks
<1>2. E \subseteq (neurons \ Outputs) \X (neurons \ Inputs)
  BY <1>1, VerticesAssumption DEF Border, Inner
<1>3. E \cap Inner \subseteq B
  BY <1>1 DEF Border
<1>4. \A u, v : <<u, v>> \in E =>
        /\ u \in neurons \ Outputs /\ v \in neurons \ Inputs
        /\ u \in hidden /\ v \in hidden => <<u, v>> \in B
  BY <1>2, <1>3 DEF Inner
<1> HIDE DEF hidden
<1>5. ASSUME NEW S \in SUBSET neurons, S # {}
      PROVE  \E v \in S : \A u \in S : <<u, v>> \notin E
  <2>1. CASE \E v \in S : v \in Inputs
    BY <1>4, <2>1
  <2>2. CASE (\A v \in S : v \notin Inputs) /\ S \cap hidden # {}
    <3>1. PICK v \in S \cap hidden : \A u \in S \cap hidden : <<u, v>> \notin B
      BY <1>1, <2>2 DEF AcyclicGraph
    <3>2. ASSUME NEW u \in S, <<u, v>> \in E PROVE u \in hidden
      BY <1>4, <2>2, <3>2 DEF hidden
    <3> QED
      BY <1>4, <3>1, <3>2
  <2>3. CASE (\A v \in S : v \notin Inputs) /\ S \cap hidden = {}
    <3>1. \A u \in S : u \in Outputs
      BY <2>3 DEF hidden
    <3>2. \A u \in S : \A v : <<u, v>> \notin E
      BY <1>4, <3>1
    <3> QED
      BY <1>5, <3>2
  <2> QED
    BY <2>1, <2>2, <2>3
<1> QED
  BY <1>2, <1>5 DEF AcyclicGraph

LEMMA EvalInitHolds == EvalInit => EvalInv
<1> SUFFICES ASSUME EvalInit PROVE EvalInv
  OBVIOUS
<1>1. PICK H \in SUBSET Hidden : neurons = Inputs \cup Outputs \cup H
  BY DEF EvalInit
<1>2. PICK E \in Networks :
        /\ conns = [e \in Pairs |-> IF e \in E THEN 1 ELSE 0]
        /\ depth = DepthOf(neurons, E, InputSeq, Outputs)
  BY DEF EvalInit
<1>3. /\ E \subseteq (neurons \ Outputs) \X (neurons \ Inputs)
      /\ AcyclicGraph(neurons, E)
  BY <1>1, NetworksAreAcyclic
<1>4. E \subseteq Pairs
  BY <1>1, <1>3 DEF Pairs, Vertices
<1>5. Edges = E
  BY <1>2, <1>4 DEF Edges
<1>6. neurons \subseteq Vertices /\ IsFiniteSet(neurons)
  BY <1>1, FS_Subset, VerticesAssumption DEF Vertices
<1>7. TypeOK
  BY <1>2, <1>6, LengthsBelowDepth DEF EvalInit, TypeOK
<1>8. WellFormed
  BY <1>1, <1>3, <1>5 DEF EvalInit, WellFormed
<1>9. Developed
  BY <1>2, <1>3, <1>5, <1>7, <1>8 DEF EvalInit, Developed, IInv, FeedForward, OwnDepth
<1>10. EvalTypeOK
  BY <1>7, PatternsAssumption DEF EvalInit, EvalTypeOK, TypeOK
<1>11. OutputsAreRead /\ PatternSpreads /\ OldIsFar /\ InitialIsFar
  BY DEF EvalInit, OutputsAreRead, PatternSpreads, OldIsFar, InitialIsFar
<1> QED
  BY <1>9, <1>10, <1>11 DEF EvalInv

(* What a step computes: an input has the pattern, any other neuron what    *)
(* the neurons that feed it had before, of which an input has the pattern.  *)
LEMMA StepComputes ==
  ASSUME Developed, Step
  PROVE  /\ \A i \in Inputs : current'[i] = {pattern}
         /\ \A v \in neurons \ Inputs : \A q :
              q \in current'[v] <=>
                \E u \in neurons : /\ <<u, v>> \in Edges
                                  /\ IF u \in Inputs THEN q = pattern ELSE q \in current[u]
<1>1. /\ Inputs \subseteq neurons
      /\ \A v \in neurons : Sources(v) = {u \in neurons : <<u, v>> \in Edges}
  BY DevelopedFacts
<1>2. \A v \in neurons : current'[v] = Activated(v)
  BY DEF Step
<1>3. \A v \in neurons \ Inputs :
        current'[v] = UNION {WithInput[u] : u \in Sources(v)}
  BY <1>2 DEF Activated
<1>4. \A u \in neurons : WithInput[u] = IF u \in Inputs THEN {pattern} ELSE current[u]
  BY DEF WithInput
<1>5. ASSUME NEW v \in neurons \ Inputs, NEW q
      PROVE  q \in current'[v] <=>
               \E u \in neurons : /\ <<u, v>> \in Edges
                                 /\ IF u \in Inputs THEN q = pattern ELSE q \in current[u]
  <2>1. q \in current'[v] <=> \E u \in Sources(v) : q \in WithInput[u]
    BY <1>3
  <2> QED
    BY <1>1, <1>4, <2>1
<1> QED
  BY <1>1, <1>2, <1>5 DEF Activated

LEMMA DevelopedStays ==
  ASSUME Developed, UNCHANGED vars
  PROVE  /\ Developed' /\ Edges' = Edges /\ AllHear' = AllHear
BY DEF vars, Developed, IInv, TypeOK, FeedForward, WellFormed, OwnDepth, Edges, AllHear,
       Sources

LEMMA StepHolds == EvalInv /\ Step => EvalInv'
<1> SUFFICES ASSUME EvalInv, Step PROVE EvalInv'
  OBVIOUS
<1>1. /\ Developed /\ EvalTypeOK
      /\ pattern' = pattern /\ steps' = steps + 1 /\ steps < depth
      /\ outf' = [o \in Outputs |-> current'[o]]
      /\ DOMAIN current' = neurons /\ current' = [v \in neurons |-> current'[v]]
      /\ neurons' = neurons /\ depth' = depth
  BY DEF EvalInv, Step, vars
<1>2. Developed' /\ Edges' = Edges /\ AllHear' = AllHear
  BY DevelopedStays DEF EvalInv, Step
<1>3. /\ Cardinality(neurons) \in Nat
      /\ Inputs \subseteq neurons /\ Outputs \subseteq neurons
      /\ depth \in Nat \ {0}
      /\ \A v \in neurons : Sources(v) = {u \in neurons : <<u, v>> \in Edges}
      /\ \A u, v : <<u, v>> \in Edges => v \in neurons \ Inputs
  BY <1>1, DevelopedFacts
<1>4. /\ pattern \in 1 .. Patterns /\ pattern # 0
      /\ steps \in Nat /\ steps' \in Nat /\ steps' > 0 /\ steps' \in 0 .. depth
  BY <1>1, <1>3, PatternsAssumption DEF EvalTypeOK
<1>5. \A i \in Inputs : current'[i] = {pattern}
  BY <1>1, StepComputes
<1>6. ASSUME NEW v \in neurons \ Inputs, NEW q
      PROVE  q \in current'[v] <=>
               \E u \in neurons : /\ <<u, v>> \in Edges
                                 /\ IF u \in Inputs THEN q = pattern ELSE q \in current[u]
  BY <1>1, StepComputes
<1>7. EvalTypeOK'
  <2>1. ASSUME NEW v \in neurons PROVE current'[v] \subseteq 0 .. Patterns
    <3>1. CASE v \in Inputs
      BY <1>4, <1>5, <3>1, PatternsAssumption
    <3>2. ASSUME v \notin Inputs, NEW q \in current'[v] PROVE q \in 0 .. Patterns
      <4>1. PICK u \in neurons : IF u \in Inputs THEN q = pattern ELSE q \in current[u]
        BY <1>6, <3>2
      <4>2. current[u] \subseteq 0 .. Patterns
        BY <1>1 DEF EvalTypeOK
      <4>3. pattern \in 0 .. Patterns
        BY <1>4, PatternsAssumption
      <4> QED
        BY <4>1, <4>2, <4>3
    <3> QED
      BY <3>1, <3>2
  <2>2. current' \in [neurons -> SUBSET (0 .. Patterns)]
    BY <1>1, <2>1
  <2>3. outf' \in [Outputs -> SUBSET (0 .. Patterns)]
    BY <1>1, <1>3, <2>1
  <2> QED
    BY <1>1, <1>4, <2>2, <2>3 DEF EvalTypeOK
<1>8. OutputsAreRead'
  BY <1>1 DEF OutputsAreRead
<1>9. PatternSpreads'
  <2>1. SUFFICES ASSUME NEW i \in Inputs, NEW k \in Distances, k <= steps + 1,
                        NEW v \in AtDistance(neurons, Edges, i)[k]
                 PROVE  pattern \in current'[v]
    BY <1>1, <1>2 DEF PatternSpreads, Distances
  <2>2. CASE k = 0
    <3>1. v = i
      BY <1>1, <2>2, DevelopedPaths
    <3> QED
      BY <1>5, <3>1
  <2>3. CASE k # 0
    <3>1. /\ k - 1 \in Distances /\ k - 1 <= steps /\ k \in Nat \ {0}
      BY <1>1, <1>3, <1>4, <2>1, <2>3 DEF Distances
    <3>2. PICK u \in AtDistance(neurons, Edges, i)[k - 1] : <<u, v>> \in Edges
      BY <1>1, <2>3, DevelopedPaths
    <3>3. u \in neurons
      BY <1>1, <3>1, DevelopedPaths
    <3>4. steps = 0 => u \in Inputs
      <4>1. steps = 0 => k - 1 = 0
        BY <1>4, <3>1
      <4> QED
        BY <1>1, <4>1, <3>2, DevelopedPaths
    <3>5. steps > 0 => pattern \in current[u]
      BY <3>1 DEF EvalInv, PatternSpreads
    <3> QED
      BY <1>3, <1>4, <1>6, <3>2, <3>3, <3>4, <3>5
  <2> QED
    BY <2>2, <2>3
<1>10. OldIsFar'
  <2>1. SUFFICES ASSUME NEW v \in neurons, NEW q \in current'[v], q # 0
                 PROVE  \E i \in Inputs, k \in Distances :
                          (q # pattern => k >= steps + 1) /\ PathTo(i, v, k)
    BY <1>1, <1>2 DEF OldIsFar, Distances, PathTo
  <2>2. CASE v \in Inputs
    <3>1. q = pattern
      BY <1>5, <2>1, <2>2
    <3>2. 0 \in Distances
      BY <1>3 DEF Distances
    <3>3. PathTo(v, v, 0)
      BY <1>1, <2>2, DevelopedPaths DEF PathTo
    <3> QED
      BY <2>2, <3>1, <3>2, <3>3
  <2>3. CASE v \notin Inputs
    <3>1. PICK u \in neurons : /\ <<u, v>> \in Edges
                              /\ IF u \in Inputs THEN q = pattern ELSE q \in current[u]
      BY <1>6, <2>1, <2>3
    <3>2. \E i \in Inputs, k \in Distances :
            (q # pattern => k >= steps) /\ PathTo(i, u, k)
      <4>1. CASE u \in Inputs
        <5>1. 0 \in Distances /\ PathTo(u, u, 0)
          BY <1>1, <1>3, <4>1, DevelopedPaths DEF PathTo, Distances
        <5> QED
          BY <3>1, <4>1, <5>1
      <4>2. CASE u \notin Inputs
        BY <2>1, <3>1, <4>2 DEF EvalInv, OldIsFar
      <4> QED
        BY <4>1, <4>2
    <3>3. PICK i \in Inputs, k \in Distances :
            (q # pattern => k >= steps) /\ PathTo(i, u, k)
      BY <3>2
    <3>4. k + 1 \in Distances /\ PathTo(i, v, k + 1)
      BY <1>1, <3>1, <3>3, DevelopedPaths DEF PathTo
    <3>5. q # pattern => k + 1 >= steps + 1
      BY <1>3, <1>4, <3>3 DEF Distances
    <3> QED
      BY <3>4, <3>5
  <2> QED
    BY <2>2, <2>3
<1>11. InitialIsFar'
  <2>1. SUFFICES ASSUME NEW v \in neurons, 0 \in current'[v], AllHear
                 PROVE  \E i \in Inputs, k \in Distances :
                          k >= steps + 1 /\ PathTo(i, v, k)
    BY <1>1, <1>2 DEF InitialIsFar, Distances, PathTo
  <2>2. v \notin Inputs
    BY <1>4, <1>5, <2>1
  <2>3. PICK u \in neurons : <<u, v>> \in Edges /\ u \notin Inputs /\ 0 \in current[u]
    BY <1>4, <1>6, <2>1, <2>2
  <2>4. CASE steps = 0
    <3>1. PICK i \in Inputs : i \in Preds(neurons, Edges, v)
      BY <1>3, <2>1, <2>2, <2>3 DEF AllHear
    <3>2. v \in Found(neurons, Edges, i)
      BY <1>1, <3>1, PredsAreFound, GraphFacts DEF Developed
    <3>3. PICK k \in Distances : PathTo(i, v, k)
      BY <3>2 DEF Found, Distances, PathTo
    <3>4. k # 0
      BY <1>1, <2>2, <3>3, DevelopedPaths DEF PathTo
    <3>5. k >= steps + 1
      BY <1>3, <2>4, <3>4 DEF Distances
    <3> QED
      BY <3>3, <3>5
  <2>5. CASE steps > 0
    <3>1. PICK i \in Inputs, k \in Distances : k >= steps /\ PathTo(i, u, k)
      BY <2>1, <2>3, <2>5 DEF EvalInv, InitialIsFar
    <3>2. k + 1 \in Distances /\ PathTo(i, v, k + 1)
      BY <1>1, <2>3, <3>1, DevelopedPaths DEF PathTo
    <3>3. k + 1 >= steps + 1
      BY <1>3, <1>4, <3>1 DEF Distances
    <3> QED
      BY <3>2, <3>3
  <2> QED
    BY <1>4, <2>4, <2>5
<1> QED
  BY <1>2, <1>7, <1>8, <1>9, <1>10, <1>11 DEF EvalInv

LEMMA NextPatternHolds == EvalInv /\ NextPattern => EvalInv'
<1> SUFFICES ASSUME EvalInv, NextPattern PROVE EvalInv'
  OBVIOUS
<1> USE DEF NextPattern
<1>1. Developed /\ EvalTypeOK /\ UNCHANGED vars /\ neurons' = neurons /\ depth' = depth
  BY DEF EvalInv, vars
<1>2. Developed' /\ Edges' = Edges
  BY <1>1, DevelopedStays
<1>3. depth \in Nat /\ Cardinality(neurons) \in Nat
  BY <1>1, DevelopedFacts
<1>4. EvalTypeOK'
  BY <1>1, <1>3, PatternsAssumption DEF EvalTypeOK
<1>5. OldIsFar'
  <2>1. SUFFICES ASSUME NEW v \in neurons, NEW q \in current[v], q # 0
                 PROVE  \E i \in Inputs, k \in Distances : k >= 0 /\ PathTo(i, v, k)
    BY <1>1, <1>2 DEF OldIsFar, Distances, PathTo
  <2>2. PICK i \in Inputs, k \in Distances : PathTo(i, v, k)
    BY <2>1 DEF EvalInv, OldIsFar
  <2>3. k >= 0
    BY <1>3 DEF Distances
  <2> QED
    BY <2>2, <2>3
<1>6. OutputsAreRead' /\ PatternSpreads' /\ InitialIsFar'
  BY DEF OutputsAreRead, PatternSpreads, InitialIsFar
<1> QED
  BY <1>2, <1>4, <1>5, <1>6 DEF EvalInv

-----------------------------------------------------------------------------
THEOREM EvalInvariance == EvalSpec => []EvalInv
<1>1. EvalInv /\ [EvalNext]_evalVars => EvalInv'
  <2>1. ASSUME EvalInv, UNCHANGED evalVars PROVE EvalInv'
    <3>1. /\ UNCHANGED vars /\ neurons' = neurons /\ depth' = depth
          /\ pattern' = pattern /\ steps' = steps /\ current' = current /\ outf' = outf
      BY <2>1 DEF evalVars, vars
    <3>2. Developed' /\ Edges' = Edges /\ AllHear' = AllHear
      BY <2>1, <3>1, DevelopedStays DEF EvalInv
    <3>3. /\ EvalTypeOK' /\ OutputsAreRead' /\ PatternSpreads'
          /\ OldIsFar' /\ InitialIsFar'
      BY <2>1, <3>1, <3>2 DEF EvalInv, EvalTypeOK, OutputsAreRead, PatternSpreads,
         OldIsFar, InitialIsFar, Distances, PathTo
    <3> QED
      BY <3>2, <3>3 DEF EvalInv
  <2> QED
    BY <2>1, StepHolds, NextPatternHolds DEF EvalNext, Done
<1> QED
  BY <1>1, EvalInitHolds, PTL DEF EvalSpec

(* When the outputs are read, at least one step was made, so they are those *)
(* of the neurons.                                                          *)
LEMMA ReadFacts ==
  ASSUME EvalInv, Read
  PROVE  /\ steps \in Nat \ {0} /\ steps = depth /\ Developed
         /\ \A o \in Outputs : outf[o] = current[o] /\ o \in neurons
<1>1. Developed /\ steps = depth
  BY DEF EvalInv, Read
<1>2. steps \in Nat \ {0} /\ Outputs \subseteq neurons
  BY <1>1, DevelopedFacts
<1> QED
  BY <1>1, <1>2 DEF EvalInv, OutputsAreRead

(* What came no shorter way than there were steps came none to an output.   *)
LEMMA NothingIsThatFar ==
  ASSUME EvalInv, Read, DepthSuffices,
         NEW o \in Outputs, NEW i \in Inputs, NEW k \in Distances, PathTo(i, o, k)
  PROVE  ~ (k >= steps)
<1>1. k < depth
  BY DEF DepthSuffices, PathTo, Distances
<1>2. depth \in Nat /\ k \in Int
  BY DevelopedFacts DEF EvalInv, Distances
<1> QED
  BY <1>1, <1>2 DEF Read

LEMMA DeepForgets == EvalInv /\ DepthSuffices => Forgets
<1> SUFFICES ASSUME EvalInv, DepthSuffices, Read,
                    NEW o \in Outputs, NEW q \in outf[o], q \in 1 .. (pattern - 1)
             PROVE  FALSE
  BY DEF Forgets
<1>1. pattern \in Nat
  BY DEF EvalInv, EvalTypeOK
<1>2. q # 0 /\ q # pattern
  BY <1>1
<1>3. q \in current[o] /\ o \in neurons
  BY ReadFacts
<1>4. PICK i \in Inputs, k \in Distances : k >= steps /\ PathTo(i, o, k)
  BY <1>2, <1>3 DEF EvalInv, OldIsFar
<1> QED
  BY <1>4, NothingIsThatFar

(* In every network of a size that is deep enough, for every number of      *)
(* patterns, no answer depends on an earlier question.                      *)
THEOREM DeepNetworksForget == EvalSpec => []ForgetsWhenDeep
<1>1. EvalInv => ForgetsWhenDeep
  BY DeepForgets DEF ForgetsWhenDeep
<1> QED
  BY <1>1, EvalInvariance, PTL

(* A network with one input is always deep enough.                          *)
THEOREM OneInputForgets ==
  ASSUME Len(InputSeq) = 1
  PROVE  EvalSpec => []Forgets
<1>1. EvalInv => Forgets
  <2>1. EvalInv => DepthSuffices
    BY OneInputIsDeep DEF EvalInv, Developed, DepthIsCurrent
  <2> QED
    BY <2>1, DeepForgets
<1> QED
  BY <1>1, EvalInvariance, PTL

(* For the first input that leads to an output the depth is enough, so the  *)
(* output always hears the pattern from there.                              *)
LEMMA FirstInputCounts ==
  ASSUME Developed, NEW o \in Outputs, NEW s \in Inputs, s \in Preds(neurons, Edges, o)
  PROVE  \E i \in Inputs, k \in Distances : PathTo(i, o, k) /\ k < depth
<1> DEFINE leading == {j \in DOMAIN InputSeq : o \in Found(neurons, Edges, InputSeq[j])}
<1>1. /\ IsFiniteSet(neurons) /\ Edges \in SUBSET (neurons \X neurons)
      /\ AcyclicGraph(neurons, Edges) /\ Outputs \subseteq neurons
  BY GraphFacts, DevelopedFacts DEF Developed
<1>2. o \in Found(neurons, Edges, s)
  BY <1>1, PredsAreFound
<1>3. DOMAIN InputSeq \subseteq Nat /\ \A j \in DOMAIN InputSeq : 1 .. (j - 1) \subseteq DOMAIN InputSeq
  BY VerticesAssumption
<1>4. leading \in SUBSET Nat /\ leading # {}
  BY <1>2, <1>3 DEF Inputs
<1>5. PICK j \in leading : \A m \in leading : j <= m
  <2> HIDE DEF leading
  <2> QED
    BY <1>4, LeastElement
<1>6. \A m \in 1 .. (j - 1) : o \notin Found(neurons, Edges, InputSeq[m])
  <2>1. SUFFICES ASSUME NEW m \in 1 .. (j - 1), m \in leading PROVE FALSE
    BY <1>3, <1>5
  <2>2. j <= m /\ j \in Nat
    BY <1>3, <1>5, <2>1
  <2> QED
    BY <2>1, <2>2
<1>7. PICK k \in Distances : PathTo(InputSeq[j], o, k)
  BY <1>5 DEF Found, Distances, PathTo
<1>8. k < depth
  BY <1>5, <1>6, <1>7, NetworkDepth DEF Developed, FreshPathsSuffice
<1> QED
  BY <1>5, <1>7, <1>8 DEF Inputs

(* Every output that an input leads to takes the question into account, in  *)
(* all networks, also those whose depth is too small.                       *)
THEOREM OutputsHearInputs == EvalSpec => []HearsInput
<1>1. EvalInv => HearsInput
  <2>1. SUFFICES ASSUME EvalInv, Read, NEW o \in Outputs, NEW s \in Inputs,
                        s \in Preds(neurons, Edges, o)
                 PROVE  pattern \in outf[o]
    BY DEF HearsInput
  <2>2. /\ steps \in Nat \ {0} /\ steps = depth /\ Developed
        /\ outf[o] = current[o]
    BY <2>1, ReadFacts
  <2>3. PICK i \in Inputs, k \in Distances : PathTo(i, o, k) /\ k < depth
    BY <2>1, <2>2, FirstInputCounts
  <2>4. k <= steps /\ steps > 0
    BY <2>2, <2>3 DEF Distances
  <2> QED
    BY <2>1, <2>2, <2>3, <2>4 DEF EvalInv, PatternSpreads, PathTo
<1> QED
  BY <1>1, EvalInvariance, PTL

(* Where all neurons hear an input and the depth is enough, no answer       *)
(* depends on the state after develop().                                    *)
THEOREM DeepNetworksSettle == EvalSpec => []SettledWhenAllHear
<1>1. EvalInv => SettledWhenAllHear
  <2>1. SUFFICES ASSUME EvalInv, Read, DepthSuffices, AllHear,
                        NEW o \in Outputs, 0 \in outf[o]
                 PROVE  FALSE
    BY DEF SettledWhenAllHear
  <2>2. steps > 0 /\ 0 \in current[o] /\ o \in neurons
    BY <2>1, ReadFacts
  <2>3. PICK i \in Inputs, k \in Distances : k >= steps /\ PathTo(i, o, k)
    BY <2>1, <2>2 DEF EvalInv, InitialIsFar
  <2> QED
    BY <2>1, <2>3, NothingIsThatFar
<1> QED
  BY <1>1, EvalInvariance, PTL
=============================================================================
