---------------------------- MODULE NsgaProofs -----------------------------
(***************************************************************************)
(* The rankings of nsga2 and pnsga, for every set of individuals, every    *)
(* number of objectives and every population size.                         *)
(***************************************************************************)
EXTENDS Nsga, FiniteSetTheorems, WellFoundedInduction, SequenceTheorems, TLAPS

-----------------------------------------------------------------------------
(* A strict order on a finite set has a maximal element: take one with the  *)
(* fewest above it.                                                         *)
LEMMA MaximalExists ==
  ASSUME NEW S, IsFiniteSet(S), S # {}, NEW R,
         \A x \in S : <<x, x>> \notin R,
         \A x, y, z \in S : <<x, y>> \in R /\ <<y, z>> \in R => <<x, z>> \in R
  PROVE  \E x \in S : \A y \in S : <<y, x>> \notin R
<1> DEFINE Above(x) == {y \in S : <<y, x>> \in R}
           T == {Above(x) : x \in S}
<1>1. IsWellFoundedOn(StrictSubsetOrdering(S), SUBSET S)
  BY FS_StrictSubsetOrderingWellFounded, FS_FiniteSubsetsOfFinite
<1>2. T \subseteq SUBSET S /\ T # {}
  <2>1. \A x \in S : Above(x) \in SUBSET S
    OBVIOUS
  <2>2. \A x \in S : Above(x) \in T
    OBVIOUS
  <2> HIDE DEF Above
  <2> QED
    BY <2>1, <2>2
<1> HIDE DEF T
<1>3. PICK t \in T : \A u \in T : <<u, t>> \notin StrictSubsetOrdering(S)
  BY <1>1, <1>2, WFMin
<1>4. PICK x \in S : t = Above(x)
  BY DEF T
<1>5. ASSUME NEW y \in S, <<y, x>> \in R PROVE FALSE
  <2>1. Above(y) \in T
    BY DEF T
  <2>2. Above(y) \subseteq t /\ y \in t /\ y \notin Above(y)
    BY <1>4, <1>5
  <2>3. <<Above(y), t>> \in StrictSubsetOrdering(S)
    BY <1>2, <2>1, <2>2 DEF StrictSubsetOrdering
  <2> QED
    BY <1>3, <2>1, <2>3
<1> QED
  BY <1>5

-----------------------------------------------------------------------------
(* What a comparison of pnsga may say: it counts the objectives that always *)
(* count and, with luck, the last one.                                      *)

LEMMA ObjInt ==
  ASSUME NEW x \in Indivs, NEW m \in Objs PROVE Obj[x][m] \in Int
BY ObjAssumption

LEMMA DrawsAre == Draws = {Objs, Objs \ Sometimes}
<1>1. \A dropped \in SUBSET Sometimes : dropped = {} \/ dropped = Sometimes
  BY SometimesAssumption
<1>2. \A d \in Draws : d = Objs \/ d = Objs \ Sometimes
  <2>1. SUFFICES ASSUME NEW d \in Draws PROVE d = Objs \/ d = Objs \ Sometimes
    OBVIOUS
  <2>2. PICK dropped \in SUBSET Sometimes : d = Objs \ dropped
    BY DEF Draws
  <2> QED
    BY <1>1, <2>2
<1>3. {} \in SUBSET Sometimes /\ Sometimes \in SUBSET Sometimes /\ Objs = Objs \ {}
  OBVIOUS
<1>4. Objs \in Draws /\ Objs \ Sometimes \in Draws
  BY <1>3 DEF Draws
<1> QED
  BY <1>2, <1>4

(* Beats() is a strict order. *)
LEMMA BeatsOrder ==
  ASSUME NEW x \in Indivs, NEW y \in Indivs, NEW z \in Indivs
  PROVE  /\ ~ Beats(x, x)
         /\ Beats(x, y) /\ Beats(y, z) => Beats(x, z)
<1> DEFINE A == Objs \ Sometimes
<1> USE ObjInt
<1>1. ASSUME NEW D \in SUBSET Objs
      PROVE  /\ ~ Over(x, x, D)
             /\ Over(x, y, D) /\ Over(y, z, D) => Over(x, z, D)
  <2>1. ~ Over(x, x, D)
    BY DEF Over
  <2>2. ASSUME Over(x, y, D), Over(y, z, D) PROVE Over(x, z, D)
    <3>1. \A m \in D : Obj[x][m] >= Obj[y][m] /\ Obj[y][m] >= Obj[z][m]
      BY <2>2 DEF Over
    <3>2. PICK m \in D : Obj[x][m] > Obj[y][m]
      BY <2>2 DEF Over
    <3>3. Obj[x][m] > Obj[z][m]
      BY <3>1, <3>2
    <3>4. \A k \in D : Obj[x][k] >= Obj[z][k]
      BY <3>1
    <3> QED
      BY <3>3, <3>4 DEF Over
  <2> QED
    BY <2>1, <2>2
<1>2. CASE algo # "pnsga"
  BY <1>1, <1>2 DEF Beats, Dominates
<1>3. CASE algo = "pnsga"
  <2>1. \A u, v : Beats(u, v) <=> Over(u, v, Objs) \/ Over(u, v, A)
    BY <1>3, DrawsAre DEF Beats
  <2>2. ASSUME Over(x, y, Objs), Over(y, z, A), ~ Over(x, z, Objs)
        PROVE  Over(x, z, A)
    <3>1. \A m \in A : Obj[x][m] >= Obj[y][m] /\ Obj[y][m] >= Obj[z][m]
      BY <2>2 DEF Over
    <3>2. PICK m \in A : Obj[y][m] > Obj[z][m]
      BY <2>2 DEF Over
    <3>3. Obj[x][m] > Obj[z][m] /\ \A k \in A : Obj[x][k] >= Obj[z][k]
      BY <3>1, <3>2
    <3> QED
      BY <3>3 DEF Over
  <2>3. ASSUME Over(x, y, A), Over(y, z, Objs), ~ Over(x, z, Objs)
        PROVE  Over(x, z, A)
    <3>1. \A m \in A : Obj[x][m] >= Obj[y][m] /\ Obj[y][m] >= Obj[z][m]
      BY <2>3 DEF Over
    <3>2. PICK m \in A : Obj[x][m] > Obj[y][m]
      BY <2>3 DEF Over
    <3>3. Obj[x][m] > Obj[z][m] /\ \A k \in A : Obj[x][k] >= Obj[z][k]
      BY <3>1, <3>2
    <3> QED
      BY <3>3 DEF Over
  <2>4. A \in SUBSET Objs /\ Objs \in SUBSET Objs
    OBVIOUS
  <2> QED
    BY <1>1, <2>1, <2>2, <2>3, <2>4
<1> QED
  BY <1>2, <1>3

(* Among finitely many individuals, one of the best in an objective that    *)
(* always counts is beaten by nobody.                                       *)
LEMMA BestUnbeaten ==
  ASSUME NEW S \in SUBSET Indivs, S # {}, NEW m \in AlwaysCount, NEW x \in S
  PROVE  \E z \in S : /\ Obj[z][m] >= Obj[x][m]
                      /\ \A y \in S : ~ Beats(y, z)
<1> DEFINE R == {p \in S \X S : \/ Obj[p[1]][m] > Obj[p[2]][m]
                                \/ Obj[p[1]][m] = Obj[p[2]][m] /\ Beats(p[1], p[2])}
           U == {z \in S : Obj[z][m] >= Obj[x][m]}
<1>1. m \in Objs
  BY DEF AlwaysCount
<1>2. \A y \in S : Obj[y][m] \in Int
  BY <1>1, ObjInt
<1>3. IsFiniteSet(U) /\ x \in U /\ U \subseteq S
  <2>1. IsFiniteSet(S)
    BY ObjAssumption, FS_Subset
  <2> QED
    BY <1>2, <2>1, FS_Subset
<1>4. \A u \in U : <<u, u>> \notin R
  BY <1>2, BeatsOrder
<1>5. \A u, v, w \in U : <<u, v>> \in R /\ <<v, w>> \in R => <<u, w>> \in R
  BY <1>2, BeatsOrder
<1>6. PICK z \in U : \A y \in U : <<y, z>> \notin R
  <2> HIDE DEF R, U
  <2> QED
    BY <1>3, <1>4, <1>5, MaximalExists
<1>7. ASSUME NEW y \in S, Beats(y, z) PROVE FALSE
  <2>1. Obj[y][m] >= Obj[z][m]
    <3>1. CASE algo # "pnsga"
      BY <1>1, <1>7, <3>1 DEF Beats, Dominates, Over
    <3>2. CASE algo = "pnsga"
      <4>1. m \in Objs \ Sometimes
        BY <3>2 DEF AlwaysCount
      <4>2. Over(y, z, Objs) \/ Over(y, z, Objs \ Sometimes)
        BY <1>7, <3>2, DrawsAre DEF Beats
      <4> QED
        BY <1>1, <4>1, <4>2 DEF Over
    <3> QED
      BY <3>1, <3>2
  <2>2. y \in U
    BY <1>2, <1>3, <2>1
  <2>3. <<y, z>> \in R
    BY <1>2, <1>3, <1>7, <2>1
  <2> QED
    BY <1>6, <2>2, <2>3
<1> QED
  BY <1>3, <1>6, <1>7

LEMMA UnbeatenExists ==
  ASSUME NEW S \in SUBSET Indivs, S # {}
  PROVE  \E z \in S : \A y \in S : ~ Beats(y, z)
<1> DEFINE R == {p \in S \X S : Beats(p[1], p[2])}
<1>1. IsFiniteSet(S)
  BY ObjAssumption, FS_Subset
<1>2. \A u \in S : <<u, u>> \notin R
  BY BeatsOrder
<1>3. \A u, v, w \in S : <<u, v>> \in R /\ <<v, w>> \in R => <<u, w>> \in R
  BY BeatsOrder
<1>4. PICK z \in S : \A y \in S : <<y, z>> \notin R
  <2> HIDE DEF R
  <2> QED
    BY <1>1, <1>2, <1>3, MaximalExists
<1> QED
  BY <1>4

LEMMA CardinalityDisjoint ==
  ASSUME NEW S \in SUBSET Indivs, NEW T \in SUBSET Indivs, S \cap T = {}
  PROVE  /\ Cardinality(S) \in Nat /\ Cardinality(T) \in Nat
         /\ Cardinality(S \cup T) = Cardinality(S) + Cardinality(T)
<1>1. IsFiniteSet(S) /\ IsFiniteSet(T)
  BY ObjAssumption, FS_Subset
<1>2. Cardinality(S \cap T) = 0
  BY FS_EmptySet
<1>3. Cardinality(S) \in Nat /\ Cardinality(T) \in Nat
  BY <1>1, FS_CardinalityType
<1>4. Cardinality(S \cup T) = Cardinality(S) + Cardinality(T) - Cardinality(S \cap T)
  BY <1>1, FS_Union
<1> QED
  BY <1>2, <1>3, <1>4

-----------------------------------------------------------------------------
(* A new front leaves the others where they are.                            *)
LEMMA Grow ==
  ASSUME fronts \in Seq(SUBSET mixed), NEW F \in SUBSET mixed,
         fronts' = Append(fronts, F)
  PROVE  /\ fronts' \in Seq(SUBSET mixed) /\ fronts' # <<>>
         /\ Len(fronts') = Len(fronts) + 1
         /\ \A i \in 1 .. Len(fronts) : fronts'[i] = fronts[i]
         /\ fronts'[Len(fronts) + 1] = F
         /\ \A j \in 0 .. Len(fronts) : UpTo(j)' = UpTo(j)
         /\ Ranked' = Ranked \cup F
         /\ LastFront' = F
<1>1. /\ fronts' \in Seq(SUBSET mixed) /\ fronts' # <<>>
      /\ Len(fronts') = Len(fronts) + 1
      /\ \A i \in 1 .. Len(fronts) : fronts'[i] = fronts[i]
      /\ fronts'[Len(fronts) + 1] = F
  BY AppendProperties
<1>2. Len(fronts) \in Nat
  OBVIOUS
<1>3. ASSUME NEW j \in 0 .. Len(fronts) PROVE UpTo(j)' = UpTo(j)
  <2>1. \A i \in 1 .. j : fronts'[i] = fronts[i]
    BY <1>1, <1>2
  <2> QED
    BY <2>1 DEF UpTo
<1>4. Ranked' = Ranked \cup F
  <2>1. 1 .. (Len(fronts) + 1) = 1 .. Len(fronts) \cup {Len(fronts) + 1}
    BY <1>2
  <2>2. UNION {fronts'[i] : i \in 1 .. (Len(fronts) + 1)}
          = F \cup UNION {fronts[i] : i \in 1 .. Len(fronts)}
    BY <1>1, <2>1
  <2> QED
    BY <1>1, <2>2 DEF Ranked, UpTo
<1>5. LastFront' = F
  BY <1>1 DEF LastFront
<1> QED
  BY <1>1, <1>3, <1>4, <1>5

LEMMA UpToFacts ==
  ASSUME fronts \in Seq(SUBSET mixed)
  PROVE  /\ UpTo(0) = {}
         /\ \A j \in 0 .. Len(fronts) : UpTo(j) \in SUBSET mixed
         /\ \A j \in 0 .. Len(fronts) : \A i \in 1 .. j : fronts[i] \subseteq UpTo(j)
         /\ \A j \in 0 .. Len(fronts) : \A k \in 0 .. j : UpTo(k) \subseteq UpTo(j)
         /\ \A j \in 0 .. Len(fronts) : \A x \in UpTo(j) : \E i \in 1 .. j : x \in fronts[i]
         /\ Ranked = UpTo(Len(fronts))
<1>1. Len(fronts) \in Nat /\ \A i \in 1 .. Len(fronts) : fronts[i] \in SUBSET mixed
  OBVIOUS
<1>2. UpTo(0) = {}
  BY DEF UpTo
<1>3. \A j \in 0 .. Len(fronts) : UpTo(j) \in SUBSET mixed
  BY <1>1 DEF UpTo
<1>4. \A j \in 0 .. Len(fronts) : \A i \in 1 .. j : fronts[i] \subseteq UpTo(j)
  BY <1>1 DEF UpTo
<1>5. \A j \in 0 .. Len(fronts) : \A k \in 0 .. j : UpTo(k) \subseteq UpTo(j)
  BY <1>1 DEF UpTo
<1>6. \A j \in 0 .. Len(fronts) : \A x \in UpTo(j) : \E i \in 1 .. j : x \in fronts[i]
  BY DEF UpTo
<1> QED
  BY <1>2, <1>3, <1>4, <1>5, <1>6 DEF Ranked

LEMMA LastFrontRanked ==
  ASSUME TypeOK PROVE LastFront \subseteq Ranked /\ Ranked \subseteq mixed
<1>1. Len(fronts) \in Nat /\ fronts \in Seq(SUBSET mixed)
  BY DEF TypeOK
<1>2. CASE fronts = <<>>
  BY <1>1, <1>2, UpToFacts DEF LastFront
<1>3. CASE fronts # <<>>
  <2>1. Len(fronts) \in 1 .. Len(fronts)
    BY <1>1, <1>3
  <2> QED
    BY <1>1, <1>3, <2>1, UpToFacts DEF LastFront
<1> QED
  BY <1>2, <1>3

-----------------------------------------------------------------------------
(* The inductive invariant.                                                 *)

(* What the invariant asks of a front that a sort appends. *)
LEMMA NextFrontKeeps ==
  ASSUME IInv, Ranking, NEW F \in SUBSET rest, NextFront(F), F # {},
         n' \in [Indivs -> Int],
         \A y \in F : \A x \in rest : ~ SureOver(x, y),
         \A x \in rest : (\A y \in rest : ~ Beats(y, x)) => x \in F,
         algo = "nsga2" => F = NonDominated(rest),
         algo = "nsga2" =>
           \A x \in rest : n'[x] = Cardinality({p \in rest : Dominates(p, x)})
  PROVE  IInv'
<1>0. PICK k \in Nat : k = Len(fronts)
  BY DEF IInv, TypeOK
<1>1. /\ TypeOK /\ Split /\ RoundsProgress /\ Peeled /\ FrontsRespectDominance
      /\ FirstFront /\ Counted
  BY DEF IInv
<1>2. /\ fronts \in Seq(SUBSET mixed) /\ F \in SUBSET mixed /\ k \in Nat
      /\ fronts' = Append(fronts, F) /\ rest' = rest \ F
      /\ UNCHANGED <<algo, pc, parents, mixed, front>>
  BY <1>1 DEF TypeOK, NextFront
<1>3. /\ fronts' \in Seq(SUBSET mixed) /\ fronts' # <<>>
      /\ Len(fronts') = k + 1
      /\ \A i \in 1 .. k : fronts'[i] = fronts[i]
      /\ fronts'[k + 1] = F
      /\ \A j \in 0 .. k : UpTo(j)' = UpTo(j)
      /\ Ranked' = Ranked \cup F
      /\ LastFront' = F
  BY <1>0, <1>2, Grow
<1>4. /\ Ranked = UpTo(k) /\ rest \cap Ranked = {} /\ mixed = rest \cup Ranked
      /\ rest = mixed \ UpTo(k)
  BY <1>0, <1>1, <1>2, UpToFacts DEF Split
<1>5. /\ \A i \in 1 .. (k + 1) : i \in 1 .. k \/ i = k + 1
      /\ \A i \in 1 .. k : i - 1 \in 0 .. k
      /\ (k + 1) - 1 = k
      /\ k \in 0 .. k
  BY <1>2
<1>6. pc \in {"first", "rank"}
  BY DEF Ranking
<1>7. TypeOK'
  BY <1>1, <1>2, <1>3 DEF TypeOK
<1>8. Split'
  <2>1. \A i \in 1 .. (k + 1) : fronts'[i] \cap UpTo(i - 1)' = {}
    <3>1. \A i \in 1 .. k : fronts'[i] \cap UpTo(i - 1)' = {}
      BY <1>0, <1>1, <1>3, <1>5 DEF Split
    <3>2. fronts'[k + 1] \cap UpTo(k)' = {}
      BY <1>3, <1>4, <1>5
    <3> QED
      BY <1>5, <3>1, <3>2
  <2>2. mixed' = rest' \cup Ranked' /\ rest' \cap Ranked' = {}
    BY <1>2, <1>3, <1>4
  <2>3. pc' \in {"first", "rank"} => mixed' # {}
    BY <1>1, <1>2 DEF Split
  <2> QED
    BY <1>3, <2>1, <2>2, <2>3 DEF Split
<1>9. RoundsProgress'
  BY <1>0, <1>1, <1>3, <1>5 DEF RoundsProgress
<1>10. Peeled'
  <2>1. SUFFICES ASSUME algo = "nsga2", NEW i \in 1 .. (k + 1)
                 PROVE  fronts'[i] = NonDominated(mixed \ UpTo(i - 1)')
    BY <1>2, <1>3 DEF Peeled
  <2>2. CASE i \in 1 .. k
    BY <1>0, <1>1, <1>3, <1>5, <2>1, <2>2 DEF Peeled
  <2>3. CASE i = k + 1
    BY <1>3, <1>4, <1>5, <2>1, <2>3
  <2> QED
    BY <1>5, <2>2, <2>3
<1>11. FrontsRespectDominance'
  <2>1. \A x, y : SureOver(x, y)' <=> SureOver(x, y)
    BY <1>2 DEF SureOver, Draws, Over, Dominates
  <2>2. SUFFICES ASSUME NEW i \in 1 .. (k + 1), NEW y \in fronts'[i],
                        NEW x \in mixed, SureOver(x, y)
                 PROVE  x \in UpTo(i - 1)'
    BY <1>2, <1>3, <2>1 DEF FrontsRespectDominance
  <2>3. CASE i \in 1 .. k
    BY <1>0, <1>1, <1>3, <1>5, <2>2, <2>3 DEF FrontsRespectDominance
  <2>4. CASE i = k + 1
    BY <1>3, <1>4, <1>5, <2>2, <2>4
  <2> QED
    BY <1>5, <2>3, <2>4
<1>12. FirstFront'
  <2>1. \A x, y : Beats(x, y)' <=> Beats(x, y)
    BY <1>2 DEF Beats, Draws, Over, Dominates
  <2>2. SUFFICES ASSUME NEW x \in mixed, \A y \in mixed : ~ Beats(y, x)
                 PROVE  x \in fronts'[1]
    BY <1>2, <2>1 DEF FirstFront
  <2>3. CASE fronts = <<>>
    <3>1. k = 0 /\ rest = mixed
      BY <1>0, <1>2, <1>4, <2>3, UpToFacts
    <3> QED
      BY <1>3, <2>2, <3>1
  <2>4. CASE fronts # <<>>
    <3>1. 1 \in 1 .. k
      BY <1>0, <1>2, <2>4
    <3> QED
      BY <1>1, <1>3, <2>2, <2>4, <3>1 DEF FirstFront
  <2> QED
    BY <2>3, <2>4
<1>13. Counted'
  <2>1. SUFFICES ASSUME algo = "nsga2", NEW x \in rest'
                 PROVE  n'[x] = Cardinality({p \in rest' \cup LastFront' : Dominates(p, x)})
    BY <1>2 DEF Counted, Dominates, Over
  <2>2. rest' \cup LastFront' = rest /\ x \in rest
    BY <1>2, <1>3
  <2> QED
    BY <2>1, <2>2
<1>14. AtRest'
  BY <1>2, <1>6 DEF AtRest
<1> QED
  BY <1>7, <1>8, <1>9, <1>10, <1>11, <1>12, <1>13, <1>14 DEF IInv

(* What a ranking starts from. *)
LEMMA StartRankKeeps ==
  ASSUME NEW P \in SUBSET Indivs, P # {}, StartRank(P), TypeOK,
         algo' = algo, pc' \in {"first", "rank"},
         parents' \subseteq Indivs, front' \subseteq Indivs
  PROVE  IInv'
<1>1. mixed' = P /\ rest' = P /\ fronts' = <<>>
  BY DEF StartRank
<1>2. Len(fronts') = 0 /\ fronts' \in Seq(SUBSET mixed') /\ 1 .. Len(fronts') = {}
  BY <1>1
<1>3. Ranked' = {} /\ LastFront' = {}
  BY <1>1, <1>2 DEF Ranked, UpTo, LastFront
<1>4. n' \in [Indivs -> Int]
  <2>1. CASE algo = "pnsga"
    BY <2>1 DEF StartRank, TypeOK
  <2>2. CASE algo # "pnsga"
    <3>1. \A x \in Indivs : Cardinality({q \in P : Dominates(q, x)}) \in Int
      <4>1. SUFFICES ASSUME NEW x \in Indivs
                     PROVE  Cardinality({q \in P : Dominates(q, x)}) \in Int
        OBVIOUS
      <4>2. IsFiniteSet({q \in P : Dominates(q, x)})
        BY ObjAssumption, FS_Subset
      <4> QED
        BY <4>2, FS_CardinalityType
    <3> QED
      BY <2>2, <3>1 DEF StartRank
  <2> QED
    BY <2>1, <2>2
<1>5. TypeOK'
  BY <1>1, <1>2, <1>4 DEF TypeOK
<1>6. Split' /\ RoundsProgress' /\ Peeled' /\ FrontsRespectDominance' /\ FirstFront'
  BY <1>1, <1>2, <1>3
  DEF Split, RoundsProgress, Peeled, FrontsRespectDominance, FirstFront
<1>7. Counted'
  <2>1. SUFFICES ASSUME algo = "nsga2", NEW x \in P
                 PROVE  n'[x] = Cardinality({p \in P : Dominates(p, x)})
    BY <1>1, <1>3 DEF Counted, Dominates, Over
  <2> QED
    BY <2>1 DEF StartRank
<1>8. AtRest'
  BY DEF AtRest
<1> QED
  BY <1>5, <1>6, <1>7, <1>8 DEF IInv

LEMMA LayerKeeps ==
  ASSUME IInv, Layer PROVE IInv'
<1> DEFINE F == {x \in rest : Lowered[x] = 0}
<1>1. /\ TypeOK /\ Split /\ Counted /\ algo = "nsga2" /\ Ranking /\ n' = Lowered
      /\ NextFront(F) /\ pc \in {"first", "rank"} /\ rest # {}
  BY DEF IInv, Layer, Ranking
<1>2. rest \in SUBSET Indivs /\ LastFront \in SUBSET Indivs /\ rest \cap LastFront = {}
  BY <1>1, LastFrontRanked DEF TypeOK, Split
<1>3. ASSUME NEW x \in rest
      PROVE  Lowered[x] = Cardinality({p \in rest : Dominates(p, x)})
  <2> DEFINE A == {p \in rest : Dominates(p, x)}
             B == {p \in LastFront : Dominates(p, x)}
  <2>1. A \in SUBSET Indivs /\ B \in SUBSET Indivs /\ A \cap B = {}
    BY <1>2
  <2>2. {p \in rest \cup LastFront : Dominates(p, x)} = A \cup B
    OBVIOUS
  <2>3. n[x] = Cardinality(A \cup B)
    <3> HIDE DEF A, B
    <3> QED
      BY <1>1, <2>2 DEF Counted
  <2>4. Lowered[x] = n[x] - Cardinality(B)
    BY <1>2 DEF Lowered
  <2> HIDE DEF A, B
  <2>5. /\ Cardinality(A) \in Nat /\ Cardinality(B) \in Nat
        /\ Cardinality(A \cup B) = Cardinality(A) + Cardinality(B)
    BY <2>1, CardinalityDisjoint
  <2>6. Lowered[x] = Cardinality(A)
    BY <2>3, <2>4, <2>5
  <2> QED
    BY <2>6 DEF A
<1>4. F = NonDominated(rest)
  <2>1. ASSUME NEW x \in rest
        PROVE  Lowered[x] = 0 <=> \A y \in rest : ~ Dominates(y, x)
    <3>1. IsFiniteSet({p \in rest : Dominates(p, x)})
      BY <1>2, ObjAssumption, FS_Subset
    <3>2. Lowered[x] = 0 <=> {p \in rest : Dominates(p, x)} = {}
      BY <1>3, <3>1, FS_EmptySet
    <3> QED
      BY <3>2
  <2> QED
    BY <2>1 DEF NonDominated
<1>5. \A x, y : (Beats(x, y) <=> Dominates(x, y)) /\ (SureOver(x, y) <=> Dominates(x, y))
  BY <1>1 DEF Beats, SureOver
<1>6. F # {}
  <2>1. PICK z \in rest : \A y \in rest : ~ Beats(y, z)
    BY <1>1, <1>2, UnbeatenExists
  <2> QED
    BY <1>4, <1>5, <2>1 DEF NonDominated
<1>7. n' \in [Indivs -> Int]
  <2>1. ASSUME NEW x \in Indivs PROVE Lowered[x] \in Int
    <3>1. IsFiniteSet({p \in LastFront : Dominates(p, x)})
      BY <1>2, ObjAssumption, FS_Subset
    <3>2. Cardinality({p \in LastFront : Dominates(p, x)}) \in Nat /\ n[x] \in Int
      BY <1>1, <3>1, FS_CardinalityType DEF TypeOK
    <3> QED
      BY <3>2 DEF Lowered
  <2>2. Lowered = [x \in Indivs |-> Lowered[x]]
    BY DEF Lowered
  <2> QED
    BY <1>1, <2>1, <2>2
<1>8. /\ \A y \in F : \A x \in rest : ~ SureOver(x, y)
      /\ \A x \in rest : (\A y \in rest : ~ Beats(y, x)) => x \in F
  BY <1>4, <1>5 DEF NonDominated
<1>9. \A x \in rest : n'[x] = Cardinality({p \in rest : Dominates(p, x)})
  BY <1>1, <1>3
<1>10. F \in SUBSET rest
  OBVIOUS
<1> HIDE DEF F
<1> QED
  BY <1>1, <1>4, <1>6, <1>7, <1>8, <1>9, <1>10, NextFrontKeeps

LEMMA RoundKeeps ==
  ASSUME IInv, Round PROVE IInv'
<1>1. /\ TypeOK /\ algo = "pnsga" /\ Ranking /\ rest # {} /\ n' = n
      /\ rest \in SUBSET Indivs
  BY DEF IInv, Round, Ranking, TypeOK
<1>2. PICK lucky \in SUBSET (Possible(rest) \ Safe(rest)) :
        NextFront(Safe(rest) \cup lucky)
  BY DEF Round
<1> DEFINE F == Safe(rest) \cup lucky
<1>3. F \in SUBSET rest
  BY DEF Safe, Possible
<1>4. \A x \in rest : (\A y \in rest : ~ Beats(y, x)) => x \in F
  BY <1>1 DEF Safe, Beats
<1>5. F # {}
  BY <1>1, <1>4, UnbeatenExists
<1>6. \A y \in F : \A x \in rest : ~ SureOver(x, y)
  <2>1. Draws # {}
    BY DrawsAre
  <2> QED
    BY <1>1, <2>1 DEF Safe, Possible, SureOver
<1>7. algo # "nsga2" /\ n' \in [Indivs -> Int]
  BY <1>1 DEF TypeOK
<1> HIDE DEF F
<1>8. NextFront(F)
  BY <1>2 DEF F
<1> QED
  BY <1>1, <1>3, <1>4, <1>5, <1>6, <1>7, <1>8, NextFrontKeeps

(* Who survives: whole fronts, and of the next one as many as there are     *)
(* places left.                                                             *)
LEMMA FillSurvivors ==
  ASSUME IInv, Fill
  PROVE  \E j \in 1 .. Len(fronts) :
           \E T \in Cut(fronts[j], Size - Cardinality(UpTo(j - 1))) :
             /\ parents' = UpTo(j - 1) \cup T
             /\ T \subseteq fronts[j] /\ fronts[j] \subseteq mixed
             /\ UpTo(j - 1) \subseteq mixed /\ fronts[j] \cap UpTo(j - 1) = {}
             /\ Cardinality(T) = Size - Cardinality(UpTo(j - 1))
<1>1. /\ TypeOK /\ Split /\ Len(fronts) \in Nat /\ fronts \in Seq(SUBSET mixed)
  BY DEF IInv, TypeOK
<1>2. PICK j \in 1 .. Len(fronts) :
        \E T \in Cut(fronts[j], Size - Cardinality(UpTo(j - 1))) :
          parents' = UpTo(j - 1) \cup T
  BY DEF Fill
<1>3. PICK T \in Cut(fronts[j], Size - Cardinality(UpTo(j - 1))) :
        parents' = UpTo(j - 1) \cup T
  BY <1>2
<1>4. j - 1 \in 0 .. Len(fronts)
  BY <1>1
<1>5. fronts[j] \subseteq mixed /\ UpTo(j - 1) \subseteq mixed
  BY <1>1, <1>4, UpToFacts
<1>6. fronts[j] \cap UpTo(j - 1) = {}
  BY <1>1 DEF Split
<1>7. T \subseteq fronts[j] /\ Cardinality(T) = Size - Cardinality(UpTo(j - 1))
  BY DEF Cut
<1> QED
  BY <1>3, <1>5, <1>6, <1>7

LEMMA FillKeeps ==
  ASSUME IInv, Fill PROVE IInv'
<1>1. /\ TypeOK /\ Split /\ RoundsProgress /\ rest = {} /\ fronts \in Seq(SUBSET mixed)
      /\ mixed # {} /\ mixed \subseteq Indivs /\ Len(fronts) \in Nat
  BY DEF IInv, TypeOK, Split, Fill
<1>2. /\ front' = fronts[1] /\ pc' = "idle" /\ mixed' = {} /\ fronts' = <<>>
      /\ rest' = {} /\ n' = n /\ algo' = algo
  BY DEF Fill
<1>3. PICK j \in 1 .. Len(fronts), T \in SUBSET mixed :
        /\ parents' = UpTo(j - 1) \cup T
        /\ T \subseteq fronts[j] /\ fronts[j] \subseteq mixed
        /\ UpTo(j - 1) \subseteq mixed /\ fronts[j] \cap UpTo(j - 1) = {}
        /\ Cardinality(T) = Size - Cardinality(UpTo(j - 1))
  BY FillSurvivors
<1>4. 1 \in 1 .. Len(fronts) /\ fronts[1] \subseteq mixed
  BY <1>1, <1>3
<1>5. Len(fronts') = 0 /\ fronts' \in Seq(SUBSET mixed') /\ 1 .. Len(fronts') = {}
  BY <1>2
<1>6. Ranked' = {}
  BY <1>2, <1>5 DEF Ranked, UpTo
<1>7. TypeOK'
  BY <1>1, <1>2, <1>3, <1>4, <1>5 DEF TypeOK
<1>8. /\ Split' /\ RoundsProgress' /\ Peeled' /\ FrontsRespectDominance' /\ FirstFront'
      /\ Counted'
  BY <1>2, <1>5, <1>6
  DEF Split, RoundsProgress, Peeled, FrontsRespectDominance, FirstFront, Counted
<1>9. AtRest'
  <2>1. Cardinality(parents') = Size
    <3>1. UpTo(j - 1) \in SUBSET Indivs /\ T \in SUBSET Indivs /\ UpTo(j - 1) \cap T = {}
      BY <1>1, <1>3
    <3>2. /\ Cardinality(UpTo(j - 1)) \in Nat /\ Cardinality(T) \in Nat
          /\ Cardinality(UpTo(j - 1) \cup T) = Cardinality(UpTo(j - 1)) + Cardinality(T)
      BY <3>1, CardinalityDisjoint
    <3> QED
      BY <1>3, <3>2, SizeAssumption
  <2>2. parents' \subseteq front' \/ front' \subseteq parents'
    <3>1. CASE j = 1
      <4>1. UpTo(j - 1) = {}
        BY <1>1, <3>1, UpToFacts
      <4> QED
        BY <1>2, <1>3, <3>1, <4>1
    <3>2. CASE j # 1
      <4>1. j - 1 \in 0 .. Len(fronts) /\ 1 \in 1 .. (j - 1)
        BY <1>1, <3>2
      <4>2. fronts[1] \subseteq UpTo(j - 1)
        BY <1>1, <4>1, UpToFacts
      <4> QED
        BY <1>2, <1>3, <4>2
    <3> QED
      BY <3>1, <3>2
  <2> QED
    BY <2>1, <2>2 DEF AtRest
<1> QED
  BY <1>7, <1>8, <1>9 DEF IInv

LEMMA RandomPopKeeps ==
  ASSUME IInv, RandomPop PROVE IInv'
<1>1. PICK P \in SUBSET Indivs : Cardinality(P) = InitSize /\ StartRank(P)
  BY DEF RandomPop
<1>2. P # {}
  BY <1>1, SizeAssumption, FS_EmptySet
<1>3. /\ TypeOK /\ algo' = algo /\ pc' \in {"first", "rank"}
      /\ parents' \subseteq Indivs /\ front' \subseteq Indivs
  BY DEF IInv, TypeOK, RandomPop
<1> QED
  BY <1>1, <1>2, <1>3, StartRankKeeps

LEMMA LoadAndRunKeeps ==
  ASSUME IInv, LoadAndRun PROVE IInv'
<1>1. PICK P \in SUBSET Indivs : Cardinality(P) = Size /\ StartRank(P)
  BY DEF LoadAndRun
<1>2. P # {}
  BY <1>1, SizeAssumption, FS_EmptySet
<1>3. /\ TypeOK /\ algo' = algo /\ pc' \in {"first", "rank"}
      /\ parents' \subseteq Indivs /\ front' \subseteq Indivs
  BY DEF IInv, TypeOK, LoadAndRun
<1> QED
  BY <1>1, <1>2, <1>3, StartRankKeeps

LEMMA BreedKeeps ==
  ASSUME IInv, Breed PROVE IInv'
<1>1. PICK children \in SUBSET (Indivs \ parents) : StartRank(parents \cup children)
  BY DEF Breed
<1>2. /\ TypeOK /\ AtRest /\ pc = "idle" /\ parents \subseteq Indivs
  BY DEF IInv, TypeOK, Breed
<1>3. parents \cup children # {} /\ parents \cup children \in SUBSET Indivs
  BY <1>2, SizeAssumption, FS_EmptySet DEF AtRest
<1>4. /\ algo' = algo /\ pc' \in {"first", "rank"}
      /\ parents' \subseteq Indivs /\ front' \subseteq Indivs
  BY <1>2 DEF Breed
<1> QED
  BY <1>1, <1>2, <1>3, <1>4, StartRankKeeps

LEMMA RerankKeeps ==
  ASSUME IInv, Rerank PROVE IInv'
<1>1. /\ TypeOK /\ StartRank(mixed) /\ algo' = algo /\ parents' = parents
      /\ pc' \in {"first", "rank"} /\ front' = fronts[1] /\ pc = "first" /\ rest = {}
      /\ mixed # {} /\ mixed \in SUBSET Indivs /\ parents \subseteq Indivs
      /\ Len(fronts) \in Nat /\ fronts \in Seq(SUBSET mixed)
  BY DEF IInv, TypeOK, Rerank, Split
<1>2. Len(fronts) # 0
  <2>1. SUFFICES ASSUME Len(fronts) = 0 PROVE FALSE
    OBVIOUS
  <2>2. Ranked = {}
    BY <1>1, <2>1, UpToFacts
  <2> QED
    BY <1>1, <2>2 DEF IInv, Split
<1>3. front' \subseteq Indivs
  BY <1>1, <1>2
<1> QED
  BY <1>1, <1>3, StartRankKeeps

LEMMA InvInit == Init => IInv
<1>1. SUFFICES ASSUME Init PROVE IInv
  OBVIOUS
<1>2. Len(fronts) = 0 /\ fronts \in Seq(SUBSET mixed) /\ 1 .. Len(fronts) = {}
  BY <1>1 DEF Init
<1>3. Ranked = {}
  BY <1>2 DEF Ranked, UpTo
<1> QED
  BY <1>1, <1>2, <1>3
  DEF Init, IInv, TypeOK, Split, RoundsProgress, Peeled, FrontsRespectDominance,
      FirstFront, Counted, AtRest

LEMMA InvNext == IInv /\ [Next]_vars => IInv'
<1>1. SUFFICES ASSUME IInv, [Next]_vars PROVE IInv'
  OBVIOUS
<1>2. CASE UNCHANGED vars
  <2>1. \A x, y : (Beats(x, y)' <=> Beats(x, y)) /\ (SureOver(x, y)' <=> SureOver(x, y))
    BY <1>2 DEF Beats, SureOver, vars
  <2>2. \A j : UpTo(j)' = UpTo(j)
    BY <1>2 DEF UpTo, vars
  <2>3. Ranked' = Ranked /\ LastFront' = LastFront
    BY <1>2 DEF Ranked, UpTo, LastFront, vars
  <2> QED
    BY <1>1, <1>2, <2>1, <2>2, <2>3
    DEF vars, IInv, TypeOK, Split, RoundsProgress, Peeled, FrontsRespectDominance,
        FirstFront, Counted, AtRest
<1>3. CASE Next
  BY <1>1, <1>3, RandomPopKeeps, LoadAndRunKeeps, BreedKeeps, LayerKeeps, RoundKeeps, RerankKeeps, FillKeeps
  DEF Next
<1> QED
  BY <1>1, <1>2, <1>3

(* For every run of nsga2 and of pnsga: counters, fronts, ranks and         *)
(* populations agree.                                                       *)
THEOREM Invariance == Spec => []IInv
BY InvInit, InvNext, PTL DEF Spec

(* With at most one objective that counts only sometimes, a round of        *)
(* dom_sort_basic() always finds somebody, and so does sort_deb().          *)
THEOREM Progress == Spec => []RoundsProgress
<1>1. IInv => RoundsProgress
  BY DEF IInv
<1> QED
  BY <1>1, Invariance, PTL

(* sort_deb() computes the fronts of dom_sort_basic(). *)
THEOREM Peeling == Spec => []Peeled
<1>1. IInv => Peeled
  BY DEF IInv
<1> QED
  BY <1>1, Invariance, PTL

(* Who is surely dominated comes later. *)
THEOREM Dominance == Spec => []FrontsRespectDominance
<1>1. IInv => FrontsRespectDominance
  BY DEF IInv
<1> QED
  BY <1>1, Invariance, PTL

-----------------------------------------------------------------------------
(* The survivors.                                                           *)

LEMMA FillKeepsBetter ==
  ASSUME IInv, Fill
  PROVE  \A x \in mixed \ parents', y \in parents' : ~ SureOver(x, y)
<1>1. SUFFICES ASSUME NEW x \in mixed \ parents', NEW y \in parents', SureOver(x, y)
               PROVE  FALSE
  OBVIOUS
<1>2. PICK j \in 1 .. Len(fronts), T \in SUBSET mixed :
        parents' = UpTo(j - 1) \cup T /\ T \subseteq fronts[j]
  BY FillSurvivors
<1>3. /\ fronts \in Seq(SUBSET mixed) /\ Len(fronts) \in Nat
      /\ FrontsRespectDominance
  BY DEF IInv, TypeOK
<1>4. j - 1 \in 0 .. Len(fronts)
  BY <1>3
<1>5. PICK i \in 1 .. j : y \in fronts[i]
  <2>1. CASE y \in T
    BY <1>2, <1>3, <2>1
  <2>2. CASE y \in UpTo(j - 1)
    <3>1. PICK i \in 1 .. (j - 1) : y \in fronts[i]
      BY <1>3, <1>4, <2>2, UpToFacts
    <3> QED
      BY <1>3, <3>1
  <2> QED
    BY <1>2, <2>1, <2>2
<1>6. i \in 1 .. Len(fronts) /\ i - 1 \in 0 .. (j - 1)
  BY <1>3
<1>7. x \in UpTo(i - 1)
  BY <1>1, <1>3, <1>5, <1>6 DEF FrontsRespectDominance
<1>8. x \in UpTo(j - 1)
  BY <1>3, <1>4, <1>6, <1>7, UpToFacts
<1> QED
  BY <1>1, <1>2, <1>8

(* Nobody who surely dominates a survivor is dropped. *)
THEOREM Elitism == Spec => NoBetterDropped
<1>1. IInv /\ [Next]_vars =>
        [Fill => \A x \in mixed \ parents', y \in parents' : ~ SureOver(x, y)]_vars
  BY FillKeepsBetter
<1> QED
  BY <1>1, Invariance, PTL DEF Spec, NoBetterDropped

(* No more ends than two for each objective. *)
LEMMA ExtremesFew ==
  ASSUME NEW F \in SUBSET Indivs, NEW E \in Extremes(F)
  PROVE  /\ E \subseteq F /\ IsFiniteSet(E) /\ Cardinality(E) <= 2 * NbObjs
         /\ \A m \in Objs : \E z \in E : \A x \in F : Obj[z][m] >= Obj[x][m]
<1> DEFINE ends == [m \in Objs |-> {{p[1], p[2]} : p \in Ends(F, m)}]
<1>0. PICK d \in [Objs -> UNION {ends[m] : m \in Objs}] :
        (\A m \in Objs : d[m] \in ends[m]) /\ E = UNION {d[m] : m \in Objs}
  <2>1. E \in OneForEach(ends)
    BY Zenon DEF Extremes
  <2> HIDE DEF ends
  <2> QED
    BY <2>1 DEF OneForEach
<1>1. PICK e \in [Objs -> F \X F] :
        /\ \A m \in Objs : e[m] \in Ends(F, m)
        /\ E = {e[m][k] : m \in Objs, k \in {1, 2}}
  <2>1. \A m \in Objs : \E p \in Ends(F, m) : d[m] = {p[1], p[2]}
    BY <1>0
  <2> DEFINE f == [m \in Objs |-> CHOOSE p \in Ends(F, m) : d[m] = {p[1], p[2]}]
  <2>2. \A m \in Objs : f[m] \in Ends(F, m) /\ d[m] = {f[m][1], f[m][2]}
    BY <2>1
  <2>3. f \in [Objs -> F \X F]
    BY <2>2 DEF Ends
  <2> HIDE DEF f, ends
  <2>4. E = {f[m][k] : m \in Objs, k \in {1, 2}}
    BY <1>0, <2>2
  <2> QED
    BY <2>2, <2>3, <2>4
<1> HIDE DEF ends
<1>2. \A m \in Objs : /\ e[m][1] \in F /\ e[m][2] \in F
                      /\ \A x \in F : Obj[e[m][1]][m] >= Obj[x][m]
  BY <1>1 DEF Ends
<1>3. E \subseteq F
  BY <1>1, <1>2
<1>4. \A m \in Objs : \E z \in E : \A x \in F : Obj[z][m] >= Obj[x][m]
  <2>1. SUFFICES ASSUME NEW m \in Objs PROVE e[m][1] \in E
    BY <1>2
  <2> QED
    BY <1>1
<1> DEFINE g == [p \in Objs \X (1 .. 2) |-> e[p[1]][p[2]]]
<1>5. IsFiniteSet(Objs \X (1 .. 2)) /\ Cardinality(Objs \X (1 .. 2)) = NbObjs * 2
  <2>1. NbObjs \in Nat /\ NbObjs >= 1
    BY ObjAssumption
  <2>2. IsFiniteSet(Objs) /\ Cardinality(Objs) = NbObjs
    BY <2>1, FS_Interval DEF Objs
  <2>3. IsFiniteSet(1 .. 2) /\ Cardinality(1 .. 2) = 2
    <3>1. /\ IsFiniteSet(1 .. 2)
          /\ Cardinality(1 .. 2) = IF 1 > 2 THEN 0 ELSE 2 - 1 + 1
      <4>1. 1 \in Int /\ 2 \in Int
        OBVIOUS
      <4> QED
        BY <4>1, FS_Interval, Zenon
    <3> QED
      BY <3>1
  <2> QED
    BY <2>2, <2>3, FS_Product
<1>6. g \in Surjection(Objs \X (1 .. 2), E)
  <2>1. \A p \in Objs \X (1 .. 2) : g[p] \in E
    BY <1>1
  <2>2. ASSUME NEW z \in E PROVE \E p \in Objs \X (1 .. 2) : g[p] = z
    <3>1. PICK m \in Objs, k \in {1, 2} : z = e[m][k]
      BY <1>1
    <3>2. <<m, k>> \in Objs \X (1 .. 2) /\ g[<<m, k>>] = z
      BY <3>1
    <3> QED
      BY <3>2
  <2> QED
    BY <2>1, <2>2 DEF Surjection
<1> HIDE DEF g
<1>7. IsFiniteSet(E) /\ Cardinality(E) <= NbObjs * 2
  BY <1>5, <1>6, FS_Surjection
<1> QED
  BY <1>3, <1>4, <1>7, ObjAssumption

LEMMA FillKeepsBest ==
  ASSUME IInv, Fill, Size >= 2 * NbObjs, NEW m \in AlwaysCount, NEW x \in mixed
  PROVE  \E z \in parents' : Obj[z][m] >= Obj[x][m]
<1>1. /\ TypeOK /\ FirstFront /\ fronts \in Seq(SUBSET mixed) /\ mixed \in SUBSET Indivs
      /\ Len(fronts) \in Nat
  BY DEF IInv, TypeOK
<1>2. PICK j \in 1 .. Len(fronts) :
        \E T \in Cut(fronts[j], Size - Cardinality(UpTo(j - 1))) :
          parents' = UpTo(j - 1) \cup T
  BY DEF Fill
<1>3. PICK T \in Cut(fronts[j], Size - Cardinality(UpTo(j - 1))) :
        parents' = UpTo(j - 1) \cup T
  BY <1>2
<1>4. PICK z \in fronts[1] : Obj[z][m] >= Obj[x][m]
  <2>1. PICK z \in mixed : Obj[z][m] >= Obj[x][m] /\ \A y \in mixed : ~ Beats(y, z)
    BY <1>1, BestUnbeaten
  <2>2. fronts # <<>>
    BY <1>1, <1>2
  <2> QED
    BY <1>1, <2>1, <2>2 DEF FirstFront
<1>5. CASE j # 1
  <2>1. j - 1 \in 0 .. Len(fronts) /\ 1 \in 1 .. (j - 1)
    BY <1>1, <1>5
  <2>2. fronts[1] \subseteq UpTo(j - 1)
    BY <1>1, <2>1, UpToFacts
  <2> QED
    BY <1>3, <1>4, <2>2
<1>6. CASE j = 1
  <2>1. UpTo(j - 1) = {} /\ Cardinality(UpTo(j - 1)) = 0
    <3>1. UpTo(j - 1) = {}
      BY <1>1, <1>6, UpToFacts
    <3> QED
      BY <3>1, FS_EmptySet
  <2>2. Size - Cardinality(UpTo(j - 1)) = Size
    BY <2>1, SizeAssumption
  <2>3. fronts[1] \in SUBSET Indivs
    BY <1>1, <1>6
  <2>4. PICK E \in Extremes(fronts[1]) : E \subseteq T \/ T \subseteq E
    BY <1>3, <1>6 DEF Cut
  <2>5. /\ IsFiniteSet(E) /\ Cardinality(E) <= 2 * NbObjs
        /\ m \in Objs /\ E \subseteq fronts[1]
    BY <2>3, <2>4, ExtremesFew DEF AlwaysCount
  <2>6. PICK w \in E : \A y \in fronts[1] : Obj[w][m] >= Obj[y][m]
    BY <2>3, <2>4, <2>5, ExtremesFew
  <2>7. E \subseteq T
    <3>1. Cardinality(T) = Size
      BY <1>3, <2>2 DEF Cut
    <3>2. SUFFICES ASSUME T \subseteq E PROVE E = T
      BY <2>4
    <3>3. Cardinality(T) <= Cardinality(E)
      BY <2>5, <3>2, FS_Subset
    <3>4. Cardinality(E) \in Nat /\ NbObjs \in Nat /\ Size \in Nat
      BY <2>5, FS_CardinalityType, ObjAssumption, SizeAssumption
    <3>5. Cardinality(E) = Cardinality(T)
      BY <2>5, <3>1, <3>3, <3>4
    <3> QED
      BY <2>5, <3>2, <3>5, FS_Subset
  <2>8. Obj[w][m] >= Obj[z][m] /\ Obj[w][m] \in Int /\ Obj[z][m] \in Int /\ Obj[x][m] \in Int
    BY <1>1, <1>4, <2>3, <2>5, <2>6, ObjInt
  <2> QED
    BY <1>3, <1>4, <2>6, <2>7, <2>8
<1> QED
  BY <1>5, <1>6

(* With two places for each objective, the best value of an objective that  *)
(* always counts survives every epoch.                                      *)
THEOREM BestKept == Size >= 2 * NbObjs => (Spec => BestNeverLost)
<1>1. SUFFICES ASSUME Size >= 2 * NbObjs PROVE Spec => BestNeverLost
  OBVIOUS
<1>2. IInv /\ [Next]_vars =>
        [Fill => \A m \in AlwaysCount :
                   \A x \in mixed : \E z \in parents' : Obj[z][m] >= Obj[x][m]]_vars
  BY <1>1, FillKeepsBest
<1> QED
  BY <1>2, Invariance, PTL DEF Spec, BestNeverLost
----------------------------------------------------------------------------
(* Every round gives somebody a rank, so a ranking has no more rounds than  *)
(* individuals, whatever the draws of a comparison remove.                  *)
THEOREM RankingsAreFinite ==
  Spec => /\ []IsFiniteSet(rest)
          /\ [][(pc \in {"first", "rank"}) =>
                  pc' # pc \/ (rest' # rest /\ rest' \subseteq rest)]_vars
<1>1. IInv => IsFiniteSet(rest)
  BY ObjAssumption, FS_Subset DEF IInv, TypeOK
<1>2. ASSUME IInv, [Next]_vars
      PROVE  [(pc \in {"first", "rank"}) =>
                pc' # pc \/ (rest' # rest /\ rest' \subseteq rest)]_vars
  <2>1. IInv'
    BY <1>2, InvNext
  <2>2. ASSUME NEW F \in SUBSET rest, NextFront(F)
        PROVE  rest' \subseteq rest /\ rest' # rest
    <3>1. fronts \in Seq(SUBSET mixed) /\ F \in SUBSET mixed
      BY <1>2, <2>2 DEF IInv, TypeOK
    <3>2. Len(fronts') \in 1 .. Len(fronts') /\ fronts'[Len(fronts')] = F
      BY <2>2, <3>1 DEF NextFront
    <3>3. F # {}
      BY <2>1, <3>2 DEF IInv, RoundsProgress
    <3> QED
      BY <2>2, <3>3 DEF NextFront
  <2>3. CASE Layer
    BY <2>2, <2>3 DEF Layer
  <2>4. CASE Round
    <3>1. PICK lucky \in SUBSET (Possible(rest) \ Safe(rest)) :
            NextFront(Safe(rest) \cup lucky)
      BY <2>4 DEF Round
    <3>2. Safe(rest) \cup lucky \in SUBSET rest
      BY DEF Safe, Possible
    <3> QED
      BY <2>2, <3>1, <3>2
  <2>5. CASE RandomPop \/ LoadAndRun \/ Breed \/ Rerank \/ Fill
    BY <2>5 DEF RandomPop, LoadAndRun, Breed, Rerank, Fill
  <2> QED
    BY <1>2, <2>3, <2>4, <2>5 DEF Next
<1> QED
  BY <1>1, <1>2, Invariance, PTL DEF Spec
=============================================================================
