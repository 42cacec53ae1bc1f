---------------------------- MODULE EaRunProofs ----------------------------
(* For any sizes, scores, numbers of goals and generations, what the run    *)
(* writes is the best of its population for the goal of the period.         *)
EXTENDS EaRun, SequenceTheorems, TLAPS

-----------------------------------------------------------------------------
(* Periods.                                                                 *)

LEMMA Division ==
  ASSUME NEW a \in Int, NEW p \in Nat \ {0}
  PROVE  /\ a \div p \in Int /\ a % p \in 0 .. (p - 1)
         /\ a = (p * (a \div p)) + (a % p)
         /\ a \in Nat => a \div p \in Nat
OBVIOUS

LEMMA DivisionIsUnique ==
  ASSUME NEW p \in Nat \ {0}, NEW q \in Int, NEW r \in 0 .. (p - 1)
  PROVE  ((p * q) + r) \div p = q /\ ((p * q) + r) % p = r
OBVIOUS

LEMMA SmallRemainder ==
  ASSUME NEW p \in Nat \ {0}, NEW r \in 0 .. (p - 1)
  PROVE  r \div p = 0 /\ r % p = r
<1>1. (p * 0) + r = r
  OBVIOUS
<1> QED
  BY <1>1, DivisionIsUnique

(* From one number to the next a quotient grows when the remainder is zero. *)
LEMMA NextQuotient ==
  ASSUME NEW a \in Nat \ {0}, NEW p \in Nat \ {0}
  PROVE  a \div p = ((a - 1) \div p) + (IF a % p = 0 THEN 1 ELSE 0)
<1> DEFINE q == (a - 1) \div p
           r == (a - 1) % p
<1>1. q \in Nat /\ r \in 0 .. (p - 1) /\ a - 1 = (p * q) + r
  BY Division
<1> HIDE DEF q, r
<1>2. CASE r < p - 1
  <2>1. a = (p * q) + (r + 1) /\ r + 1 \in 1 .. (p - 1)
    BY <1>1, <1>2
  <2>2. a \div p = q /\ a % p = r + 1
    BY <1>1, <2>1, DivisionIsUnique
  <2> QED
    BY <1>1, <2>1, <2>2 DEF q
<1>3. CASE r = p - 1
  <2>1. a = (p * (q + 1)) + 0
    BY <1>1, <1>3
  <2>2. a \div p = q + 1 /\ a % p = 0
    BY <1>1, <2>1, DivisionIsUnique
  <2> QED
    BY <1>1, <2>2 DEF q
<1> QED
  BY <1>1, <1>2, <1>3

(* Counting on from a remainder is counting on from the number.             *)
LEMMA NextRemainder ==
  ASSUME NEW y \in Nat, NEW n \in Nat \ {0}
  PROVE  ((y % n) + 1) % n = (y + 1) % n
<1> DEFINE q == y \div n
           r == y % n
<1>1. q \in Nat /\ r \in 0 .. (n - 1) /\ y = (n * q) + r
  <2>1. y \in Int
    OBVIOUS
  <2> QED
    BY <2>1, Division
<1> HIDE DEF q, r
<1>2. CASE r < n - 1
  <2>1. r + 1 \in 0 .. (n - 1) /\ y + 1 = (n * q) + (r + 1)
    BY <1>1, <1>2
  <2>2. (y + 1) % n = r + 1
    BY <1>1, <2>1, DivisionIsUnique
  <2>3. (r + 1) % n = r + 1
    BY <2>1, SmallRemainder
  <2> QED
    BY <2>2, <2>3 DEF r
<1>3. CASE r = n - 1
  <2>1. r + 1 = (n * 1) + 0 /\ y + 1 = (n * (q + 1)) + 0
    BY <1>1, <1>3
  <2>2. (y + 1) % n = 0 /\ (r + 1) % n = 0
    BY <1>1, <2>1, DivisionIsUnique
  <2> QED
    BY <2>2 DEF r
<1> QED
  BY <1>1, <1>2, <1>3

(* gen - 1 at generation 0 is odd, the period is even: no switch.           *)
LEMMA NoSwitchAtZero == ~ Switches(0)
<1>1. /\ SizeT \in Nat \ {0} /\ SizeT % 2 = 0
      /\ Period \in Nat \ {0} /\ Period % 2 = 0
  BY SizesAssumption, WidthAssumption, PeriodAssumption
<1>2. (0 - 1) % SizeT = SizeT - 1
  <2>1. 0 - 1 = (SizeT * (-1)) + (SizeT - 1) /\ SizeT - 1 \in 0 .. (SizeT - 1)
    BY <1>1
  <2> QED
    BY <1>1, <2>1, DivisionIsUnique
<1>3. ASSUME (SizeT - 1) % Period = 0 PROVE FALSE
  <2> DEFINE q == (SizeT - 1) \div Period
  <2>1. q \in Nat /\ SizeT - 1 = Period * q
    BY <1>1, <1>3, Division
  <2> HIDE DEF q
  <2>2. PICK h \in Nat : SizeT = 2 * h
    BY <1>1
  <2>3. PICK k \in Nat : Period = 2 * k
    BY <1>1
  <2>4. SizeT - 1 = 2 * (k * q) /\ k * q \in Int
    BY <2>1, <2>3
  <2> QED
    BY <2>2, <2>4
<1> QED
  BY <1>2, <1>3 DEF Switches

(* The goal after the modifier of a generation, counted from the one before. *)
LEMMA GoalAdvances ==
  ASSUME NEW g \in Nat, g < NbGen, goal = GoalOf(IF g = 0 THEN 0 ELSE g - 1)
  PROVE  GoalAt(g) = GoalOf(g)
<1>1. /\ SizeT \in Nat \ {0} /\ Period \in Nat \ {0} /\ NbGoals \in Nat \ {0}
      /\ NbGen \in Nat /\ NbGen <= SizeT
  BY SizesAssumption, WidthAssumption
<1>2. CASE g = 0
  BY <1>2, NoSwitchAtZero DEF GoalAt
<1>3. CASE g = 1
  <2>1. 0 \div Period = 0
    BY <1>1, SmallRemainder
  <2> QED
    BY <1>3, <2>1 DEF GoalAt, Switches, GoalOf
<1>4. CASE g > 1
  <2> DEFINE a == g - 1
             y == (a - 1) \div Period
  <2>1. a \in Nat \ {0} /\ a \in 0 .. (SizeT - 1) /\ g # 0 /\ g # 1 /\ a # 0
    BY <1>1, <1>4
  <2>2. Switches(g) <=> a % Period = 0
    <3>1. a % SizeT = a
      BY <1>1, <2>1, SmallRemainder
    <3> QED
      BY <2>1, <3>1 DEF Switches
  <2>3. goal = y % NbGoals
    BY <2>1 DEF GoalOf
  <2>4. GoalOf(g) = (a \div Period) % NbGoals
    BY <2>1 DEF GoalOf
  <2>5. y \in Nat
    <3>1. a - 1 \in Int /\ a - 1 \in Nat
      BY <2>1
    <3> QED
      BY <1>1, <3>1, Division
  <2>6. a \div Period = y + (IF a % Period = 0 THEN 1 ELSE 0)
    BY <1>1, <2>1, NextQuotient
  <2>7. (goal + 1) % NbGoals = (y + 1) % NbGoals
    BY <1>1, <2>3, <2>5, NextRemainder
  <2> HIDE DEF a, y
  <2>8. CASE a % Period = 0
    BY <2>2, <2>4, <2>6, <2>7, <2>8 DEF GoalAt
  <2>9. CASE a % Period # 0
    BY <2>2, <2>3, <2>4, <2>5, <2>6, <2>9 DEF GoalAt
  <2> QED
    BY <2>8, <2>9
<1> QED
  BY <1>2, <1>3, <1>4

LEMMA GoalsAreGoals ==
  ASSUME NEW g \in Nat
  PROVE  GoalOf(g) \in Goals
<1>1. Period \in Nat \ {0} /\ NbGoals \in Nat \ {0}
  BY SizesAssumption
<1>2. (IF g = 0 THEN 0 ELSE (g - 1) \div Period) \in Nat
  BY <1>1, Division
<1> QED
  BY <1>1, <1>2, Division DEF GoalOf, Goals

-----------------------------------------------------------------------------
(* Sorting and evaluating.                                                  *)

LEMMA Sizes ==
  /\ Size \in Nat \ {0} /\ InitSize \in Nat \ {0} /\ NbKeep \in Nat \ {0}
  /\ NbGen \in Nat \ {0} /\ NbGoals \in Nat \ {0} /\ Period \in Nat \ {0}
  /\ NbKeep < Size /\ Size <= InitSize
BY SizesAssumption

LEMMA ValueIsNumber ==
  ASSUME NEW i \in Scored
  PROVE  Value(i) \in Int
BY ScoreAssumption DEF Value, Scored

(* A partial sort rearranges, and puts the best first.                      *)
LEMMA SortFacts ==
  ASSUME NEW D \in {1 .. Size, 1 .. InitSize}, NEW s \in [D -> Scored],
         NEW k \in Nat \ {0}, NEW t \in PartialSorts(s, k)
  PROVE  /\ t \in [D -> Scored]
         /\ \A j \in D : \E i \in D : t[j] = s[i]
         /\ \A i \in D : \E j \in D : t[j] = s[i]
         /\ \A j \in D : Value(t[1]) >= Value(t[j])
<1>1. DOMAIN s = D
  OBVIOUS
<1>2. PICK p \in Orders[D] :
        /\ t = [i \in D |-> s[p[i]]]
        /\ \A i, j \in D : (i <= k /\ i < j) => Value(t[i]) >= Value(t[j])
  BY <1>1 DEF PartialSorts
<1>3. p \in [D -> D] /\ \A j \in D : \E i \in D : p[i] = j
  BY <1>2 DEF Orders
<1>4. t \in [D -> Scored]
  BY <1>2, <1>3
<1>5. ASSUME NEW j \in D PROVE Value(t[1]) >= Value(t[j])
  <2>1. 1 \in D /\ j \in Nat \ {0}
    BY Sizes
  <2>2. CASE j = 1
    BY <1>4, <2>1, <2>2, ValueIsNumber
  <2>3. CASE j # 1
    BY <1>2, <2>1, <2>3
  <2> QED
    BY <2>2, <2>3
<1> QED
  BY <1>2, <1>3, <1>4, <1>5

(* What the modifier has given a goal has the value for that goal.          *)
LEMMA GivenGoal ==
  ASSUME NEW D, NEW s \in [D -> Scored], NEW g \in Goals
  PROVE  /\ GiveGoal(s, g) \in [D -> Scored]
         /\ \A i \in D : GiveGoal(s, g)[i].on = g /\ GiveGoal(s, g)[i].of = s[i].of
BY DEF GiveGoal, Scored

LEMMA ZeroIsGoal == 0 \in Goals
BY Sizes DEF Goals

-----------------------------------------------------------------------------
(* The invariant, action by action.                                         *)

LEMMA InitHolds == Init => IInv
<1>1. 0 \in 0 .. NbGen
  BY Sizes
<1> QED
  BY <1>1, ZeroIsGoal DEF Init, IInv, TypeOK, GoalOfGeneration, SortedOnGoal,
     DumpsBeforeSwitch

LEMMA RandomPopHolds == IInv /\ RandomPop => IInv'
<1> SUFFICES ASSUME IInv, RandomPop PROVE IInv'
  OBVIOUS
<1>1. gen = 0 /\ goal = 0 /\ TypeOK /\ pc = "start"
  BY DEF IInv, GoalOfGeneration, RandomPop
<1>2. goal' = 0
  BY <1>1, NoSwitchAtZero DEF RandomPop, GoalAt
<1>3. pop' \in [1 .. Size -> Scored]
  <2>1. PICK xs \in [1 .. InitSize -> Indivs] :
          \E t \in PartialSorts(GiveGoal([i \in 1 .. InitSize |-> [of |-> xs[i], on |-> 0]],
                                        goal'), Size) :
            pop' = SubSeq(t, 1, Size)
    BY DEF RandomPop
  <2> DEFINE raw == [i \in 1 .. InitSize |-> [of |-> xs[i], on |-> 0]]
  <2>2. raw \in [1 .. InitSize -> Scored]
    BY ZeroIsGoal DEF Scored
  <2> HIDE DEF raw
  <2>3. GiveGoal(raw, goal') \in [1 .. InitSize -> Scored]
    BY <1>2, <2>2, ZeroIsGoal, GivenGoal
  <2>4. PICK t \in PartialSorts(GiveGoal(raw, goal'), Size) : pop' = SubSeq(t, 1, Size)
    BY <2>1 DEF raw
  <2>5. t \in [1 .. InitSize -> Scored]
    BY <2>3, Sizes, SortFacts
  <2>6. t \in Seq(Scored) /\ Len(t) = InitSize
    BY <2>5, Sizes
  <2>7. SubSeq(t, 1, Size) = [i \in 1 .. Size |-> t[i]]
    BY <2>6, Sizes
  <2>8. \A i \in 1 .. Size : i \in 1 .. InitSize
    BY Sizes
  <2>9. \A i \in 1 .. Size : t[i] \in Scored
    BY <2>5, <2>8
  <2> QED
    BY <2>4, <2>7, <2>9
<1>4. TypeOK'
  BY <1>1, <1>2, <1>3, ZeroIsGoal DEF TypeOK, RandomPop
<1>5. GoalOfGeneration'
  <2>1. GoalOf(0) = 0
    BY Sizes, SmallRemainder DEF GoalOf
  <2> QED
    BY <1>1, <1>2, <2>1 DEF GoalOfGeneration, RandomPop
<1>6. SortedOnGoal' /\ DumpsBeforeSwitch'
  BY DEF IInv, RandomPop, SortedOnGoal, DumpsBeforeSwitch
<1> QED
  BY <1>4, <1>5, <1>6 DEF IInv

(* What an epoch makes of the population: those that are kept are still     *)
(* there, all have the new goal and the best for it is the first.           *)
LEMMA EpochSorts ==
  ASSUME IInv, Epoch
  PROVE  /\ goal' = GoalOf(gen) /\ goal' \in Goals /\ gen \in Nat /\ gen < NbGen
         /\ pop' \in [1 .. Size -> Scored]
         /\ \A i \in 1 .. Size : pop'[i].on = goal' /\ Value(pop'[1]) >= Value(pop'[i])
         /\ \A i \in 1 .. NbKeep : \E j \in 1 .. Size :
              pop'[j].of = pop[i].of /\ pop'[j].on = goal'
<1>1. /\ pc = "epoch" /\ TypeOK /\ gen \in Nat /\ gen < NbGen
      /\ goal = GoalOf(IF gen = 0 THEN 0 ELSE gen - 1)
  BY Sizes DEF IInv, TypeOK, GoalOfGeneration, Epoch
<1>2. goal' = GoalOf(gen) /\ goal' \in Goals
  BY <1>1, GoalAdvances, GoalsAreGoals DEF Epoch
<1>3. PICK o \in Offspring(NbKeep) :
        \E t \in PartialSorts(GiveGoal([i \in 1 .. Size |->
                   IF i <= NbKeep THEN pop[i] ELSE o[i]], goal'), NbKeep) : pop' = t
  BY DEF Epoch
<1> DEFINE bred == [i \in 1 .. Size |-> IF i <= NbKeep THEN pop[i] ELSE o[i]]
<1>4. bred \in [1 .. Size -> Scored]
  <2>1. pop \in [1 .. Size -> Scored]
    BY <1>1 DEF TypeOK
  <2>2. \A i \in NbKeep + 1 .. Size : o[i] \in Scored
    BY <1>3, ZeroIsGoal DEF Offspring, Scored
  <2>3. \A i \in 1 .. Size : ~ (i <= NbKeep) => i \in NbKeep + 1 .. Size
    BY Sizes
  <2> QED
    BY <2>1, <2>2, <2>3
<1>5. \A i \in 1 .. NbKeep : i \in 1 .. Size /\ bred[i] = pop[i]
  BY Sizes
<1> HIDE DEF bred
<1>6. /\ GiveGoal(bred, goal') \in [1 .. Size -> Scored]
      /\ \A i \in 1 .. Size : /\ GiveGoal(bred, goal')[i].on = goal'
                             /\ GiveGoal(bred, goal')[i].of = bred[i].of
  BY <1>2, <1>4 DEF GiveGoal, Scored
<1>7. pop' \in PartialSorts(GiveGoal(bred, goal'), NbKeep)
  BY <1>3 DEF bred
<1>8. /\ pop' \in [1 .. Size -> Scored]
      /\ \A j \in 1 .. Size : \E i \in 1 .. Size : pop'[j] = GiveGoal(bred, goal')[i]
      /\ \A i \in 1 .. Size : \E j \in 1 .. Size : pop'[j] = GiveGoal(bred, goal')[i]
      /\ \A j \in 1 .. Size : Value(pop'[1]) >= Value(pop'[j])
  <2> DEFINE given == GiveGoal(bred, goal')
  <2>1. given \in [1 .. Size -> Scored] /\ pop' \in PartialSorts(given, NbKeep)
    BY <1>6, <1>7
  <2> HIDE DEF given
  <2>2. /\ pop' \in [1 .. Size -> Scored]
        /\ \A j \in 1 .. Size : \E i \in 1 .. Size : pop'[j] = given[i]
        /\ \A i \in 1 .. Size : \E j \in 1 .. Size : pop'[j] = given[i]
        /\ \A j \in 1 .. Size : Value(pop'[1]) >= Value(pop'[j])
    BY <2>1, Sizes, SortFacts
  <2> QED
    BY <2>2 DEF given
<1>9. ASSUME NEW i \in 1 .. Size PROVE pop'[i].on = goal'
  <2>1. PICK j \in 1 .. Size : pop'[i] = GiveGoal(bred, goal')[j]
    BY <1>8
  <2>2. GiveGoal(bred, goal')[j].on = goal'
    BY <1>6
  <2> QED
    BY <2>1, <2>2
<1>10. ASSUME NEW i \in 1 .. NbKeep
       PROVE  \E j \in 1 .. Size : pop'[j].of = pop[i].of /\ pop'[j].on = goal'
  <2>1. i \in 1 .. Size /\ bred[i] = pop[i]
    BY <1>5
  <2>2. PICK j \in 1 .. Size : pop'[j] = GiveGoal(bred, goal')[i]
    BY <1>8, <2>1
  <2>3. GiveGoal(bred, goal')[i].of = bred[i].of
    BY <1>6, <2>1
  <2> QED
    BY <1>9, <2>1, <2>2, <2>3
<1> QED
  BY <1>1, <1>2, <1>8, <1>9, <1>10

LEMMA EpochHolds == IInv /\ Epoch => IInv'
<1> SUFFICES ASSUME IInv, Epoch PROVE IInv'
  OBVIOUS
<1>1. /\ goal' = GoalOf(gen) /\ goal' \in Goals /\ gen < NbGen
      /\ pop' \in [1 .. Size -> Scored]
      /\ \A i \in 1 .. Size : pop'[i].on = goal' /\ Value(pop'[1]) >= Value(pop'[i])
  BY EpochSorts
<1>2. TypeOK' /\ GoalOfGeneration'
  BY <1>1 DEF IInv, TypeOK, GoalOfGeneration, Epoch
<1>3. SortedOnGoal'
  BY <1>1 DEF SortedOnGoal, Epoch, Value
<1>4. DumpsBeforeSwitch'
  BY DEF IInv, Epoch, DumpsBeforeSwitch
<1> QED
  BY <1>2, <1>3, <1>4 DEF IInv

LEMMA UpdateStatsHolds == IInv /\ UpdateStats => IInv'
<1> SUFFICES ASSUME IInv, UpdateStats PROVE IInv'
  OBVIOUS
<1>1. pop \in [1 .. Size -> Scored] /\ 1 \in 1 .. Size
  BY Sizes DEF IInv, TypeOK, UpdateStats
<1>2. TypeOK'
  BY <1>1 DEF IInv, TypeOK, UpdateStats
<1> QED
  BY <1>2 DEF IInv, GoalOfGeneration, SortedOnGoal, DumpsBeforeSwitch, UpdateStats, Value

LEMMA WriteHolds == IInv /\ Write => IInv'
<1> SUFFICES ASSUME IInv, Write PROVE IInv'
  OBVIOUS
<1>1. /\ pc = "write" /\ TypeOK /\ goal = GoalOf(gen) /\ goal \in Goals
      /\ gen \in Nat /\ gen < NbGen /\ NbGen \in Nat
      /\ pop \in [1 .. Size -> Scored] /\ best = pop[1]
  BY Sizes DEF IInv, TypeOK, GoalOfGeneration, SortedOnGoal, Write
<1>2. Value(best) \in Int
  <2>1. best \in Scored
    BY <1>1, Sizes
  <2> QED
    BY <2>1, ValueIsNumber
<1>3. dumps' \subseteq dumps \cup {[gen |-> gen, goal |-> goal, value |-> Value(best)]}
  BY DEF Write, Written
<1>4. DumpsBeforeSwitch'
  BY <1>1, <1>3 DEF IInv, DumpsBeforeSwitch
<1>5. TypeOK'
  <2>1. dumps' \subseteq [gen : Nat, goal : Goals, value : Int]
    BY <1>1, <1>2, <1>3 DEF TypeOK
  <2>2. gen' \in 0 .. NbGen
    BY <1>1 DEF Write
  <2> QED
    BY <1>1, <2>1, <2>2 DEF TypeOK, Write
<1>6. GoalOfGeneration'
  <2>1. gen' = gen + 1 /\ goal' = goal /\ gen' # 0 /\ gen' - 1 = gen
        /\ pc' = IF gen + 1 < NbGen THEN "epoch" ELSE "end"
    BY <1>1 DEF Write
  <2> QED
    BY <1>1, <2>1 DEF GoalOfGeneration
<1>7. SortedOnGoal'
  BY DEF SortedOnGoal, Write
<1> QED
  BY <1>4, <1>5, <1>6, <1>7 DEF IInv

-----------------------------------------------------------------------------
THEOREM Invariance == Spec => []IInv
<1>1. IInv /\ [Next]_vars => IInv'
  <2>1. IInv /\ UNCHANGED vars => IInv'
    BY DEF vars, IInv, TypeOK, GoalOfGeneration, SortedOnGoal, DumpsBeforeSwitch, Value
  <2> QED
    BY <2>1, RandomPopHolds, EpochHolds, UpdateStatsHolds, WriteHolds DEF Next
<1> QED
  BY <1>1, InitHolds, PTL DEF Spec

(* What is written is the best of the population, for this generation's     *)
(* goal.                                                                    *)
THEOREM BestIsDumped == Spec => []DumpsTheBest
<1>1. IInv => DumpsTheBest
  <2>1. SUFFICES ASSUME IInv, pc = "write"
                 PROVE  /\ best.on = goal
                        /\ \A i \in 1 .. Size : Score[best.of][goal] >= Score[pop[i].of][goal]
    BY DEF DumpsTheBest
  <2>2. /\ best = pop[1] /\ 1 \in 1 .. Size
        /\ \A i \in 1 .. Size : pop[i].on = goal /\ Value(pop[1]) >= Value(pop[i])
    BY <2>1, Sizes DEF IInv, SortedOnGoal
  <2> QED
    BY <2>2 DEF Value
<1> QED
  BY <1>1, Invariance, PTL

(* A dump has the goal of its period, for every even period: the switch     *)
(* comes after the dump, and the wrapped gen - 1 of generation 0 makes none. *)
THEOREM SwitchesComeAfterDumps == Spec => []DumpsBeforeSwitch
<1>1. IInv => DumpsBeforeSwitch
  BY DEF IInv
<1> QED
  BY <1>1, Invariance, PTL

(* No generation loses an individual it keeps, for the goal it changes to.  *)
THEOREM BestOfKeptStays == Spec => BestKept
<1>1. ASSUME IInv, [Next]_vars, pc = "epoch" /\ pop # <<>>, NEW i \in 1 .. NbKeep,
             ~ UNCHANGED vars
      PROVE  Value(pop'[1]) >= Score[pop[i].of][goal']
  <2>1. Epoch
    BY <1>1 DEF Next, RandomPop, UpdateStats, Write
  <2>2. PICK j \in 1 .. Size : pop'[j].of = pop[i].of /\ pop'[j].on = goal'
    BY <1>1, <2>1, EpochSorts
  <2>3. Value(pop'[1]) >= Value(pop'[j])
    BY <1>1, <2>1, EpochSorts
  <2> QED
    BY <2>2, <2>3 DEF Value
<1>2. IInv /\ [Next]_vars =>
        [(pc = "epoch" /\ pop # <<>>) =>
           \A i \in 1 .. NbKeep : Value(pop'[1]) >= Score[pop[i].of][goal']]_vars
  BY <1>1
<1> QED
  BY <1>2, Invariance, PTL DEF Spec, BestKept
=============================================================================
