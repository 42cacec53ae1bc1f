------------------------- MODULE FitnessSimuProofs -------------------------
(* Theorems about FitnessSimu, for every set of schedules in which an       *)
(* experiment ends before, or at the step at which, the next one begins.    *)
EXTENDS FitnessSimu, FiniteSetTheorems, TLAPS

(* The order of the steps of a schedule. *)
LEMMA Ordered ==
  ASSUME TypeOK
  PROVE  /\ Len(schedule) \in Nat /\ Len(schedule) \in Exps /\ 1 \in Exps
         /\ \A k \in Exps : /\ schedule[k].new \in Nat /\ schedule[k].end \in Nat
                            /\ schedule[k].new < schedule[k].end
         /\ \A j, k \in Exps : j < k => /\ schedule[j].end <= schedule[k].new
                                        /\ schedule[j].end < schedule[k].end
<1>1. /\ schedule \in Seq([new : Nat, end : Nat]) /\ Len(schedule) > 0
      /\ \A k \in 1 .. Len(schedule) : schedule[k].new < schedule[k].end
      /\ \A j, k \in 1 .. Len(schedule) :
            j < k => schedule[j].end <= schedule[k].new
  BY ScheduleAssumption DEF TypeOK
<1>2. Len(schedule) \in Nat /\ Len(schedule) \in Exps /\ 1 \in Exps
  BY <1>1 DEF Exps
<1>3. \A k \in Exps : schedule[k] \in [new : Nat, end : Nat]
  <2> DEFINE E == [new : Nat, end : Nat]
  <2>1. schedule \in Seq(E) BY <1>1
  <2> HIDE DEF E
  <2>2. \A k \in Exps : schedule[k] \in E BY <2>1 DEF Exps
  <2> QED BY <2>2 DEF E
<1>4. \A k \in Exps : schedule[k].new \in Nat /\ schedule[k].end \in Nat
  BY <1>3
<1>5. \A j, k \in Exps : j < k => schedule[j].end < schedule[k].end
  <2> TAKE j, k \in Exps
  <2> HAVE j < k
  <2>1. schedule[j].end <= schedule[k].new /\ schedule[k].new < schedule[k].end
    BY <1>1 DEF Exps
  <2> QED BY <2>1, <1>4
<1> QED BY <1>1, <1>2, <1>4, <1>5 DEF Exps

(* What the macros can find at the current step: the end of the experiment *)
(* that is next to end, its beginning, or that of the one after it.         *)
LEMMA Where ==
  ASSUME TypeOK, Placed, ~ Done
  PROVE  /\ nbExps + 1 \in Exps /\ step <= schedule[nbExps + 1].end
         /\ Ends <=> schedule[nbExps + 1].end = step
         /\ Ends => (step = Last <=> nbExps + 1 = Len(schedule))
         /\ \A k \in Exps : schedule[k].new = step =>
              k = nbExps + 1 \/ (Ends /\ k = nbExps + 2)
         /\ \A k \in Exps : k <= (IF Ends THEN nbExps + 1 ELSE nbExps)
                            <=> schedule[k].end < step + 1
<1> DEFINE m == nbExps + 1
<1>0. nbExps \in Nat /\ step \in Nat BY DEF TypeOK
<1>1. nbExps < Len(schedule) /\ \A k \in Exps : k <= nbExps <=> schedule[k].end < step
  BY DEF Placed
<1>2. /\ m \in Exps /\ m \in Nat /\ \A k \in Exps : k \in Nat
  BY <1>0, <1>1, Ordered DEF Exps
<1>3. schedule[m].end \in Nat /\ step <= schedule[m].end
  <2>1. ~ (m <= nbExps) BY <1>0
  <2>2. schedule[m].end \in Nat BY <1>2, Ordered
  <2> QED BY <1>0, <1>1, <1>2, <2>1, <2>2
<1>4. \A k \in Exps : schedule[k].end = step => k = m
  <2> TAKE k \in Exps
  <2> HAVE schedule[k].end = step
  <2>1. ~ (k <= nbExps) BY <1>0, <1>1
  <2>2. ~ (m < k)
    BY <1>0, <1>2, <1>3, Ordered
  <2> QED BY <1>0, <1>2, <2>1, <2>2
<1>5. Ends <=> schedule[m].end = step
  BY <1>2, <1>4 DEF Ends
<1>6. Ends => (step = Last <=> m = Len(schedule))
  BY <1>4, <1>5, Ordered DEF Last
<1>7. \A k \in Exps : schedule[k].new = step => k = m \/ (Ends /\ k = nbExps + 2)
  <2> TAKE k \in Exps
  <2> HAVE schedule[k].new = step
  <2>0. schedule[k].new \in Nat /\ schedule[k].end \in Nat /\ schedule[k].new < schedule[k].end
    BY Ordered
  <2>1. ~ (k <= nbExps) BY <1>0, <1>1, <2>0
  <2>2. CASE k = m BY <2>2
  <2>3. CASE m < k
    <3>1. schedule[m].end <= schedule[k].new BY <1>2, <2>3, Ordered
    <3>2. schedule[m].end = step BY <1>0, <1>3, <3>1
    <3>3. Ends BY <3>2, <1>5
    <3>4. k = nbExps + 2
      <4> SUFFICES ASSUME k # nbExps + 2 PROVE FALSE OBVIOUS
      <4>1. nbExps + 2 \in Exps /\ m < nbExps + 2 /\ nbExps + 2 < k
        BY <1>0, <1>2, <2>3, Ordered DEF Exps
      <4>2. /\ schedule[m].end <= schedule[nbExps + 2].new
            /\ schedule[nbExps + 2].new < schedule[nbExps + 2].end
            /\ schedule[nbExps + 2].end <= schedule[k].new
            /\ schedule[nbExps + 2].new \in Nat /\ schedule[nbExps + 2].end \in Nat
        BY <1>2, <4>1, Ordered
      <4> QED BY <1>0, <3>2, <4>2
    <3> QED BY <3>3, <3>4
  <2> QED BY <1>0, <1>2, <2>1, <2>2, <2>3
<1>8. \A k \in Exps : k <= (IF Ends THEN m ELSE nbExps) <=> schedule[k].end < step + 1
  <2> TAKE k \in Exps
  <2>0. schedule[k].end \in Nat /\ k \in Nat BY <1>2, Ordered
  <2>1. schedule[k].end < step + 1 <=> schedule[k].end < step \/ schedule[k].end = step
    BY <1>0, <2>0
  <2>2. schedule[k].end = step <=> Ends /\ k = m
    BY <1>4, <1>5
  <2>3. k <= m <=> k <= nbExps \/ k = m
    BY <1>0, <2>0
  <2> QED BY <1>1, <2>1, <2>2, <2>3
<1> QED BY <1>2, <1>3, <1>5, <1>6, <1>7, <1>8
(* One call of scheduler(), in either loop. *)
LEMMA Advance ==
  ASSUME TypeOK, AtLoop, Placed, pc \in {"exp", "ff"},
         NEW from, from = IF pc = "exp" THEN state ELSE "fast_fw",
         Scheduler(from)
  PROVE  /\ ~ Done /\ state' # "eval_done"
         /\ Over(state') <=> Ends /\ ~ Begins
         /\ ~ Over(state') => state' = IF Begins THEN "running" ELSE from
         /\ state' = "end_eval" => nbExps' = Len(schedule) /\ step = Last
         /\ nbExps' \in Nat
         /\ state' # "end_eval" => nbExps' < Len(schedule)
         /\ \A k \in Exps : k <= nbExps' <=> schedule[k].end < step'
         /\ Ends => /\ nbExps' = nbExps + 1 /\ nbExps + 1 \in Exps
                    /\ Begins <=> Shared(nbExps + 1)
         /\ Over(state') /\ state' # "end_eval" => schedule[nbExps' + 1].new >= step'
         /\ ~ Over(state') /\ pc = "exp" =>
              (state' = "running" <=> schedule[nbExps' + 1].new < step')
<1> DEFINE m == nbExps + 1
<1>0. nbExps \in Nat /\ step \in Nat BY DEF TypeOK
<1>1. ~ Done /\ state \in {"not_started", "running", "fast_fw"} BY DEF AtLoop, Done
<1>2. /\ state' = Scheduled(from) /\ nbExps' = (IF Ends THEN m ELSE nbExps)
      /\ step' = step + 1 /\ schedule' = schedule
  BY DEF Scheduler
<1>3. from \in {"not_started", "running", "fast_fw"} BY <1>1
<1>4. Over(state') <=> Ends /\ ~ Begins
  BY <1>2, <1>3 DEF Over, Scheduled
<1>5. ~ Over(state') => state' = IF Begins THEN "running" ELSE from
  BY <1>2, <1>3, <1>4 DEF Over, Scheduled
<1>6. state' = "end_eval" <=> Ends /\ ~ Begins /\ step = Last
  BY <1>2, <1>3 DEF Scheduled
<1>7. state' # "eval_done" BY <1>2, <1>3 DEF Scheduled
<1>8. /\ m \in Exps /\ step <= schedule[m].end
      /\ Ends <=> schedule[m].end = step
      /\ Ends => (step = Last <=> m = Len(schedule))
      /\ \A k \in Exps : schedule[k].new = step => k = m \/ (Ends /\ k = nbExps + 2)
      /\ \A k \in Exps : k <= (IF Ends THEN m ELSE nbExps) <=> schedule[k].end < step + 1
  BY <1>1, Where
<1>9. \A k \in Exps : k <= nbExps' <=> schedule[k].end < step'
  BY <1>2, <1>8
<1>10. Len(schedule) \in Nat /\ m <= Len(schedule) BY <1>0, <1>8, Ordered DEF Exps
<1>11. schedule[m].new \in Nat /\ schedule[m].end \in Nat /\ schedule[m].new < schedule[m].end
  BY <1>8, Ordered
<1>12. Ends /\ Begins => nbExps + 2 \in Exps /\ schedule[nbExps + 2].new = step
  <2> HAVE Ends /\ Begins
  <2>1. PICK k \in Exps : schedule[k].new = step BY DEF Begins
  <2>2. k # m BY <2>1, <1>8, <1>0, <1>11
  <2> QED BY <2>1, <2>2, <1>8
<1>13. state' # "end_eval" => nbExps' < Len(schedule)
  <2> HAVE state' # "end_eval"
  <2>1. CASE ~ Ends BY <2>1, <1>0, <1>2, <1>10
  <2>2. CASE Ends /\ Begins
    BY <2>2, <1>0, <1>2, <1>10, <1>12 DEF Exps
  <2>3. CASE Ends /\ ~ Begins
    BY <2>3, <1>0, <1>2, <1>6, <1>8, <1>10
  <2> QED BY <2>1, <2>2, <2>3
<1>14. state' = "end_eval" => nbExps' = Len(schedule) /\ step = Last
  BY <1>2, <1>6, <1>8
<1>15. Ends => (Begins <=> Shared(m))
  <2> HAVE Ends
  <2>1. schedule[m].end = step BY <1>8
  <2> QED BY <2>1 DEF Begins, Shared
<1>16. ASSUME Over(state'), state' # "end_eval"
       PROVE  schedule[nbExps' + 1].new >= step'
  <2>1. Ends /\ ~ Begins /\ nbExps' = m /\ m < Len(schedule)
    BY <1>16, <1>2, <1>4, <1>13
  <2>2. m + 1 \in Exps /\ m < m + 1
    BY <1>0, <1>10, <2>1 DEF Exps
  <2>3. schedule[m + 1].new \in Nat /\ schedule[m].end <= schedule[m + 1].new
    BY <1>8, <2>2, Ordered
  <2>4. schedule[m + 1].new # step BY <2>1, <2>2 DEF Begins
  <2>5. schedule[m].end = step BY <2>1, <1>8
  <2> QED BY <1>0, <1>2, <2>1, <2>3, <2>4, <2>5
<1>17. ASSUME ~ Over(state'), pc = "exp"
       PROVE  state' = "running" <=> schedule[nbExps' + 1].new < step'
  <2>1. CASE Ends
    <3>1. Begins BY <2>1, <1>17, <1>4
    <3>2. state' = "running" BY <3>1, <1>17, <1>5
    <3>3. nbExps' + 1 = nbExps + 2 BY <2>1, <1>0, <1>2
    <3>4. schedule[nbExps' + 1].new = step BY <3>1, <3>3, <2>1, <1>12
    <3> QED BY <3>2, <3>4, <1>0, <1>2
  <2>2. CASE ~ Ends /\ Begins
    <3>1. state' = "running" BY <2>2, <1>17, <1>5
    <3>2. schedule[m].new = step BY <2>2, <1>8 DEF Begins
    <3>3. nbExps' = nbExps BY <2>2, <1>2
    <3> QED BY <3>1, <3>2, <3>3, <1>0, <1>2
  <2>3. CASE ~ Ends /\ ~ Begins
    <3>1. state' = state BY <2>3, <1>17, <1>5
    <3>2. nbExps' = nbExps BY <2>3, <1>2
    <3>3. schedule[m].new # step BY <2>3, <1>8 DEF Begins
    <3>4. state = "running" <=> schedule[m].new < step
      BY <1>1, <1>17 DEF Placed
    <3> QED BY <3>1, <3>2, <3>3, <3>4, <1>0, <1>2, <1>11
  <2> QED BY <2>1, <2>2, <2>3
<1>18. nbExps' \in Nat BY <1>0, <1>2
<1>19. Ends => nbExps' = m /\ m \in Exps BY <1>2, <1>8
<1> QED BY <1>1, <1>4, <1>5, <1>7, <1>9, <1>13, <1>14, <1>15, <1>16, <1>17, <1>18, <1>19
LEMMA Fixed ==
  ASSUME schedule' = schedule
  PROVE  /\ Exps' = Exps /\ Last' = Last
         /\ \A j : Shared(j)' <=> Shared(j)
<1>1. Exps' = Exps /\ Last' = Last BY DEF Exps, Last
<1>2. \A j : Shared(j)' <=> Shared(j) BY <1>1 DEF Shared
<1> QED BY <1>1, <1>2

(* What a turn of either loop does. *)
Turn == Step \/ FastForward

LEMMA TurnIs ==
  ASSUME Turn
  PROVE  /\ pc \in {"exp", "ff"} /\ schedule' = schedule
         /\ Scheduler(IF pc = "exp" THEN state ELSE "fast_fw")
         /\ pc' = "eval" <=> Over(state')
         /\ pc' \in {"eval", "exp", "ff"} /\ (pc' = "exp" => pc = "exp")
         /\ pc = "exp" =>
              /\ ran' = IF state' = "running" THEN ran \cup {nbExps' + 1} ELSE ran
              /\ cuts' = cuts \/ cuts' = cuts \cup {step}
              /\ pc' = "exp" => cuts' = cuts
              /\ pc' = "ff" => cuts' = cuts \cup {step}
         /\ pc = "ff" => ran' = ran /\ cuts' = cuts
<1>1. CASE Step
  BY <1>1 DEF Step, Scheduler
<1>2. CASE FastForward
  BY <1>2 DEF FastForward, Scheduler
<1> QED BY <1>1, <1>2 DEF Turn

LEMMA TurnPlaces ==
  ASSUME TypeOK, AtLoop, Placed, CountedOnce, Turn
  PROVE  TypeOK' /\ AtLoop' /\ Placed' /\ CountedOnce'
<1> DEFINE from == IF pc = "exp" THEN state ELSE "fast_fw"
<1>1. pc \in {"exp", "ff"} /\ schedule' = schedule /\ Scheduler(from)
  BY TurnIs
<1>2. /\ ~ Done /\ state' # "eval_done"
      /\ Over(state') <=> Ends /\ ~ Begins
      /\ ~ Over(state') => state' = IF Begins THEN "running" ELSE from
      /\ state' = "end_eval" => nbExps' = Len(schedule) /\ step = Last
      /\ nbExps' \in Nat
      /\ state' # "end_eval" => nbExps' < Len(schedule)
      /\ \A k \in Exps : k <= nbExps' <=> schedule[k].end < step'
      /\ Over(state') /\ state' # "end_eval" => schedule[nbExps' + 1].new >= step'
      /\ ~ Over(state') /\ pc = "exp" =>
           (state' = "running" <=> schedule[nbExps' + 1].new < step')
  BY <1>1, Advance
<1>3. /\ state' = Scheduled(from) /\ step' = step + 1 /\ loaded' = loaded
      /\ counted' = IF Scheduled(from) = "end_eval" THEN counted + 1 ELSE counted
  BY <1>1 DEF Scheduler
<1>4. state \in {"not_started", "running", "fast_fw"} /\ (pc = "exp" => state # "fast_fw")
  BY <1>1 DEF AtLoop
<1>5. state' \in {"not_started", "running", "fast_fw", "end_exp", "end_eval"}
  BY <1>3, <1>4 DEF Scheduled
<1>6. Over(state') <=> state' \in {"end_exp", "end_eval"}
  BY DEF Over
<1>7. /\ pc' = "eval" <=> Over(state')
      /\ pc' \in {"eval", "exp", "ff"} /\ (pc' = "exp" => pc = "exp")
  BY TurnIs
<1>8. TypeOK'
  <2>1. expStep' \in Nat
    BY DEF Turn, Step, FastForward, TypeOK
  <2>2. ran' \subseteq Nat /\ cuts' \subseteq Nat
    <3>1. nbExps' + 1 \in Nat /\ step \in Nat
      <4>1. nbExps' \in Nat BY <1>2, Zenon
      <4>2. step \in Nat BY Zenon DEF TypeOK
      <4>3. \A k \in Nat : k + 1 \in Nat OBVIOUS
      <4> QED BY <4>1, <4>2, <4>3, Zenon
    <3>2. ran' = ran \/ ran' = ran \cup {nbExps' + 1} BY TurnIs, <1>1
    <3>3. cuts' = cuts \/ cuts' = cuts \cup {step} BY TurnIs, <1>1
    <3> QED BY <3>1, <3>2, <3>3 DEF TypeOK
  <2>3. inits' = inits BY <1>1 DEF Scheduler
  <2> QED BY <1>1, <1>2, <1>3, <1>5, <1>7, <2>1, <2>2, <2>3 DEF TypeOK
<1>9. AtLoop'
  <2>1. CASE Over(state') BY <2>1, <1>6, <1>7 DEF AtLoop
  <2>2. CASE ~ Over(state')
    <3>1. state' = IF Begins THEN "running" ELSE from BY <2>2, <1>2
    <3>2. pc' \in {"exp", "ff"} BY <2>2, <1>7
    <3> QED BY <3>1, <3>2, <1>1, <1>4, <1>7 DEF AtLoop
  <2> QED BY <2>1, <2>2
<1>10. Done' <=> state' = "end_eval" BY <1>2 DEF Done
<1>11. Placed'
  <2>1. CASE state' = "end_eval"
    BY <2>1, <1>1, <1>2, <1>3, <1>10, Fixed DEF Placed
  <2>2. CASE state' # "end_eval"
    <3>1. Exps' = Exps /\ Len(schedule') = Len(schedule) BY <1>1, Fixed
    <3>2. pc' = "exp" => (state' = "running" <=> schedule[nbExps' + 1].new < step')
      BY <1>2, <1>7
    <3>3. pc' \in {"idle", "eval"} => schedule[nbExps' + 1].new >= step'
      BY <2>2, <1>2, <1>7
    <3> QED BY <2>2, <3>1, <3>2, <3>3, <1>1, <1>2, <1>10 DEF Placed
  <2> QED BY <2>1, <2>2
<1>12. CountedOnce'
  <2>1. counted \in Nat /\ (counted = 0 \/ (loaded /\ counted = 1))
    BY <1>2 DEF TypeOK, CountedOnce
  <2> QED BY <2>1, <1>3, <1>10 DEF CountedOnce
<1> QED BY <1>8, <1>9, <1>11, <1>12

(* The calls of _simu.init(): one more ended experiment is one more call,   *)
(* or one more shared step.                                                 *)
LEMMA OneMoreShared ==
  ASSUME NEW m \in Nat
  PROVE  /\ IsFiniteSet(SharedUpTo(m)) /\ Cardinality(SharedUpTo(m)) \in Nat
         /\ Cardinality(SharedUpTo(m + 1))
              = Cardinality(SharedUpTo(m)) + (IF Shared(m + 1) THEN 1 ELSE 0)
<1>1. \A r \in Nat : IsFiniteSet(SharedUpTo(r)) /\ Cardinality(SharedUpTo(r)) \in Nat
  <2> TAKE r \in Nat
  <2>1. IsFiniteSet(1 .. r) BY FS_Interval
  <2>2. SharedUpTo(r) \subseteq 1 .. r BY DEF SharedUpTo
  <2>3. IsFiniteSet(SharedUpTo(r)) BY <2>1, <2>2, FS_Subset
  <2> QED BY <2>3, FS_CardinalityType
<1>2. CASE Shared(m + 1)
  <2>1. SharedUpTo(m + 1) = SharedUpTo(m) \cup {m + 1}
    BY <1>2 DEF SharedUpTo
  <2>2. m + 1 \notin SharedUpTo(m) BY DEF SharedUpTo
  <2>3. Cardinality(SharedUpTo(m) \cup {m + 1}) = Cardinality(SharedUpTo(m)) + 1
    BY <2>2, <1>1, FS_AddElement
  <2> QED BY <1>1, <1>2, <2>1, <2>3
<1>3. CASE ~ Shared(m + 1)
  <2>1. SharedUpTo(m + 1) = SharedUpTo(m)
    BY <1>3 DEF SharedUpTo
  <2> QED BY <1>1, <1>3, <2>1
<1> QED BY <1>1, <1>2, <1>3

LEMMA TurnInits ==
  ASSUME TypeOK, AtLoop, Placed, Inited, Turn
  PROVE  Inited'
<1> DEFINE from == IF pc = "exp" THEN state ELSE "fast_fw"
           C(r) == Cardinality(SharedUpTo(r))
<1>1. pc \in {"exp", "ff"} /\ schedule' = schedule /\ Scheduler(from)
      /\ pc' \in {"eval", "exp", "ff"} /\ (pc' = "eval" <=> Over(state'))
  BY TurnIs
<1>2. /\ ~ Done
      /\ Over(state') <=> Ends /\ ~ Begins
      /\ Ends => nbExps' = nbExps + 1 /\ (Begins <=> Shared(nbExps + 1))
  BY <1>1, Advance
<1>3. nbExps \in Nat /\ inits \in Int BY DEF TypeOK
<1>4. inits' = inits /\ nbExps' = IF Ends THEN nbExps + 1 ELSE nbExps
  BY <1>1 DEF Scheduler
<1>5. inits = nbExps + 1 - C(nbExps) BY <1>1, <1>2 DEF Inited
<1>6. C(nbExps) \in Nat /\ C(nbExps + 1) = C(nbExps) + (IF Shared(nbExps + 1) THEN 1 ELSE 0)
  BY <1>3, OneMoreShared
<1>7. inits' = nbExps' + (IF pc' \in {"exp", "ff"} THEN 1 ELSE 0) - C(nbExps')
  <2>1. CASE ~ Ends
    <3>1. pc' \in {"exp", "ff"} /\ nbExps' = nbExps BY <2>1, <1>1, <1>2, <1>4
    <3> QED BY <3>1, <1>3, <1>4, <1>5, <1>6
  <2>2. CASE Ends /\ Begins
    <3>1. pc' \in {"exp", "ff"} /\ nbExps' = nbExps + 1 /\ Shared(nbExps + 1)
      BY <2>2, <1>1, <1>2
    <3> QED BY <3>1, <1>3, <1>4, <1>5, <1>6
  <2>3. CASE Ends /\ ~ Begins
    <3>1. pc' = "eval" /\ nbExps' = nbExps + 1 /\ ~ Shared(nbExps + 1)
      BY <2>3, <1>1, <1>2
    <3>2. pc' \notin {"exp", "ff"} BY <3>1
    <3> QED BY <3>1, <3>2, <1>3, <1>4, <1>5, <1>6
  <2> QED BY <2>1, <2>2, <2>3
<1>8. SharedUpTo(nbExps)' = SharedUpTo(nbExps')
  BY <1>1, Fixed DEF SharedUpTo, Shared, Exps
<1> QED BY <1>7, <1>8 DEF Inited
(* Cuts and the experiments that ran. *)
LEMMA TurnRan ==
  ASSUME TypeOK, AtLoop, Placed, RanOrSwallowed, CutsSeen, Turn
  PROVE  RanOrSwallowed' /\ CutsSeen'
<1> DEFINE from == IF pc = "exp" THEN state ELSE "fast_fw"
<1>1. /\ pc \in {"exp", "ff"} /\ schedule' = schedule /\ Scheduler(from)
      /\ pc' \in {"eval", "exp", "ff"} /\ (pc' = "eval" <=> Over(state'))
      /\ pc' = "exp" => pc = "exp"
      /\ pc = "exp" =>
           /\ ran' = IF state' = "running" THEN ran \cup {nbExps' + 1} ELSE ran
           /\ cuts' = cuts \/ cuts' = cuts \cup {step}
           /\ pc' = "exp" => cuts' = cuts
           /\ pc' = "ff" => cuts' = cuts \cup {step}
      /\ pc = "ff" => ran' = ran /\ cuts' = cuts
  BY TurnIs
<1>2. /\ ~ Done
      /\ Over(state') <=> Ends /\ ~ Begins
      /\ ~ Over(state') => state' = IF Begins THEN "running" ELSE from
      /\ state' # "end_eval" => nbExps' < Len(schedule)
      /\ ~ Over(state') /\ pc = "exp" =>
           (state' = "running" <=> schedule[nbExps' + 1].new < step')
  BY <1>1, Advance
<1>3. step' = step + 1 /\ nbExps' = IF Ends THEN nbExps + 1 ELSE nbExps
  BY <1>1 DEF Scheduler
<1>4. step \in Nat /\ nbExps \in Nat /\ ran \subseteq Nat /\ cuts \subseteq Nat
  BY DEF TypeOK
<1>5. Exps' = Exps /\ \A j : Shared(j)' <=> Shared(j)
  BY <1>1, Fixed
<1>6. \A k \in Exps : schedule[k].new \in Nat /\ schedule[k].end \in Nat
                      /\ schedule[k].new < schedule[k].end
  BY Ordered
<1>7. /\ nbExps + 1 \in Exps
      /\ Ends <=> schedule[nbExps + 1].end = step
      /\ \A k \in Exps : schedule[k].new = step => k = nbExps + 1 \/ (Ends /\ k = nbExps + 2)
  BY <1>2, Where
<1>8. /\ \A c \in cuts : c < step
      /\ \A k \in ran : k \in Exps /\ schedule[k].new < step
      /\ \A k \in Exps : schedule[k].new < step => (k \in ran <=> ~ Swallowed(k))
  BY DEF RanOrSwallowed
<1>9. cuts' \subseteq cuts \cup {step} BY <1>1
<1>10. \A c \in cuts' : c < step'
  BY <1>3, <1>4, <1>8, <1>9
<1>11. \A k \in ran' : k \in Exps /\ schedule[k].new < step'
  <2> TAKE k \in ran'
  <2>1. CASE k \in ran BY <2>1, <1>3, <1>4, <1>6, <1>8
  <2>2. CASE k \notin ran
    <3>1. pc = "exp" /\ state' = "running" /\ k = nbExps' + 1
      BY <2>2, <1>1
    <3>2. ~ Over(state') /\ state' # "end_eval" BY <3>1 DEF Over
    <3>3. schedule[k].new < step' BY <3>1, <3>2, <1>2
    <3>4. k \in Exps
      <4> DEFINE r == nbExps'
                 top == Len(schedule)
      <4>1. top \in Nat /\ r \in Nat /\ r < top BY <3>2, <1>2, <1>3, <1>4, Ordered
      <4> HIDE DEF r, top
      <4>2. r + 1 \in 1 .. top BY <4>1
      <4> QED BY <3>1, <4>2 DEF Exps, r, top
    <3> QED BY <3>3, <3>4
  <2> QED BY <2>1, <2>2
<1>12. pc = "exp" => \A c \in cuts : \E j \in Exps :
         c <= schedule[j].end /\ schedule[j].end < step /\ ~ Shared(j)
  BY DEF CutsSeen
<1>13. pc = "ff" => \E c \in cuts : \A j \in Exps :
         (c <= schedule[j].end /\ schedule[j].end < step) => Shared(j)
  BY DEF CutsSeen
<1>14. ASSUME NEW k \in Exps, schedule[k].new < step
       PROVE  k \in ran' <=> ~ (Swallowed(k)')
  <2>1. Swallowed(k)' <=> Swallowed(k)
    <3>1. \A c : c \in cuts' /\ c < schedule[k].new <=> c \in cuts /\ c < schedule[k].new
      <4>1. ~ (step < schedule[k].new) BY <1>4, <1>6, <1>14
      <4> QED BY <4>1, <1>1, <1>9
    <3> QED BY <3>1, <1>1, <1>5 DEF Swallowed
  <2>2. k \in ran' <=> k \in ran
    <3> SUFFICES ASSUME k \in ran', k \notin ran PROVE FALSE
      BY <1>1
    <3>1. pc = "exp" /\ state' = "running" /\ k = nbExps' + 1
      BY <1>1
    <3>2. k = nbExps + 1
      <4>1. CASE ~ Ends BY <4>1, <3>1, <1>3
      <4>2. CASE Ends
        <5>1. k = nbExps + 2 BY <4>2, <3>1, <1>3, <1>4
        <5>2. nbExps + 1 \in Exps /\ nbExps + 1 < k BY <5>1, <1>4, <1>7
        <5>3. schedule[nbExps + 1].end <= schedule[k].new BY <5>2, Ordered
        <5> QED BY <5>3, <4>2, <1>4, <1>6, <1>7, <1>14
      <4> QED BY <4>1, <4>2
    <3>3. ~ Swallowed(k)
      <4> SUFFICES ASSUME NEW c \in cuts
                   PROVE  \E j \in Exps : /\ c <= schedule[j].end
                                          /\ schedule[j].end <= schedule[k].new
                                          /\ ~ Shared(j)
        BY DEF Swallowed
      <4>1. PICK j \in Exps : c <= schedule[j].end /\ schedule[j].end < step /\ ~ Shared(j)
        BY <3>1, <1>12
      <4>2. j <= nbExps /\ j \in Nat
        BY <4>1, <1>2 DEF Placed, Exps
      <4>3. j < k BY <4>2, <3>2, <1>4
      <4>4. schedule[j].end <= schedule[k].new BY <4>3, Ordered
      <4> QED BY <4>1, <4>4
    <3> QED BY <3>3, <1>8, <1>14
  <2> QED BY <2>1, <2>2, <1>8, <1>14
<1>15. ASSUME NEW k \in Exps, schedule[k].new = step
       PROVE  k \in ran' <=> ~ (Swallowed(k)')
  <2>1. Begins BY <1>15 DEF Begins
  <2>2. ~ Over(state') /\ state' = "running" BY <2>1, <1>2
  <2>3. CASE pc = "exp"
    <3>1. k = nbExps' + 1
      <4>1. CASE Ends
        <5>1. k # nbExps + 1 BY <4>1, <1>6, <1>7, <1>15
        <5> QED BY <4>1, <5>1, <1>3, <1>4, <1>7, <1>15
      <4>2. CASE ~ Ends BY <4>2, <1>3, <1>7, <1>15
      <4> QED BY <4>1, <4>2
    <3>2. k \in ran' BY <2>2, <2>3, <3>1, <1>1
    <3>3. ~ (Swallowed(k)')
      <4> SUFFICES ASSUME NEW c \in cuts', c < schedule[k].new
                   PROVE  \E j \in Exps : /\ c <= schedule[j].end
                                          /\ schedule[j].end <= schedule[k].new
                                          /\ ~ Shared(j)
        BY <1>1, <1>5 DEF Swallowed
      <4>1. c \in cuts BY <1>4, <1>9, <1>15
      <4>2. PICK j \in Exps : c <= schedule[j].end /\ schedule[j].end < step /\ ~ Shared(j)
        BY <2>3, <4>1, <1>12
      <4> QED BY <4>2, <1>4, <1>6, <1>15
    <3> QED BY <3>2, <3>3
  <2>4. CASE pc = "ff"
    <3>1. k \notin ran' BY <2>4, <1>1, <1>4, <1>8, <1>15
    <3>2. PICK c \in cuts : \A j \in Exps :
            (c <= schedule[j].end /\ schedule[j].end < step) => Shared(j)
      BY <2>4, <1>13
    <3>3. c \in cuts' /\ c < schedule[k].new BY <2>4, <1>1, <1>8, <1>15
    <3>4. \A j \in Exps :
            (c <= schedule[j].end /\ schedule[j].end <= schedule[k].new) => Shared(j)
      <4> TAKE j \in Exps
      <4> HAVE c <= schedule[j].end /\ schedule[j].end <= schedule[k].new
      <4>1. CASE schedule[j].end = step BY <4>1, <1>15 DEF Shared
      <4>2. CASE schedule[j].end # step BY <4>2, <3>2, <1>4, <1>6, <1>15
      <4> QED BY <4>1, <4>2
    <3>5. Swallowed(k)' BY <3>3, <3>4, <1>1, <1>5 DEF Swallowed
    <3> QED BY <3>1, <3>5
  <2> QED BY <2>3, <2>4, <1>1
<1>16. RanOrSwallowed'
  <2>1. \A k \in Exps : schedule[k].new < step' => (k \in ran' <=> ~ (Swallowed(k)'))
    <3> TAKE k \in Exps
    <3> HAVE schedule[k].new < step'
    <3>1. schedule[k].new < step \/ schedule[k].new = step BY <1>3, <1>4, <1>6
    <3> QED BY <3>1, <1>14, <1>15
  <2> QED BY <2>1, <1>1, <1>5, <1>10, <1>11 DEF RanOrSwallowed
<1>17. ASSUME pc' # "ff", NEW c \in cuts'
       PROVE  \E j \in Exps : c <= schedule[j].end /\ schedule[j].end < step' /\ ~ Shared(j)
  <2>1. CASE pc' = "exp"
    <3>1. c \in cuts BY <2>1, <1>1
    <3>2. PICK j \in Exps : c <= schedule[j].end /\ schedule[j].end < step /\ ~ Shared(j)
      BY <2>1, <3>1, <1>1, <1>12
    <3> QED BY <3>2, <1>3, <1>4, <1>6
  <2>2. CASE pc' = "eval"
    <3>1. Ends /\ ~ Begins BY <2>2, <1>1, <1>2
    <3>2. schedule[nbExps + 1].end = step /\ ~ Shared(nbExps + 1)
      BY <3>1, <1>7 DEF Begins, Shared
    <3>3. c < step' /\ c \in Nat BY <1>4, <1>9, <1>10
    <3> QED BY <3>2, <3>3, <1>3, <1>4, <1>7
  <2> QED BY <2>1, <2>2, <1>1, <1>17
<1>18. ASSUME pc' = "ff"
       PROVE  \E c \in cuts' : \A j \in Exps :
                (c <= schedule[j].end /\ schedule[j].end < step') => Shared(j)
  <2>1. \A j \in Exps : schedule[j].end = step => Shared(j)
    <3> TAKE j \in Exps
    <3> HAVE schedule[j].end = step
    <3>1. Ends BY DEF Ends
    <3>2. Begins BY <3>1, <1>1, <1>2, <1>18
    <3> QED BY <3>2 DEF Begins, Shared
  <2>2. CASE pc = "exp"
    <3>1. step \in cuts' BY <2>2, <1>1, <1>18
    <3>2. \A j \in Exps : (step <= schedule[j].end /\ schedule[j].end < step') => Shared(j)
      BY <2>1, <1>3, <1>4, <1>6
    <3> QED BY <3>1, <3>2
  <2>3. CASE pc = "ff"
    <3>1. PICK c \in cuts : \A j \in Exps :
            (c <= schedule[j].end /\ schedule[j].end < step) => Shared(j)
      BY <2>3, <1>13
    <3>2. c \in cuts' BY <2>3, <1>1
    <3>3. \A j \in Exps : (c <= schedule[j].end /\ schedule[j].end < step') => Shared(j)
      BY <3>1, <2>1, <1>3, <1>4, <1>6
    <3> QED BY <3>2, <3>3
  <2> QED BY <2>2, <2>3, <1>1
<1>19. CutsSeen'
  BY <1>1, <1>5, <1>17, <1>18 DEF CutsSeen
<1> QED BY <1>16, <1>19

(* What RanOrSwallowed says at the end. *)
LEMMA AtTheEnd == IInv => RunsUnlessSwallowed
<1> SUFFICES ASSUME IInv, state = "eval_done", NEW k \in Exps
             PROVE  k \in ran <=> ~ Swallowed(k)
  BY DEF RunsUnlessSwallowed
<1>0. TypeOK /\ Placed /\ RanOrSwallowed BY DEF IInv
<1>1. step = Last + 1 /\ nbExps = Len(schedule) BY <1>0 DEF Placed, Done
<1>2. /\ schedule[k].new < schedule[k].end /\ schedule[k].new \in Nat
      /\ schedule[k].end \in Nat /\ Last \in Nat
  BY <1>0, Ordered DEF Last
<1>3. schedule[k].end <= Last
  <2>1. Len(schedule) \in Exps /\ Len(schedule) \in Nat BY <1>0, Ordered
  <2>2. k = Len(schedule) \/ k < Len(schedule) BY <2>1 DEF Exps
  <2> QED BY <1>0, <1>2, <2>1, <2>2, Ordered DEF Last
<1>4. schedule[k].new < step BY <1>1, <1>2, <1>3
<1> QED BY <1>0, <1>4 DEF RanOrSwallowed

(* Every state satisfies the inductive invariant.  Each part says what the  *)
(* next one needs: where the evaluation is in its schedule (Placed), then   *)
(* what the cuts have cost (CutsSeen, RanOrSwallowed).                      *)
THEOREM Invariance == Spec => []IInv
<1>1. Init => IInv
  <2> SUFFICES ASSUME Init PROVE IInv OBVIOUS
  <2>1. TypeOK
    <3>1. loaded \in BOOLEAN /\ ran \subseteq Nat /\ cuts \subseteq Nat BY DEF Init
    <3>2. step \in Nat /\ expStep \in Nat /\ nbExps \in Nat /\ inits \in Int /\ counted \in Nat
      BY DEF Init
    <3> QED BY <3>1, <3>2 DEF Init, TypeOK
  <2>2. /\ 1 \in Exps /\ Len(schedule) \in Nat
        /\ \A k \in Exps : schedule[k].new \in Nat /\ schedule[k].end \in Nat
                           /\ schedule[k].new < schedule[k].end
    BY <2>1, Ordered
  <2>3. AtLoop /\ CountedOnce /\ ~ Done BY DEF Init, AtLoop, CountedOnce, Done
  <2>4. Placed BY <2>2, <2>3 DEF Init, Placed, Exps
  <2>5. Inited
    <3>1. SharedUpTo(0) = {} BY DEF SharedUpTo
    <3> QED BY <3>1, FS_EmptySet DEF Init, Inited
  <2>6. RanOrSwallowed /\ CutsSeen BY <2>2 DEF Init, RanOrSwallowed, CutsSeen
  <2> QED BY <2>1, <2>3, <2>4, <2>5, <2>6 DEF IInv
<1>2. IInv /\ [Next]_vars => IInv'
  <2> SUFFICES ASSUME IInv, [Next]_vars PROVE IInv' OBVIOUS
  <2>0. TypeOK /\ AtLoop /\ Placed /\ CountedOnce /\ Inited /\ RanOrSwallowed /\ CutsSeen
    BY DEF IInv
  <2>1. CASE Turn
    BY <2>0, <2>1, TurnPlaces, TurnInits, TurnRan DEF IInv
  <2>2. CASE Eval \/ EvalDone \/ Exp
    <3>0. /\ UNCHANGED <<schedule, step, nbExps, expStep, counted, loaded, ran, cuts>>
          /\ pc \in {"idle", "eval"} /\ pc' \in {"idle", "eval", "exp"}
      BY <2>2 DEF Eval, EvalDone, Exp
    <3>1. Exps' = Exps /\ Last' = Last /\ (\A j : Shared(j)' <=> Shared(j))
          /\ SharedUpTo(nbExps)' = SharedUpTo(nbExps)
      BY <3>0 DEF Exps, Last, Shared, SharedUpTo
    <3>2. TypeOK'
      BY <2>0, <2>2, <3>0 DEF TypeOK, Eval, EvalDone, Exp
    <3>3. AtLoop' /\ (Done' <=> Done) /\ state' # "running"
      BY <2>0, <2>2 DEF AtLoop, Done, Eval, EvalDone, Exp
    <3>4. Placed'
      <4>1. CASE Done BY <4>1, <2>0, <3>0, <3>1, <3>3 DEF Placed
      <4>2. CASE ~ Done
        <5>1. schedule[nbExps + 1].new >= step BY <4>2, <2>0, <3>0 DEF Placed
        <5>2. nbExps + 1 \in Exps /\ schedule[nbExps + 1].new \in Nat /\ step \in Nat
          BY <2>0, <4>2, Where, Ordered DEF TypeOK
        <5>3. ~ (schedule[nbExps + 1].new < step) BY <5>1, <5>2
        <5>4. nbExps < Len(schedule) /\ \A k \in Exps : k <= nbExps <=> schedule[k].end < step
          BY <2>0, <4>2 DEF Placed
        <5> QED BY <4>2, <5>1, <5>3, <5>4, <3>0, <3>1, <3>3 DEF Placed
      <4> QED BY <4>1, <4>2
    <3>5. CountedOnce' BY <2>0, <3>0, <3>3 DEF CountedOnce
    <3>6. Inited'
      <4>1. nbExps \in Nat /\ inits \in Int /\ Cardinality(SharedUpTo(nbExps)) \in Nat
        BY <2>0, OneMoreShared DEF TypeOK
      <4> QED BY <4>1, <2>0, <2>2, <3>0, <3>1, <3>3 DEF Inited, Eval, EvalDone, Exp, Done
    <3>7. RanOrSwallowed'
      BY <2>0, <3>0, <3>1 DEF RanOrSwallowed, Swallowed
    <3>8. CutsSeen'
      BY <2>0, <3>0, <3>1 DEF CutsSeen
    <3> QED BY <3>2, <3>3, <3>4, <3>5, <3>6, <3>7, <3>8 DEF IInv
  <2>3. CASE Load
    <3>0. /\ schedule' = schedule /\ pc = "idle" /\ pc' = pc /\ counted' = counted
          /\ state' = "not_started" /\ loaded' = TRUE /\ ~ loaded
          /\ step' = 0 /\ expStep' = 0 /\ nbExps' = 0 /\ inits' = 0
          /\ ran' = {} /\ cuts' = {}
      BY <2>3 DEF Load
    <3>1. TypeOK' BY <2>0, <3>0 DEF TypeOK
    <3>2. /\ 1 \in Exps /\ Len(schedule) \in Nat
          /\ \A k \in Exps : schedule[k].new \in Nat /\ schedule[k].end \in Nat
                             /\ schedule[k].new < schedule[k].end
      BY <2>0, Ordered
    <3>3. AtLoop' /\ ~ Done' BY <3>0 DEF AtLoop, Done
    <3>4. Placed' BY <3>0, <3>2, <3>3 DEF Placed, Exps
    <3>5. CountedOnce' BY <2>0, <3>0, <3>3 DEF CountedOnce
    <3>6. Inited'
      <4>1. SharedUpTo(nbExps)' = {} BY <3>0 DEF SharedUpTo
      <4> QED BY <4>1, <3>0, FS_EmptySet DEF Inited
    <3>7. RanOrSwallowed' /\ CutsSeen' BY <3>0, <3>2 DEF RanOrSwallowed, CutsSeen, Exps
    <3> QED BY <3>1, <3>3, <3>4, <3>5, <3>6, <3>7 DEF IInv
  <2>4. CASE UNCHANGED vars
    <3>1. UNCHANGED <<schedule, pc, state, step, expStep, nbExps, inits, counted,
                      loaded, ran, cuts>>
      BY <2>4 DEF vars
    <3> QED BY <2>0, <3>1 DEF IInv, TypeOK, AtLoop, Placed, CountedOnce, Inited,
              RanOrSwallowed, CutsSeen, Done, Exps, Last, Shared, SharedUpTo, Swallowed
  <2> QED BY <2>1, <2>2, <2>3, <2>4 DEF Next, Loops, Turn, EvalAgain
<1> QED BY <1>1, <1>2, PTL DEF Spec

(* The experiments that run are those no cut has swallowed. *)
THEOREM Swallowing == Spec => []RunsUnlessSwallowed
BY Invariance, AtTheEnd, PTL

(* An evaluation ends after the last step with every experiment counted. *)
THEOREM Complete == Spec => []EvaluatedAsScheduled
<1>1. IInv => EvaluatedAsScheduled
  BY DEF IInv, Placed, CountedOnce, Done, EvaluatedAsScheduled
<1> QED BY <1>1, Invariance, PTL

(* An experiment starts from a simulation initialised for it. *)
THEOREM Freshness == Spec => []FreshSimu
<1>1. IInv => FreshSimu
  <2> SUFFICES ASSUME IInv, state = "running"
               PROVE  inits = nbExps + 1 - Cardinality(SharedUpTo(nbExps))
    BY DEF FreshSimu
  <2>1. ~ Done /\ pc \in {"exp", "ff"} BY DEF IInv, TypeOK, AtLoop, Done
  <2> QED BY <2>1 DEF IInv, Inited
<1> QED BY <1>1, Invariance, PTL

(* The assertion of end_exp() holds. *)
THEOREM Asserted == Spec => []EndsWhatBegan
<1>1. IInv => EndsWhatBegan
  <2> SUFFICES ASSUME IInv, pc = "exp", Ends PROVE state = "running"
    BY DEF EndsWhatBegan
  <2>0. TypeOK /\ Placed /\ AtLoop /\ ~ Done BY DEF IInv, AtLoop, Done
  <2>1. nbExps + 1 \in Exps /\ schedule[nbExps + 1].end = step BY <2>0, Where
  <2>2. schedule[nbExps + 1].new < step BY <2>0, <2>1, Ordered
  <2> QED BY <2>0, <2>2 DEF Placed
<1> QED BY <1>1, Invariance, PTL

(* Each experiment begins at the step after the end of the one before. *)
Seamless ==
  /\ schedule[1].new = 0
  /\ \A k \in Exps : k > 1 => schedule[k].new = schedule[k - 1].end + 1

(* Without a gap and without a shared step every experiment runs, wherever  *)
(* they are given up.                                                       *)
THEOREM NoneSkipped == Spec => [](Seamless /\ state = "eval_done" => ran = Exps)
<1>1. IInv => (Seamless /\ state = "eval_done" => ran = Exps)
  <2> SUFFICES ASSUME IInv, Seamless, state = "eval_done" PROVE ran = Exps
    OBVIOUS
  <2>0. TypeOK /\ RanOrSwallowed BY DEF IInv
  <2>1. ran \subseteq Exps BY <2>0 DEF RanOrSwallowed
  <2>2. ASSUME NEW k \in Exps PROVE k \in ran
    <3>1. \A i \in Exps : i \in Nat /\ i >= 1 /\ schedule[i].new \in Nat
                         /\ schedule[i].end \in Nat /\ schedule[i].new < schedule[i].end
      BY <2>0, Ordered DEF Exps
    <3>2. cuts \subseteq Nat BY <2>0 DEF TypeOK
    <3>3. SUFFICES ASSUME Swallowed(k) PROVE FALSE BY AtTheEnd DEF RunsUnlessSwallowed
    <3>4. PICK c \in cuts :
            /\ c < schedule[k].new
            /\ \A j \in Exps :
                 (c <= schedule[j].end /\ schedule[j].end <= schedule[k].new) => Shared(j)
      BY <3>3 DEF Swallowed
    <3>5. k > 1 BY <3>1, <3>2, <3>4 DEF Seamless
    <3>6. k - 1 \in Exps /\ schedule[k].new = schedule[k - 1].end + 1
      BY <3>1, <3>5, <2>0, Ordered DEF Exps, Seamless
    <3>7. Shared(k - 1) BY <3>1, <3>2, <3>4, <3>6
    <3>8. PICK i \in Exps : schedule[i].new = schedule[k - 1].end BY <3>7 DEF Shared
    <3>9. CASE i <= k - 1
      <4>1. i = k - 1 \/ i < k - 1 BY <3>1, <3>9, <3>6
      <4>2. i < k - 1 => schedule[i].end < schedule[k - 1].end BY <2>0, <3>6, Ordered
      <4> QED BY <4>1, <4>2, <3>1, <3>6, <3>8
    <3>10. CASE i = k BY <3>10, <3>1, <3>6, <3>8
    <3>11. CASE i > k
      <4>1. schedule[k].end <= schedule[i].new BY <2>0, <3>11, <3>1, Ordered
      <4> QED BY <4>1, <3>1, <3>6, <3>8
    <3> QED BY <3>1, <3>9, <3>10, <3>11
  <2> QED BY <2>1, <2>2
<1> QED BY <1>1, Invariance, PTL
(* What is left of an evaluation: the steps of the schedule, and for each   *)
(* of them perhaps a return to the loop of eval().                          *)
Remaining == 2 * (Last + 1 - step) + (IF pc = "eval" THEN 1 ELSE 0)

(* eval() returns after at most two turns of its loops for each step of the *)
(* schedule and one more, wherever the experiments are given up: neither    *)
(* loop passes the last end without noticing it.                            *)
THEOREM EvaluationsAreFinite ==
  Spec => /\ [](Remaining \in Nat)
          /\ [][pc # "idle" => pc' = "idle" \/ Remaining' < Remaining]_vars
<1>1. ASSUME IInv
      PROVE  Remaining \in Nat /\ Last \in Nat /\ step \in Nat
  <2>1. TypeOK /\ Placed
    BY <1>1 DEF IInv
  <2>2. Last \in Nat /\ step \in Nat
    BY <2>1, Ordered DEF Last, TypeOK
  <2>3. step <= Last + 1
    <3>1. CASE Done
      BY <3>1, <2>1, <2>2 DEF Placed
    <3>2. CASE ~ Done
      <4>1. nbExps < Len(schedule) /\ ~ (Len(schedule) <= nbExps)
        BY <3>2, <2>1, Ordered DEF Placed, TypeOK
      <4>2. ~ (schedule[Len(schedule)].end < step)
        BY <4>1, <3>2, <2>1, Ordered DEF Placed
      <4> QED
        BY <4>2, <2>2 DEF Last
    <3> QED
      BY <3>1, <3>2
  <2> QED
    BY <2>2, <2>3 DEF Remaining
<1>2. ASSUME IInv, [Next]_vars
      PROVE  [pc # "idle" => pc' = "idle" \/ Remaining' < Remaining]_vars
  <2>1. CASE Step \/ FastForward
    <3>1. step' = step + 1 /\ schedule' = schedule /\ Last' = Last
      BY <2>1 DEF Step, FastForward, Scheduler, Last
    <3>2. pc # "eval"
      BY <2>1 DEF Step, FastForward
    <3>3. Last \in Nat /\ step \in Nat
      BY <1>1, <1>2
    <3> QED
      BY <3>1, <3>2, <3>3 DEF Remaining
  <2>2. CASE Exp
    <3>1. step' = step /\ Last' = Last /\ pc = "eval" /\ pc' = "exp"
      BY <2>2 DEF Exp, Last
    <3> QED
      BY <3>1, <1>1, <1>2 DEF Remaining
  <2>3. CASE Eval \/ EvalAgain \/ Load \/ EvalDone
    BY <2>3 DEF Eval, EvalAgain, Load, EvalDone
  <2> QED
    BY <1>2, <2>1, <2>2, <2>3 DEF Next, Loops
<1> QED
  BY <1>1, <1>2, Invariance, PTL DEF Spec
=============================================================================
