-------------------------- MODULE TaskEvalProofs ---------------------------
(* Theorems about TaskEval, for every population, any number of threads and *)
(* every way to cut the range.                                              *)
EXTENDS TaskEval, FiniteSetTheorems, TLAPS

LEMMA Bounds ==
  /\ PopSize \in Nat /\ PopSize > 0 /\ MaxCalls \in Nat
  /\ \A i : i \in Index <=> i \in Nat /\ i < PopSize
  /\ \A r \in Ranges : /\ r[1] \in Nat /\ r[2] \in Nat /\ r[1] <= r[2]
                       /\ r[1] < PopSize /\ r[2] <= PopSize
                       /\ r = <<r[1], r[2]>>
<1>1. PopSize \in Nat /\ PopSize > 0 /\ MaxCalls \in Nat BY SizeAssumption
<1>2. \A i : i \in Index <=> i \in Nat /\ i < PopSize BY <1>1 DEF Index
<1>3. \A r \in Ranges : /\ r[1] \in Nat /\ r[2] \in Nat /\ r[1] <= r[2]
                        /\ r[1] < PopSize /\ r[2] <= PopSize
                        /\ r = <<r[1], r[2]>>
  BY <1>1 DEF Ranges
<1> QED BY <1>1, <1>2, <1>3

(* What is still to be evaluated, before and after a step. *)
LEMMA InTodo ==
  /\ \A i : i \in Todo <=> \/ \E r \in pieces : i \in Covered(r)
                           \/ \E w \in Workers : i \in Covered(work[w])
  /\ \A i : i \in Todo' <=> \/ \E r \in pieces' : i \in Covered(r)
                            \/ \E w \in Workers : i \in Covered(work'[w])
BY DEF Todo, Covered, Index

LEMMA InitKeeps == Init => IInv
<1> SUFFICES ASSUME Init PROVE IInv OBVIOUS
<1>1. TypeOK
  <2>1. 0 \in 0 .. PopSize /\ 0 \in 0 .. MaxCalls BY Bounds
  <2>2. \A i \in Index : <<i, 0>> \in Index \X (0 .. MaxCalls) BY <2>1
  <2> QED BY <2>1, <2>2 DEF Init, TypeOK, Nothing
<1>2. \A w \in Workers : Empty(work[w]) /\ Covered(work[w]) = {} /\ ~ ready[w]
  BY DEF Init, Empty, Nothing, Covered, Index
<1>3. AtRest /\ PiecesApart /\ NoSharedIndividual
  BY <1>2 DEF Init, AtRest, PiecesApart, NoSharedIndividual
<1>4. Developed /\ ReadyIsDeveloped /\ EvaluatedAsDeveloped
  BY <1>2 DEF Init, Developed, ReadyIsDeveloped, EvaluatedAsDeveloped, Genome
<1> QED BY <1>1, <1>3, <1>4 DEF IInv

LEMMA CallKeeps ==
  ASSUME IInv, NEW r \in Ranges, Call(r)
  PROVE  IInv'
<1>0. TypeOK /\ AtRest /\ EvaluatedAsDeveloped /\ ReadyIsDeveloped BY DEF IInv
<1>1. /\ pc = "idle" /\ calls < MaxCalls /\ calls' = calls + 1 /\ next' = 0
      /\ gen' = [i \in Index |-> IF r[1] <= i /\ i < r[2] THEN calls + 1 ELSE gen[i]]
      /\ pc' = (IF kind = "parallel_eval" THEN "develop" ELSE "tasks")
      /\ pieces' = {r} /\ UNCHANGED <<kind, work, ready, dev, fit>>
  BY DEF Call
<1>2. \A w \in Workers : Empty(work[w]) /\ ~ ready[w]
  BY <1>0, <1>1 DEF AtRest, ReadyIsDeveloped
<1>3. pieces = {} BY <1>0, <1>1 DEF AtRest
<1>4. \A w \in Workers : Covered(work[w]) = {}
  <2> TAKE w \in Workers
  <2>1. work[w][1] \in Nat /\ work[w][2] \in Nat BY <1>0, Bounds DEF TypeOK
  <2>2. work[w][1] >= work[w][2] BY <1>2 DEF Empty
  <2> QED BY <2>1, <2>2, Bounds DEF Covered
<1>5. TypeOK'
  <2>1. calls \in 0 .. MaxCalls /\ calls' \in 0 .. MaxCalls BY <1>0, <1>1, Bounds DEF TypeOK
  <2>2. gen' \in [Index -> 0 .. MaxCalls] BY <1>0, <1>1, <2>1 DEF TypeOK
  <2>3. next' \in 0 .. PopSize BY <1>1, Bounds
  <2> QED BY <1>0, <1>1, <2>1, <2>2, <2>3 DEF TypeOK
<1>6. AtRest' /\ PiecesApart' /\ ReadyIsDeveloped'
  BY <1>1, <1>2 DEF AtRest, PiecesApart, ReadyIsDeveloped
<1>7. NoSharedIndividual'
  BY <1>1, <1>4 DEF NoSharedIndividual
<1>8. Developed'
  <2>1. \A i \in Index : ~ (i < 0) BY Bounds
  <2> QED BY <1>1, <2>1 DEF Developed
<1>9. EvaluatedAsDeveloped'
  <2> SUFFICES ASSUME NEW i \in Index, i \notin Todo'
               PROVE  fit'[i] = <<i, gen'[i]>>
    BY DEF EvaluatedAsDeveloped, Genome
  <2>1. i \notin Covered(r) BY <1>1, InTodo
  <2>2. gen'[i] = gen[i] BY <1>1, <2>1 DEF Covered
  <2>3. i \notin Todo BY <1>3, <1>4, InTodo
  <2> QED BY <1>0, <1>1, <2>2, <2>3 DEF EvaluatedAsDeveloped, Genome
<1> QED BY <1>5, <1>6, <1>7, <1>8, <1>9 DEF IInv

LEMMA DevelopAllKeeps ==
  ASSUME IInv, DevelopAll
  PROVE  IInv' /\ Todo' = Todo
<1>0. TypeOK /\ AtRest /\ ReadyIsDeveloped /\ Developed /\ PiecesApart
      /\ NoSharedIndividual /\ EvaluatedAsDeveloped
  BY DEF IInv
<1>1. pc = "develop" /\ UNCHANGED <<kind, calls, pieces, work, ready, gen, fit>>
  BY DEF DevelopAll
<1>2. Todo' = Todo BY <1>1 DEF Todo, Covered, Index
<1>3. \A w \in Workers : ~ ready[w] /\ Empty(work[w])
  BY <1>0, <1>1 DEF AtRest, ReadyIsDeveloped
<1>4. next \in Nat /\ next <= PopSize BY <1>0, Bounds DEF TypeOK
<1>5. CASE next < PopSize
  <2>1. /\ dev' = [dev EXCEPT ![next] = Genome(next)] /\ next' = next + 1 /\ pc' = pc
    BY <1>5 DEF DevelopAll
  <2>2. next \in Index /\ next + 1 \in 0 .. PopSize BY <1>4, <1>5, Bounds
  <2>3. TypeOK'
    <3>1. Genome(next) \in Index \X (0 .. MaxCalls) BY <1>0, <2>2 DEF Genome, TypeOK
    <3> QED BY <1>0, <1>1, <2>1, <2>2, <3>1 DEF TypeOK
  <2>4. Developed'
    <3> SUFFICES ASSUME NEW i \in Index, i < next + 1 PROVE dev'[i] = <<i, gen[i]>>
      BY <1>1, <2>1 DEF Developed, Genome
    <3>1. i < next \/ i = next BY <1>4, Bounds
    <3>2. i < next => dev[i] = <<i, gen[i]>> BY <1>0, <1>1 DEF Developed, Genome
    <3>3. dev'[i] = IF i = next THEN <<next, gen[next]>> ELSE dev[i]
      BY <1>0, <2>1 DEF TypeOK, Genome
    <3> QED BY <3>1, <3>2, <3>3
  <2> QED BY <1>0, <1>1, <1>2, <1>3, <2>1, <2>3, <2>4 DEF IInv, AtRest, PiecesApart,
         NoSharedIndividual, ReadyIsDeveloped, EvaluatedAsDeveloped, Genome, Covered, Index
<1>6. CASE ~ (next < PopSize)
  <2>1. pc' = "tasks" /\ UNCHANGED <<next, dev>> BY <1>6 DEF DevelopAll
  <2>2. Developed'
    <3>1. \A i \in Index : i < next BY <1>4, <1>6, Bounds
    <3> QED BY <1>0, <1>1, <2>1, <3>1 DEF Developed, Genome
  <2>3. TypeOK' BY <1>0, <1>1, <2>1 DEF TypeOK
  <2> QED BY <1>0, <1>1, <1>2, <1>3, <2>1, <2>2, <2>3 DEF IInv, AtRest, PiecesApart,
         NoSharedIndividual, ReadyIsDeveloped, EvaluatedAsDeveloped, Genome, Covered, Index
<1> QED BY <1>2, <1>5, <1>6

(* A cut leaves two pieces that cover the individuals of the old one. *)
LEMMA SplitKeeps ==
  ASSUME IInv, NEW r \in pieces, Split(r)
  PROVE  IInv' /\ Todo' = Todo
<1>0. TypeOK /\ AtRest /\ ReadyIsDeveloped /\ Developed /\ PiecesApart
      /\ NoSharedIndividual /\ EvaluatedAsDeveloped
  BY DEF IInv
<1> DEFINE m == r[1] + (r[2] - r[1]) \div 2
           a == <<r[1], m>>
           b == <<m, r[2]>>
<1>1. /\ pc = "tasks" /\ r[2] - r[1] > 1 /\ pieces' = (pieces \ {r}) \cup {a, b}
      /\ UNCHANGED <<kind, pc, calls, next, work, ready, gen, dev, fit>>
  BY DEF Split
<1>2. r \in Ranges BY <1>0 DEF TypeOK
<1>3. r[1] \in Nat /\ r[2] \in Nat /\ r[2] <= PopSize BY <1>2, Bounds
<1>4. m \in Nat /\ r[1] <= m /\ m < r[2] BY <1>1, <1>3
<1> HIDE DEF m
<1>5. a \in Ranges /\ b \in Ranges
  BY <1>3, <1>4, Bounds DEF Ranges
<1>6. Covered(a) \cup Covered(b) = Covered(r) /\ Covered(a) \cap Covered(b) = {}
  <2>1. a[1] = r[1] /\ a[2] = m /\ b[1] = m /\ b[2] = r[2] OBVIOUS
  <2> HIDE DEF a, b
  <2>2. \A i \in Index : i \in Nat BY Bounds
  <2> QED BY <1>3, <1>4, <2>1, <2>2 DEF Covered
<1> HIDE DEF a, b
<1>7. TypeOK' BY <1>0, <1>1, <1>5 DEF TypeOK
<1>8. PiecesApart'
  <2>1. \A s \in pieces \ {r} : Covered(s) \cap Covered(r) = {} BY <1>0 DEF PiecesApart
  <2>2. \A s \in pieces \ {r} : Covered(s) \cap Covered(a) = {} /\ Covered(s) \cap Covered(b) = {}
    BY <2>1, <1>6
  <2>3. \A s, t \in pieces \ {r} : s # t => Covered(s) \cap Covered(t) = {}
    BY <1>0 DEF PiecesApart
  <2>4. \A s, t \in (pieces \ {r}) \cup {a, b} : s # t => Covered(s) \cap Covered(t) = {}
    BY <2>2, <2>3, <1>6
  <2> QED BY <1>1, <2>4 DEF PiecesApart
<1>9. NoSharedIndividual'
  <2>1. \A s \in pieces', w \in Workers : Covered(s) \cap Covered(work[w]) = {}
    BY <1>0, <1>1, <1>6 DEF NoSharedIndividual
  <2> QED BY <1>0, <1>1, <2>1 DEF NoSharedIndividual
<1>10. Todo' = Todo
  <2>1. \A i : (\E s \in pieces' : i \in Covered(s)) <=> (\E s \in pieces : i \in Covered(s))
    BY <1>1, <1>6
  <2>2. \A i : i \in Todo' <=> i \in Todo BY <1>1, <2>1, InTodo
  <2> QED BY <2>2
<1>11. AtRest' /\ Developed' /\ ReadyIsDeveloped' /\ EvaluatedAsDeveloped'
  BY <1>0, <1>1, <1>10 DEF AtRest, Developed, ReadyIsDeveloped, EvaluatedAsDeveloped, Genome
<1> QED BY <1>7, <1>8, <1>9, <1>10, <1>11 DEF IInv

(* A worker without work takes a piece. *)
LEMMA StartKeeps ==
  ASSUME IInv, NEW w \in Workers, NEW r \in pieces, Start(w, r)
  PROVE  IInv' /\ Todo' = Todo
<1>0. TypeOK /\ AtRest /\ ReadyIsDeveloped /\ Developed /\ PiecesApart
      /\ NoSharedIndividual /\ EvaluatedAsDeveloped
  BY DEF IInv
<1>1. /\ pc = "tasks" /\ Empty(work[w]) /\ pieces' = pieces \ {r}
      /\ work' = [work EXCEPT ![w] = r]
      /\ UNCHANGED <<kind, pc, calls, next, ready, gen, dev, fit>>
  BY DEF Start
<1>2. r \in Ranges /\ r \in (0 .. PopSize) \X (0 .. PopSize)
  BY <1>0, Bounds DEF TypeOK, Ranges
<1>3. work'[w] = r /\ \A v \in Workers : v # w => work'[v] = work[v]
  BY <1>0, <1>1 DEF TypeOK
<1>4. Covered(work[w]) = {}
  <2>1. work[w][1] \in Nat /\ work[w][2] \in Nat BY <1>0, Bounds DEF TypeOK
  <2>2. work[w][1] >= work[w][2] BY <1>1 DEF Empty
  <2> QED BY <2>1, <2>2, Bounds DEF Covered
<1>5. TypeOK' BY <1>0, <1>1, <1>2 DEF TypeOK
<1>6. PiecesApart' BY <1>0, <1>1 DEF PiecesApart
<1>7. NoSharedIndividual'
  <2>1. \A v \in Workers : Covered(r) \cap Covered(work[v]) = {}
    BY <1>0 DEF NoSharedIndividual
  <2>2. \A s \in pieces' : Covered(s) \cap Covered(r) = {}
    BY <1>0, <1>1 DEF PiecesApart
  <2>3. \A u, v \in Workers : u # v => Covered(work'[u]) \cap Covered(work'[v]) = {}
    BY <1>0, <1>3, <2>1 DEF NoSharedIndividual
  <2>4. \A s \in pieces', v \in Workers : Covered(s) \cap Covered(work'[v]) = {}
    BY <1>0, <1>1, <1>3, <2>2 DEF NoSharedIndividual
  <2> QED BY <2>3, <2>4 DEF NoSharedIndividual
<1>8. Todo' = Todo
  <2>1. ASSUME NEW i PROVE i \in Todo' <=> i \in Todo
    <3>1. (\E v \in Workers : i \in Covered(work'[v]))
            <=> i \in Covered(r) \/ \E v \in Workers : i \in Covered(work[v])
      BY <1>3, <1>4
    <3>2. (\E s \in pieces : i \in Covered(s))
            <=> i \in Covered(r) \/ \E s \in pieces' : i \in Covered(s)
      BY <1>1
    <3> QED BY <3>1, <3>2, InTodo
  <2> QED BY <2>1
<1>9. ~ ready[w] BY <1>0, <1>1 DEF ReadyIsDeveloped
<1>10. ReadyIsDeveloped'
  BY <1>0, <1>1, <1>3, <1>9 DEF ReadyIsDeveloped, Genome
<1>11. AtRest' /\ Developed' /\ EvaluatedAsDeveloped'
  BY <1>0, <1>1, <1>8 DEF AtRest, Developed, EvaluatedAsDeveloped, Genome
<1> QED BY <1>5, <1>6, <1>7, <1>8, <1>10, <1>11 DEF IInv

LEMMA HasWork ==
  ASSUME TypeOK, AtRest, NEW w \in Workers, ~ Empty(work[w])
  PROVE  /\ pc = "tasks" /\ work[w][1] \in Index /\ work[w][1] \in Covered(work[w])
         /\ work[w][1] \in Nat /\ work[w][2] \in Nat /\ work[w][1] < work[w][2]
         /\ work[w][2] <= PopSize
<1>1. /\ work[w][1] \in Nat /\ work[w][2] \in Nat /\ work[w][2] <= PopSize
      /\ work[w][1] < work[w][2]
  BY Bounds DEF TypeOK, Empty
<1> QED BY <1>1, Bounds DEF AtRest, Covered

LEMMA DevelopKeeps ==
  ASSUME IInv, NEW w \in Workers, Develop(w)
  PROVE  IInv' /\ Todo' = Todo
<1>0. TypeOK /\ AtRest /\ ReadyIsDeveloped /\ Developed /\ PiecesApart
      /\ NoSharedIndividual /\ EvaluatedAsDeveloped
  BY DEF IInv
<1> DEFINE i == work[w][1]
<1>1. /\ ~ Empty(work[w]) /\ kind # "parallel_eval"
      /\ dev' = [dev EXCEPT ![i] = Genome(i)] /\ ready' = [ready EXCEPT ![w] = TRUE]
      /\ UNCHANGED <<kind, pc, calls, next, pieces, work, gen, fit>>
  BY DEF Develop
<1>2. pc = "tasks" /\ i \in Index BY <1>0, <1>1, HasWork
<1>3. \A j \in Index : dev'[j] = IF j = i THEN <<j, gen[j]>> ELSE dev[j]
  BY <1>0, <1>1 DEF TypeOK, Genome
<1>4. TypeOK'
  <2>1. Genome(i) \in Index \X (0 .. MaxCalls) BY <1>0, <1>2 DEF Genome, TypeOK
  <2>2. dev' \in [Index -> Index \X (0 .. MaxCalls)] BY <1>0, <1>1, <2>1 DEF TypeOK
  <2>3. ready' \in [Workers -> BOOLEAN] BY <1>0, <1>1 DEF TypeOK
  <2> QED BY <1>0, <1>1, <2>2, <2>3 DEF TypeOK
<1>5. Todo' = Todo BY <1>1 DEF Todo, Covered, Index
<1>6. ReadyIsDeveloped'
  <2> SUFFICES ASSUME NEW v \in Workers, ready'[v]
               PROVE  ~ Empty(work[v]) /\ dev'[work[v][1]] = <<work[v][1], gen[work[v][1]]>>
    BY <1>1 DEF ReadyIsDeveloped, Genome
  <2>1. CASE v = w BY <2>1, <1>1, <1>2, <1>3
  <2>2. CASE v # w
    <3>1. ready[v] BY <2>2, <1>0, <1>1 DEF TypeOK
    <3>2. ~ Empty(work[v]) /\ dev[work[v][1]] = <<work[v][1], gen[work[v][1]]>>
      BY <3>1, <1>0 DEF ReadyIsDeveloped, Genome
    <3>3. work[v][1] \in Index BY <3>2, <1>0, HasWork
    <3> QED BY <3>2, <3>3, <1>3
  <2> QED BY <2>1, <2>2
<1>7. Developed' BY <1>1, <1>2 DEF Developed
<1>8. AtRest' /\ PiecesApart' /\ NoSharedIndividual' /\ EvaluatedAsDeveloped'
  BY <1>0, <1>1, <1>5 DEF AtRest, PiecesApart, NoSharedIndividual, EvaluatedAsDeveloped,
     Genome, Covered, Index
<1> QED BY <1>4, <1>5, <1>6, <1>7, <1>8 DEF IInv

(* An evaluation ticks off one individual, with the fitness of its present  *)
(* genome.                                                                  *)
LEMMA EvaluateKeeps ==
  ASSUME IInv, NEW w \in Workers, Evaluate(w)
  PROVE  /\ IInv' /\ pc = "tasks" /\ pc' = pc /\ UNCHANGED <<calls, gen>>
         /\ work[w][1] \in Index /\ work[w][1] \in Todo
         /\ Todo' = Todo \ {work[w][1]}
         /\ fit' = [fit EXCEPT ![work[w][1]] = Genome(work[w][1])]
<1>0. TypeOK /\ AtRest /\ ReadyIsDeveloped /\ Developed /\ PiecesApart
      /\ NoSharedIndividual /\ EvaluatedAsDeveloped
  BY DEF IInv
<1> DEFINE i == work[w][1]
           rest == <<i + 1, work[w][2]>>
<1>1. /\ ~ Empty(work[w]) /\ (kind = "parallel_eval" \/ ready[w])
      /\ fit' = [fit EXCEPT ![i] = dev[i]] /\ ready' = [ready EXCEPT ![w] = FALSE]
      /\ work' = [work EXCEPT ![w] = rest]
      /\ UNCHANGED <<kind, pc, calls, next, pieces, gen, dev>>
  BY DEF Evaluate
<1>2. /\ pc = "tasks" /\ i \in Index /\ i \in Covered(work[w])
      /\ i \in Nat /\ work[w][2] \in Nat /\ i < work[w][2] /\ work[w][2] <= PopSize
  BY <1>0, <1>1, HasWork
<1>3. dev[i] = Genome(i)
  BY <1>0, <1>1, <1>2 DEF Developed, ReadyIsDeveloped
<1>4. work'[w] = rest /\ \A v \in Workers : v # w => work'[v] = work[v]
  BY <1>0, <1>1 DEF TypeOK
<1>5. Covered(rest) = Covered(work[w]) \ {i}
  <2>1. rest[1] = i + 1 /\ rest[2] = work[w][2] OBVIOUS
  <2> HIDE DEF rest
  <2> QED BY <1>2, <2>1, Bounds DEF Covered
<1>6. rest \in (0 .. PopSize) \X (0 .. PopSize)
  BY <1>2, Bounds
<1> HIDE DEF rest
<1>7. TypeOK'
  <2>1. work' \in [Workers -> (0 .. PopSize) \X (0 .. PopSize)]
    BY <1>0, <1>1, <1>6 DEF TypeOK
  <2>2. ready' \in [Workers -> BOOLEAN] BY <1>0, <1>1 DEF TypeOK
  <2>3. dev[i] \in Index \X (0 .. MaxCalls) BY <1>0, <1>2 DEF TypeOK
  <2>4. fit' \in [Index -> Index \X (0 .. MaxCalls)] BY <1>0, <1>1, <2>3 DEF TypeOK
  <2> QED BY <1>0, <1>1, <2>1, <2>2, <2>4 DEF TypeOK
<1>8. \A v \in Workers : Covered(work'[v]) \subseteq Covered(work[v])
  BY <1>4, <1>5
<1>9. NoSharedIndividual'
  <2>1. \A u, v \in Workers : u # v => Covered(work'[u]) \cap Covered(work'[v]) = {}
    BY <1>0, <1>8 DEF NoSharedIndividual
  <2>2. \A s \in pieces, v \in Workers : Covered(s) \cap Covered(work'[v]) = {}
    BY <1>0, <1>8 DEF NoSharedIndividual
  <2> QED BY <1>1, <2>1, <2>2 DEF NoSharedIndividual
<1>10. i \in Todo /\ Todo' = Todo \ {i}
  <2>1. i \in Todo BY <1>2, InTodo
  <2>2. ASSUME NEW j, j # i PROVE j \in Todo' <=> j \in Todo
    <3>1. \A v \in Workers : j \in Covered(work'[v]) <=> j \in Covered(work[v])
      BY <1>4, <1>5, <2>2
    <3> QED BY <3>1, <1>1, InTodo
  <2>3. i \notin Todo'
    <3>1. \A s \in pieces : i \notin Covered(s) BY <1>0, <1>2 DEF NoSharedIndividual
    <3>2. \A v \in Workers : i \notin Covered(work'[v])
      BY <1>0, <1>2, <1>4, <1>5 DEF NoSharedIndividual
    <3> QED BY <3>1, <3>2, <1>1, InTodo
  <2> QED BY <2>1, <2>2, <2>3
<1>11. ReadyIsDeveloped'
  <2> SUFFICES ASSUME NEW v \in Workers, ready'[v]
               PROVE  ~ Empty(work'[v]) /\ dev[work'[v][1]] = <<work'[v][1], gen[work'[v][1]]>>
    BY <1>1 DEF ReadyIsDeveloped, Genome
  <2>1. v # w /\ ready[v] BY <1>0, <1>1 DEF TypeOK
  <2> QED BY <2>1, <1>0, <1>4 DEF ReadyIsDeveloped, Genome
<1>12. EvaluatedAsDeveloped'
  <2> SUFFICES ASSUME NEW j \in Index, j \notin Todo' PROVE fit'[j] = <<j, gen[j]>>
    BY <1>1 DEF EvaluatedAsDeveloped, Genome
  <2>1. CASE j = i BY <2>1, <1>0, <1>1, <1>2, <1>3 DEF TypeOK, Genome
  <2>2. CASE j # i
    <3>1. j \notin Todo BY <2>2, <1>10
    <3> QED BY <2>2, <3>1, <1>0, <1>1 DEF TypeOK, EvaluatedAsDeveloped, Genome
  <2> QED BY <2>1, <2>2
<1>13. AtRest' /\ PiecesApart' /\ Developed'
  BY <1>0, <1>1, <1>2 DEF AtRest, PiecesApart, Developed, Genome
<1>14. IInv' BY <1>7, <1>9, <1>11, <1>12, <1>13 DEF IInv
<1> QED BY <1>1, <1>2, <1>3, <1>10, <1>14

LEMMA ReturnKeeps ==
  ASSUME IInv, Return
  PROVE  IInv' /\ Todo = {} /\ Todo' = {}
<1>0. TypeOK /\ ReadyIsDeveloped BY DEF IInv
<1>1. /\ pc = "tasks" /\ pieces = {} /\ \A w \in Workers : Empty(work[w])
      /\ pc' = "idle" /\ UNCHANGED <<kind, calls, next, pieces, work, ready, gen, dev, fit>>
  BY DEF Return
<1>2. \A w \in Workers : Covered(work[w]) = {}
  <2> TAKE w \in Workers
  <2>1. work[w][1] \in Nat /\ work[w][2] \in Nat BY <1>0, Bounds DEF TypeOK
  <2>2. work[w][1] >= work[w][2] BY <1>1 DEF Empty
  <2> QED BY <2>1, <2>2, Bounds DEF Covered
<1>3. Todo = {} /\ Todo' = {} BY <1>1, <1>2, InTodo
<1>4. IInv'
  BY <1>1, <1>3 DEF IInv, TypeOK, AtRest, PiecesApart, NoSharedIndividual, Developed,
     ReadyIsDeveloped, EvaluatedAsDeveloped, Genome, Covered, Index, Empty
<1> QED BY <1>3, <1>4

LEMMA StutterKeeps ==
  ASSUME IInv, UNCHANGED vars
  PROVE  IInv' /\ Todo' = Todo
<1>1. Todo' = Todo BY DEF vars, Todo, Covered, Index
<1> QED BY <1>1 DEF vars, IInv, TypeOK, AtRest, PiecesApart, NoSharedIndividual, Developed,
       ReadyIsDeveloped, EvaluatedAsDeveloped, Genome, Covered, Index, Empty

(* Every state satisfies the inductive invariant: the pieces of a range and *)
(* what the workers have left of theirs never overlap.                      *)
THEOREM Invariance == Spec => []IInv
<1>1. IInv /\ [Next]_vars => IInv'
  <2> SUFFICES ASSUME IInv, [Next]_vars PROVE IInv' OBVIOUS
  <2> QED BY CallKeeps, DevelopAllKeeps, SplitKeeps, StartKeeps, DevelopKeeps,
         EvaluateKeeps, ReturnKeeps, StutterKeeps DEF Next, WorkerStep, Stop
<1> QED BY <1>1, InitKeeps, PTL DEF Spec

(* No two threads have the same individual in hand. *)
THEOREM ThreadsApart == Spec => []NoSharedIndividual
<1>1. IInv => NoSharedIndividual BY DEF IInv
<1> QED BY <1>1, Invariance, PTL

(* An individual is evaluated on the phenotype of its present genome. *)
THEOREM DevelopedFirst == Spec => []EvaluatedAsDeveloped
<1>1. IInv => EvaluatedAsDeveloped BY DEF IInv
<1> QED BY <1>1, Invariance, PTL

-----------------------------------------------------------------------------
Phase == IF pc = "idle" THEN "idle" ELSE "busy"

LEMMA StepIsBatchStep ==
  ASSUME IInv, [Next]_vars
  PROVE  [Batch!Next]_(Batch!vars)
<1>1. ASSUME NEW r \in Ranges, Call(r) PROVE Batch!Next
  <2>1. r \in Batch!Ranges BY Bounds DEF Ranges, Batch!Ranges
  <2>2. Todo' = {i \in Index : r[1] <= i /\ i < r[2]}
    <3>1. pieces' = {r} /\ work' = work /\ pc = "idle" BY <1>1 DEF Call
    <3>2. \A w \in Workers : Covered(work[w]) = {}
      <4> TAKE w \in Workers
      <4>1. work[w][1] \in Nat /\ work[w][2] \in Nat BY Bounds DEF IInv, TypeOK
      <4>2. work[w][1] >= work[w][2] BY <3>1 DEF IInv, AtRest, Empty
      <4> QED BY <4>1, <4>2, Bounds DEF Covered
    <3>3. \A i : i \in Todo' <=> i \in Covered(r) BY <3>1, <3>2, InTodo
    <3>4. Todo' = Covered(r) BY <3>3
    <3> QED BY <3>4 DEF Covered
  <2>3. gen' = Batch!Renewed(r, calls + 1)
    BY <1>1 DEF Call, Batch!Renewed, Index, Batch!Index
  <2>4. Phase = "idle" /\ Phase' = "busy" BY <1>1 DEF Call, Phase
  <2>5. Batch!Begin(r)
    BY <1>1, <2>2, <2>3, <2>4 DEF Batch!Begin, Call, Phase, Batch!Index, Index
  <2> QED BY <2>1, <2>5 DEF Batch!Next
<1>2. ASSUME NEW w \in Workers, Evaluate(w) PROVE Batch!Next
  <2> DEFINE i == work[w][1]
  <2>1. /\ pc = "tasks" /\ pc' = pc /\ UNCHANGED <<calls, gen>> /\ i \in Index /\ i \in Todo
        /\ Todo' = Todo \ {i} /\ fit' = [fit EXCEPT ![i] = Genome(i)]
    BY <1>2, EvaluateKeeps
  <2>2. Batch!EvalOne(i) BY <2>1 DEF Batch!EvalOne, Batch!Genome, Genome
  <2> QED BY <2>1, <2>2 DEF Batch!Next, Batch!Index, Index
<1>3. CASE Return
  BY <1>3, ReturnKeeps DEF Return, Batch!Next, Batch!Return
<1>4. ASSUME UNCHANGED <<calls, gen, fit>>, Todo' = Todo, Phase' = Phase
      PROVE  UNCHANGED Batch!vars
  BY <1>4 DEF Batch!vars, Phase
<1>5. CASE DevelopAll
  <2>1. UNCHANGED <<calls, gen, fit>> /\ Phase' = Phase BY <1>5 DEF DevelopAll, Phase
  <2> QED BY <2>1, <1>4, <1>5, DevelopAllKeeps
<1>6. ASSUME NEW r \in pieces, Split(r) PROVE UNCHANGED Batch!vars
  <2>1. UNCHANGED <<calls, gen, fit>> /\ Phase' = Phase BY <1>6 DEF Split, Phase
  <2> QED BY <2>1, <1>4, <1>6, SplitKeeps
<1>7. ASSUME NEW w \in Workers, NEW r \in pieces, Start(w, r) PROVE UNCHANGED Batch!vars
  <2>1. UNCHANGED <<calls, gen, fit>> /\ Phase' = Phase BY <1>7 DEF Start, Phase
  <2> QED BY <2>1, <1>4, <1>7, StartKeeps
<1>8. ASSUME NEW w \in Workers, Develop(w) PROVE UNCHANGED Batch!vars
  <2>1. UNCHANGED <<calls, gen, fit>> /\ Phase' = Phase BY <1>8 DEF Develop, Phase
  <2> QED BY <2>1, <1>4, <1>8, DevelopKeeps
<1>9. CASE UNCHANGED vars
  <2>1. UNCHANGED <<calls, gen, fit>> /\ Phase' = Phase BY <1>9 DEF vars, Phase
  <2> QED BY <2>1, <1>4, <1>9, StutterKeeps
<1> QED BY <1>1, <1>2, <1>3, <1>5, <1>6, <1>7, <1>8, <1>9 DEF Next, WorkerStep, Stop

(* The three evaluators implement the contract of BatchEval. *)
THEOREM TasksImplementBatch == Spec => ImplementsBatch
<1>1. Init => Batch!Init
  <2> SUFFICES ASSUME Init PROVE Batch!Init OBVIOUS
  <2>1. \A w \in Workers : Covered(work[w]) = {} BY DEF Init, Nothing, Covered, Index
  <2>2. Todo = {} BY <2>1, InTodo DEF Init
  <2> QED BY <2>2 DEF Init, Batch!Init, Index, Batch!Index
<1> QED BY Invariance, <1>1, StepIsBatchStep, PTL DEF Spec, Batch!Spec, ImplementsBatch
-----------------------------------------------------------------------------
(* A call ends: what is left of it, the most important first, are turns of  *)
(* the loop before the tasks, individuals not evaluated, those in pieces    *)
(* nobody has started, an empty range nobody has started, places where a    *)
(* piece may still be cut, and individuals not developed.                   *)
Waiting == {i \in Index : \E r \in pieces : i \in Covered(r)}
Uncut == {i \in Index : \A r \in pieces : r[1] # i}
Undeveloped == {i \in Todo : \A w \in Workers : ready[w] => work[w][1] # i}
Effort ==
  <<IF pc = "develop" THEN PopSize + 1 - next ELSE 0,
    Cardinality(Todo),
    Cardinality(Waiting),
    IF \E r \in pieces : Empty(r) THEN 1 ELSE 0,
    Cardinality(Uncut),
    Cardinality(Undeveloped)>>

(* The lexicographic order of the efforts. *)
Falls ==
  \E k \in 1 .. 6 : /\ Effort'[k] < Effort[k]
                    /\ \A j \in 1 .. (k - 1) : Effort'[j] = Effort[j]

(* parallel_for() never cuts a range into nothing. *)
NoEmptyCuts == \A r \in pieces : Empty(r) => pieces = {r}

LEMMA Finite ==
  /\ IsFiniteSet(Todo) /\ IsFiniteSet(Waiting)
  /\ IsFiniteSet(Uncut) /\ IsFiniteSet(Undeveloped)
<1>1. IsFiniteSet(Index)
  <2>1. 0 \in Int /\ PopSize - 1 \in Int
    BY Bounds
  <2> QED BY <2>1, FS_Interval DEF Index
<1>2. /\ Todo \in SUBSET Index /\ Waiting \in SUBSET Index /\ Uncut \in SUBSET Index
      /\ Undeveloped \in SUBSET Todo
  BY DEF Todo, Covered, Waiting, Uncut, Undeveloped
<1> QED BY <1>1, <1>2, FS_Subset

LEMMA EffortIsCounted ==
  ASSUME IInv
  PROVE  \A k \in 1 .. 6 : Effort[k] \in Nat
<1>1. /\ Cardinality(Todo) \in Nat /\ Cardinality(Waiting) \in Nat
      /\ Cardinality(Uncut) \in Nat /\ Cardinality(Undeveloped) \in Nat
  BY Finite, FS_CardinalityType
<1>2. Effort[1] \in Nat
  BY Bounds DEF IInv, TypeOK, Effort
<1> QED BY <1>1, <1>2 DEF Effort

(* One element less. *)
LEMMA OneLess ==
  ASSUME NEW S, IsFiniteSet(S), NEW i \in S, NEW T, T = S \ {i}
  PROVE  Cardinality(T) < Cardinality(S)
<1>1. Cardinality(S \ {i}) = Cardinality(S) - 1
  BY FS_RemoveElement
<1>2. Cardinality(S) \in Nat
  BY FS_CardinalityType
<1> QED BY <1>1, <1>2

LEMMA PiecesAre ==
  ASSUME IInv, NEW r \in pieces
  PROVE  /\ r \in Ranges /\ r[1] \in Index
         /\ \A i : i \in Covered(r) <=> i \in Nat /\ r[1] <= i /\ i < r[2]
         /\ ~ Empty(r) <=> r[1] \in Covered(r)
<1>1. r \in Ranges
  BY DEF IInv, TypeOK
<1> QED BY <1>1, Bounds DEF Covered, Empty

LEMMA CutsKept == IInv /\ NoEmptyCuts /\ [Next]_vars => NoEmptyCuts'
<1> SUFFICES ASSUME IInv, NoEmptyCuts, [Next]_vars PROVE NoEmptyCuts'
  OBVIOUS
<1>1. ASSUME NEW r \in pieces, Split(r) PROVE NoEmptyCuts'
  <2> DEFINE m == r[1] + (r[2] - r[1]) \div 2
  <2>1. pieces' = (pieces \ {r}) \cup {<<r[1], m>>, <<m, r[2]>>} /\ r[2] - r[1] > 1
    BY <1>1 DEF Split
  <2>2. r[1] \in Nat /\ r[2] \in Nat
    BY <1>1, PiecesAre, Bounds
  <2>3. m \in Nat /\ r[1] < m /\ m < r[2]
    BY <2>1, <2>2
  <2> HIDE DEF m
  <2>4. ~ Empty(<<r[1], m>>) /\ ~ Empty(<<m, r[2]>>) /\ ~ Empty(r)
    BY <2>2, <2>3 DEF Empty
  <2>5. \A s \in pieces : ~ Empty(s)
    BY <2>4 DEF NoEmptyCuts
  <2> QED BY <2>1, <2>4, <2>5 DEF NoEmptyCuts
<1>2. ASSUME NEW w \in Workers, WorkerStep(w) PROVE NoEmptyCuts'
  <2>1. \/ UNCHANGED pieces
        \/ \E r \in pieces : pieces' = pieces \ {r}
    BY <1>2 DEF WorkerStep, Start, Develop, Evaluate
  <2> QED BY <2>1 DEF NoEmptyCuts
<1>3. ASSUME NEW r \in Ranges, Call(r) PROVE NoEmptyCuts'
  BY <1>3 DEF Call, NoEmptyCuts
<1>4. CASE DevelopAll \/ Return \/ Stop \/ UNCHANGED vars
  BY <1>4 DEF DevelopAll, Return, Stop, vars, NoEmptyCuts
<1> QED BY <1>1, <1>2, <1>3, <1>4 DEF Next

LEMMA SplitFalls ==
  ASSUME IInv, NoEmptyCuts, NEW r \in pieces, Split(r)
  PROVE  Falls
<1> DEFINE m == r[1] + (r[2] - r[1]) \div 2
           a == <<r[1], m>>
           b == <<m, r[2]>>
<1>1. /\ pc' = pc /\ next' = next /\ pieces' = (pieces \ {r}) \cup {a, b}
      /\ r[2] - r[1] > 1
  BY DEF Split
<1>2. r[1] \in Nat /\ r[2] \in Nat /\ r[2] <= PopSize
  BY PiecesAre, Bounds
<1>3. m \in Nat /\ r[1] < m /\ m < r[2]
  BY <1>1, <1>2
<1> HIDE DEF m
<1>4. Covered(a) \cup Covered(b) = Covered(r)
  <2>1. a[1] = r[1] /\ a[2] = m /\ b[1] = m /\ b[2] = r[2]
    OBVIOUS
  <2> HIDE DEF a, b
  <2> QED BY <1>2, <1>3, <2>1, Bounds DEF Covered
<1>5. Effort'[1] = Effort[1] /\ Effort'[2] = Effort[2]
  BY <1>1, SplitKeeps DEF Effort
<1>6. Waiting' = Waiting
  <2>1. \A i : (\E s \in pieces' : i \in Covered(s)) <=> (\E s \in pieces : i \in Covered(s))
    BY <1>1, <1>4
  <2> QED BY <2>1 DEF Waiting
<1>7. ~ (\E s \in pieces : Empty(s)) /\ ~ (\E s \in pieces' : Empty(s))
  <2>1. ~ Empty(r)
    BY <1>1, <1>2 DEF Empty
  <2>2. (\A s \in pieces : ~ Empty(s))
    BY <2>1 DEF NoEmptyCuts
  <2>3. NoEmptyCuts'
    BY CutsKept DEF Next
  <2>4. a # b
    BY <1>2, <1>3
  <2>5. a \in pieces' /\ b \in pieces'
    BY <1>1
  <2>6. \A s \in pieces' : ~ Empty(s)
    BY <2>3, <2>4, <2>5 DEF NoEmptyCuts
  <2> QED BY <2>2, <2>6
<1>8. m \in Uncut /\ Uncut' = Uncut \ {m}
  <2>1. m \in Index /\ m \in Covered(r)
    BY <1>2, <1>3, Bounds, PiecesAre
  <2>2. ASSUME NEW s \in pieces, s[1] = m PROVE FALSE
    <3>1. s # r
      BY <1>2, <1>3, <2>2
    <3>2. m \in Covered(s)
      BY <1>7, <2>2, PiecesAre
    <3> QED BY <2>1, <3>1, <3>2 DEF IInv, PiecesApart
  <2>3. a[1] = r[1] /\ b[1] = m
    OBVIOUS
  <2>4. \A i : (\A s \in pieces' : s[1] # i) <=> (\A s \in pieces : s[1] # i) /\ i # m
    BY <1>1, <2>3
  <2> QED BY <2>1, <2>2, <2>4 DEF Uncut
<1>9. Cardinality(Uncut') < Cardinality(Uncut)
  BY <1>8, Finite, OneLess
<1>10. Effort'[3] = Effort[3] /\ Effort'[4] = Effort[4] /\ Effort'[5] < Effort[5]
  BY <1>6, <1>7, <1>9 DEF Effort
<1> QED BY <1>5, <1>10 DEF Falls

LEMMA StartFalls ==
  ASSUME IInv, NoEmptyCuts, NEW w \in Workers, NEW r \in pieces, Start(w, r)
  PROVE  Falls
<1>1. pc' = pc /\ next' = next /\ pieces' = pieces \ {r}
  BY DEF Start
<1>2. Effort'[1] = Effort[1] /\ Effort'[2] = Effort[2]
  BY <1>1, StartKeeps DEF Effort
<1>3. CASE Empty(r)
  <2>1. pieces = {r} /\ pieces' = {} /\ Covered(r) = {}
    BY <1>1, <1>3, PiecesAre, Bounds DEF NoEmptyCuts, Empty
  <2>2. Waiting = {} /\ Waiting' = {}
    BY <2>1 DEF Waiting
  <2>3. Effort'[3] = Effort[3] /\ Effort'[4] < Effort[4]
    BY <1>3, <2>1, <2>2 DEF Effort
  <2> QED BY <1>2, <2>3 DEF Falls
<1>4. CASE ~ Empty(r)
  <2>1. r[1] \in Waiting
    BY <1>4, PiecesAre DEF Waiting
  <2>2. r[1] \notin Waiting'
    <3>1. \A s \in pieces' : r[1] \notin Covered(s)
      BY <1>1, <1>4, PiecesAre DEF IInv, PiecesApart
    <3> QED BY <3>1 DEF Waiting
  <2>3. Waiting' \in SUBSET Waiting
    BY <1>1 DEF Waiting
  <2>4. /\ Cardinality(Waiting') <= Cardinality(Waiting)
        /\ Cardinality(Waiting') # Cardinality(Waiting)
        /\ Cardinality(Waiting') \in Nat /\ Cardinality(Waiting) \in Nat
    BY <2>1, <2>2, <2>3, Finite, FS_Subset, FS_CardinalityType
  <2>5. Effort'[3] < Effort[3]
    BY <2>4 DEF Effort
  <2> QED BY <1>2, <2>5 DEF Falls
<1> QED BY <1>3, <1>4

LEMMA DevelopFalls ==
  ASSUME IInv, NEW w \in Workers, Develop(w)
  PROVE  Falls
<1> DEFINE i == work[w][1]
<1>1. /\ pc' = pc /\ next' = next /\ pieces' = pieces /\ work' = work
      /\ ready' = [ready EXCEPT ![w] = TRUE] /\ ~ ready[w] /\ Todo' = Todo
  BY DevelopKeeps DEF Develop
<1>2. i \in Covered(work[w])
  BY HasWork DEF IInv, Develop
<1>3. i \in Todo
  BY <1>2, InTodo
<1>4. ASSUME NEW v \in Workers, ready[v], work[v][1] = i PROVE FALSE
  <2>1. v # w
    BY <1>1, <1>4
  <2>2. work[v][1] \in Covered(work[v])
    BY <1>4, HasWork DEF IInv, ReadyIsDeveloped
  <2> QED BY <1>2, <1>4, <2>1, <2>2 DEF IInv, NoSharedIndividual
<1>5. i \in Undeveloped /\ Undeveloped' = Undeveloped \ {i}
  <2>1. ready'[w] /\ \A v \in Workers : v # w => ready'[v] = ready[v]
    BY <1>1 DEF IInv, TypeOK
  <2>2. \A j : (\A v \in Workers : ready'[v] => work[v][1] # j)
                 <=> (\A v \in Workers : ready[v] => work[v][1] # j) /\ j # i
    BY <1>1, <2>1
  <2> HIDE DEF i
  <2> QED BY <1>1, <1>3, <1>4, <2>2 DEF Undeveloped
<1>6. Cardinality(Undeveloped') < Cardinality(Undeveloped)
  BY <1>5, Finite, OneLess
<1>7. /\ \A k \in 1 .. 5 : Effort'[k] = Effort[k]
      /\ Effort'[6] < Effort[6]
  BY <1>1, <1>6 DEF Effort, Waiting, Uncut
<1> QED BY <1>7 DEF Falls

(* Every step of a call of Eval, Parallel or ParallelEval returns from it   *)
(* or lowers a tuple of natural numbers: however TBB cuts the range and     *)
(* however many threads there are, a call has finitely many steps.          *)
THEOREM CallsAreFinite ==
  Spec => /\ [](\A k \in 1 .. 6 : Effort[k] \in Nat)
          /\ [][pc # "idle" => pc' = "idle" \/ Falls]_vars
<1>1. IInv => \A k \in 1 .. 6 : Effort[k] \in Nat
  BY EffortIsCounted
<1>2. Init => NoEmptyCuts
  BY DEF Init, NoEmptyCuts
<1>3. IInv /\ NoEmptyCuts /\ [Next]_vars => [pc # "idle" => pc' = "idle" \/ Falls]_vars
  <2> SUFFICES ASSUME IInv, NoEmptyCuts, Next, pc # "idle" PROVE pc' = "idle" \/ Falls
    OBVIOUS
  <2>1. CASE DevelopAll
    <3>1. Effort'[1] < Effort[1]
      BY <2>1, Bounds DEF DevelopAll, Effort, IInv, TypeOK
    <3> QED BY <3>1 DEF Falls
  <2>2. ASSUME NEW w \in Workers, Evaluate(w) PROVE Falls
    <3>1. /\ pc = "tasks" /\ pc' = pc /\ work[w][1] \in Todo
          /\ Todo' = Todo \ {work[w][1]}
      BY <2>2, EvaluateKeeps
    <3>2. Effort'[1] = Effort[1] /\ Effort'[2] < Effort[2]
      BY <3>1, Finite, OneLess DEF Effort
    <3> QED BY <3>2 DEF Falls
  <2> QED BY <2>1, <2>2, SplitFalls, StartFalls, DevelopFalls
          DEF Next, WorkerStep, Call, Stop, Return
<1> QED BY <1>1, <1>2, <1>3, CutsKept, Invariance, PTL DEF Spec
=============================================================================
