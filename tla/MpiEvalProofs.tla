--------------------------- MODULE MpiEvalProofs ---------------------------
(***************************************************************************)
(* Proofs about MpiEval, for every number of slaves, every population size *)
(* and whatever MPI does with each send.                                   *)
(***************************************************************************)
EXTENDS MpiEval, SequenceTheorems, FiniteSetTheorems, TLAPS

USE WorldAssumption, PopAssumption, TagAssumption, CallsAssumption, ModesAssumption

(* Sending to a slave that holds nothing gives it exactly that job. *)
LEMMA SendStep ==
  ASSUME TypeOK, OneJob, NEW s \in Slaves, ~ Busy(s), current \in Index,
         SendIndiv(s), UNCHANGED <<slave, job, toMaster>>
  PROVE  /\ toSlave' \in [Slaves -> Seq(Message)]
         /\ OneJob'
         /\ Busy(s)' /\ Tag(s)' = current /\ Val(s)' = Genome(current)
         /\ \A t \in Slaves \ {s} : /\ Busy(t)' <=> Busy(t)
                                    /\ Tag(t)' = Tag(t) /\ Val(t)' = Val(t)
<1>1. PICK m \in SendModes :
        toSlave' = [toSlave EXCEPT ![s] =
          Append(@, [tag |-> current, val |-> Genome(current), mode |-> m])]
  BY DEF SendIndiv
<1> DEFINE msg == [tag |-> current, val |-> Genome(current), mode |-> m]
<1>2. msg \in Message
  <2>1. Genome(current) \in Index \X (0 .. MaxCalls)
    BY DEF TypeOK, Genome
  <2>2. current \in 0 .. MaxTag
    BY DEF Index
  <2> QED BY <2>1, <2>2 DEF Message
<1>3. toSlave[s] = <<>> /\ slave[s] # "eval" /\ toMaster[s] = <<>>
  BY DEF Busy
<1>4. toSlave'[s] = <<msg>>
  BY <1>1, <1>3 DEF TypeOK
<1>5. \A t \in Slaves \ {s} : toSlave'[t] = toSlave[t]
  BY <1>1 DEF TypeOK
<1>6. toSlave' \in [Slaves -> Seq(Message)]
  BY <1>1, <1>2 DEF TypeOK
<1> HIDE DEF msg
<1>7. OneJob'
  <2>1. Len(toSlave'[s]) <= 1
    BY <1>4
  <2>2. \A t \in Slaves : Len(toSlave'[t]) <= 1
    <3> TAKE t \in Slaves
    <3>1. CASE t = s
      BY <2>1, <3>1
    <3>2. CASE t # s
      <4>1. toSlave'[t] = toSlave[t]
        BY <1>5, <3>2
      <4> QED BY <4>1 DEF OneJob
    <3> QED BY <3>1, <3>2
  <2>3. \A t \in Slaves : toSlave'[t] # <<>> => slave[t] # "eval" /\ toMaster[t] = <<>>
    BY <1>3, <1>5 DEF OneJob
  <2> QED BY <2>2, <2>3 DEF OneJob
<1>8. Busy(s)' /\ Held(s)' = msg
  BY <1>4 DEF Busy, Held
<1>9. \A t \in Slaves \ {s} : (Busy(t)' <=> Busy(t)) /\ Held(t)' = Held(t)
  BY <1>5 DEF Busy, Held
<1> QED BY <1>6, <1>7, <1>8, <1>9 DEF Tag, Val, msg

(* Receiving the fitness of a slave takes its only job from it. *)
LEMMA RecvStep ==
  ASSUME TypeOK, OneJob, NEW s \in Slaves, Recv(s),
         UNCHANGED <<slave, job, toSlave>>
  PROVE  /\ toMaster' \in [Slaves -> Seq(Message)]
         /\ OneJob'
         /\ Busy(s) /\ ~ Busy(s)'
         /\ fit' = [fit EXCEPT ![Tag(s)] = Val(s)]
         /\ evaluated' = [evaluated EXCEPT ![Tag(s)] = TRUE]
         /\ fit' \in [Index -> Index \X (0 .. MaxCalls)]
         /\ evaluated' \in [Index -> BOOLEAN]
         /\ \A t \in Slaves \ {s} : /\ Busy(t)' <=> Busy(t)
                                    /\ Tag(t)' = Tag(t) /\ Val(t)' = Val(t)
<1>1. toMaster[s] # <<>> /\ toSlave[s] = <<>> /\ slave[s] # "eval"
  BY DEF Recv, OneJob
<1>2. Head(toMaster[s]) \in Message /\ Tail(toMaster[s]) = <<>>
  BY <1>1 DEF OneJob, TypeOK
<1>3. Held(s) = Head(toMaster[s])
  BY <1>1 DEF Held
<1>4. toMaster' = [toMaster EXCEPT ![s] = <<>>]
  BY <1>2 DEF Recv
<1>5. \A t \in Slaves \ {s} : toMaster'[t] = toMaster[t]
  BY <1>4 DEF TypeOK
<1>6. toMaster'[s] = <<>>
  BY <1>4 DEF TypeOK
<1>7. toMaster' \in [Slaves -> Seq(Message)]
  BY <1>4 DEF TypeOK
<1>8. OneJob'
  BY <1>1, <1>5, <1>6 DEF OneJob
<1>9. Busy(s) /\ ~ Busy(s)'
  BY <1>1, <1>6 DEF Busy
<1>10. \A t \in Slaves \ {s} : (Busy(t)' <=> Busy(t)) /\ Held(t)' = Held(t)
  BY <1>5 DEF Busy, Held
<1>11. /\ fit' = [fit EXCEPT ![Tag(s)] = Val(s)]
       /\ evaluated' = [evaluated EXCEPT ![Tag(s)] = TRUE]
  BY <1>3 DEF Recv, Tag, Val
<1>12. Val(s) \in Index \X (0 .. MaxCalls)
  BY <1>2, <1>3 DEF Val, Message
<1>13. fit' \in [Index -> Index \X (0 .. MaxCalls)] /\ evaluated' \in [Index -> BOOLEAN]
  BY <1>11, <1>12 DEF TypeOK
<1> QED BY <1>7, <1>8, <1>9, <1>10, <1>11, <1>13 DEF Tag, Val

(* A slave that takes its message, or answers, still has the same job. *)
LEMMA TakeStep ==
  ASSUME TypeOK, OneJob, NEW s \in Slaves, Take(s)
  PROVE  /\ toSlave' \in [Slaves -> Seq(Message)]
         /\ job' \in [Slaves -> [tag : 0 .. MaxTag, val : Index \X (0 .. MaxCalls)]]
         /\ OneJob'
         /\ \A t \in Slaves : /\ Busy(t)' <=> Busy(t)
                              /\ Tag(t)' = Tag(t) /\ Val(t)' = Val(t)
<1>1. toSlave[s] # <<>> /\ slave[s] = "probe" /\ toMaster[s] = <<>>
  BY DEF Take, OneJob
<1>2. Head(toSlave[s]) \in Message /\ Tail(toSlave[s]) = <<>>
  BY <1>1 DEF OneJob, TypeOK
<1> DEFINE j == [tag |-> Head(toSlave[s]).tag, val |-> Head(toSlave[s]).val]
<1>3. j \in [tag : 0 .. MaxTag, val : Index \X (0 .. MaxCalls)]
  BY <1>2 DEF Message
<1>4. /\ toSlave' = [toSlave EXCEPT ![s] = <<>>]
      /\ job' = [job EXCEPT ![s] = j]
      /\ slave' = [slave EXCEPT ![s] = "eval"]
      /\ toMaster' = toMaster
  BY <1>2 DEF Take
<1>5. /\ toSlave'[s] = <<>> /\ job'[s] = j /\ slave'[s] = "eval"
      /\ \A t \in Slaves \ {s} : /\ toSlave'[t] = toSlave[t]
                                 /\ job'[t] = job[t] /\ slave'[t] = slave[t]
  BY <1>4 DEF TypeOK
<1>6. /\ toSlave' \in [Slaves -> Seq(Message)]
      /\ job' \in [Slaves -> [tag : 0 .. MaxTag, val : Index \X (0 .. MaxCalls)]]
  BY <1>3, <1>4 DEF TypeOK
<1>7. Held(s) = Head(toSlave[s]) /\ Held(s)' = j /\ Busy(s) /\ Busy(s)'
  BY <1>1, <1>5 DEF Held, Busy
<1>8. OneJob'
  BY <1>1, <1>4, <1>5 DEF OneJob
<1>9. \A t \in Slaves \ {s} : (Busy(t)' <=> Busy(t)) /\ Held(t)' = Held(t)
  BY <1>4, <1>5 DEF Busy, Held
<1>10. Tag(s)' = Tag(s) /\ Val(s)' = Val(s)
  BY <1>7 DEF Tag, Val
<1> QED BY <1>6, <1>7, <1>8, <1>9, <1>10 DEF Tag, Val

LEMMA AnswerStep ==
  ASSUME TypeOK, OneJob, NEW s \in Slaves, Answer(s)
  PROVE  /\ toMaster' \in [Slaves -> Seq(Message)]
         /\ OneJob'
         /\ \A t \in Slaves : /\ Busy(t)' <=> Busy(t)
                              /\ Tag(t)' = Tag(t) /\ Val(t)' = Val(t)
<1>1. slave[s] = "eval" /\ toSlave[s] = <<>> /\ toMaster[s] = <<>>
  BY DEF Answer, OneJob
<1>2. PICK m \in SendModes : toMaster' = [toMaster EXCEPT ![s] =
         Append(@, [tag |-> job[s].tag, val |-> job[s].val, mode |-> m])]
  BY DEF Answer
<1> DEFINE msg == [tag |-> job[s].tag, val |-> job[s].val, mode |-> m]
<1>3. msg \in Message
  BY DEF Message, TypeOK
<1>4. /\ toMaster' = [toMaster EXCEPT ![s] = <<msg>>]
      /\ slave' = [slave EXCEPT ![s] = "probe"]
      /\ toSlave' = toSlave /\ job' = job
  <2>1. Append(toMaster[s], msg) = <<msg>>
    BY <1>1
  <2> QED BY <1>2, <2>1 DEF Answer
<1>5. /\ toMaster'[s] = <<msg>> /\ slave'[s] = "probe"
      /\ \A t \in Slaves \ {s} : toMaster'[t] = toMaster[t] /\ slave'[t] = slave[t]
  BY <1>4 DEF TypeOK
<1>6. toMaster' \in [Slaves -> Seq(Message)]
  BY <1>3, <1>4 DEF TypeOK
<1>7. Held(s) = job[s] /\ Held(s)' = msg /\ Busy(s) /\ Busy(s)'
  BY <1>1, <1>4, <1>5 DEF Held, Busy
<1> HIDE DEF msg
<1>8. OneJob'
  <2>1. Len(toMaster'[s]) <= 1
    BY <1>5
  <2>2. \A t \in Slaves : Len(toMaster'[t]) <= 1
    <3> TAKE t \in Slaves
    <3>1. CASE t = s
      BY <2>1, <3>1
    <3>2. CASE t # s
      <4>1. toMaster'[t] = toMaster[t]
        BY <1>5, <3>2
      <4> QED BY <4>1 DEF OneJob
    <3> QED BY <3>1, <3>2
  <2>3. \A t \in Slaves : slave'[t] = "eval" => slave[t] = "eval" /\ t # s
    BY <1>5
  <2> QED BY <1>1, <1>4, <1>5, <2>2, <2>3 DEF OneJob
<1>9. \A t \in Slaves \ {s} : (Busy(t)' <=> Busy(t)) /\ Held(t)' = Held(t)
  BY <1>4, <1>5 DEF Busy, Held
<1>10. Tag(s)' = Tag(s) /\ Val(s)' = Val(s)
  BY <1>7 DEF Tag, Val, msg
<1> QED BY <1>6, <1>7, <1>8, <1>9, <1>10 DEF Tag, Val

LEMMA SameNet ==
  ASSUME OneJob, UNCHANGED <<slaveVars, toSlave, toMaster>>
  PROVE  /\ OneJob'
         /\ \A t \in Slaves : /\ Busy(t)' <=> Busy(t)
                              /\ Tag(t)' = Tag(t) /\ Val(t)' = Val(t)
BY DEF OneJob, Busy, Held, Tag, Val, slaveVars

-----------------------------------------------------------------------------
(* The invariant is inductive: one lemma per action that moves a message,   *)
(* one for those that only move the master.                                 *)

LEMMA InitIInv == Init => IInv
<1> SUFFICES ASSUME Init PROVE IInv
  OBVIOUS
<1>1. TypeOK
  BY DEF Init, TypeOK, Index, Slaves, Message
<1>2. OneJob
  BY DEF Init, OneJob
<1>3. Ledger /\ Crew
  BY DEF Init, Ledger, Crew, InCall
<1>4. AtRest
  BY DEF Init, AtRest, InCall, Busy, Genome
<1> QED BY <1>1, <1>2, <1>3, <1>4 DEF IInv

LEMMA CallKeeps ==
  ASSUME IInv, NEW r \in Ranges, Call(r)
  PROVE  IInv'
<1> USE DEF IInv
<1>0. /\ OneJob'
      /\ \A t \in Slaves : ~ Busy(t)' /\ slave'[t] # "exited"
  BY SameNet DEF Call, AtRest, InCall, slaveVars
<1>1. TypeOK'
  BY DEF TypeOK, Call, Ranges, slaveVars
<1>2. Ledger'
  <2>1. \A i \in Index : (i < r[1] \/ r[2] <= i) => fit'[i] = Genome(i)'
    BY DEF Call, AtRest, InCall, Genome, Ranges, Index
  <2> QED BY <1>0, <2>1 DEF Ledger, Call, Ranges
<1>3. Crew'
  BY <1>0 DEF Crew, Call, Slaves
<1>4. AtRest'
  BY DEF AtRest, InCall, Call
<1> QED BY <1>0, <1>1, <1>2, <1>3, <1>4

(* Both sends of a genome: it goes to an idle slave, and is a new entry.    *)
LEMMA SendKeepsLedger ==
  ASSUME TypeOK, OneJob, Ledger, InCall, InCall', NEW s \in Slaves, ~ Busy(s), current < end,
         SendIndiv(s), UNCHANGED <<begin, end, evaluated, popVars, slaveVars, toMaster>>
  PROVE  Ledger' /\ current' \in 0 .. PopSize
<1>0. /\ current \in Index /\ begin <= current /\ end <= PopSize
      /\ current \in Nat /\ begin \in Nat /\ end \in Nat
  BY DEF Ledger, TypeOK, Index
<1>1. /\ Busy(s)' /\ Tag(s)' = current /\ Val(s)' = Genome(current)
      /\ \A t \in Slaves \ {s} : /\ Busy(t)' <=> Busy(t)
                                 /\ Tag(t)' = Tag(t) /\ Val(t)' = Val(t)
  BY <1>0, SendStep DEF slaveVars
<1>2. current' = current + 1 /\ begin' = begin /\ end' = end
      /\ evaluated' = evaluated /\ gen' = gen /\ fit' = fit /\ slave' = slave
  BY DEF SendIndiv, popVars, slaveVars
<1>3. \A i \in Index : Genome(i)' = Genome(i)
  BY <1>2 DEF Genome
<1>4. ~ evaluated[current]
  BY <1>0 DEF Ledger
<1>5. \A t \in Slaves : Busy(t)' =>
         /\ Tag(t)' \in begin .. current
         /\ ~ evaluated[Tag(t)']
         /\ Val(t)' = Genome(Tag(t)')
  <2> TAKE t \in Slaves
  <2>1. CASE t = s
    BY <1>0, <1>1, <1>4, <2>1
  <2>2. CASE t # s
    BY <1>0, <1>1, <2>2 DEF Ledger
  <2> QED BY <2>1, <2>2
<1>6. \A t, u \in Slaves : Busy(t)' /\ Busy(u)' /\ Tag(t)' = Tag(u)' => t = u
  <2>1. \A t \in Slaves \ {s} : Busy(t)' => Tag(t)' # current
    BY <1>0, <1>1 DEF Ledger
  <2>2. \A t, u \in Slaves \ {s} : Busy(t)' /\ Busy(u)' /\ Tag(t)' = Tag(u)' => t = u
    BY <1>1 DEF Ledger
  <2> QED BY <1>1, <2>1, <2>2
<1>7. \A i \in begin .. current :
        evaluated[i] \/ \E t \in Slaves : Busy(t)' /\ Tag(t)' = i
  <2> TAKE i \in begin .. current
  <2>1. CASE i = current
    BY <1>1, <2>1
  <2>2. CASE i # current /\ ~ evaluated[i]
    <3>1. PICK t \in Slaves : Busy(t) /\ Tag(t) = i
      BY <1>0, <2>2 DEF Ledger
    <3> QED BY <1>1, <3>1
  <2> QED BY <2>1, <2>2
<1>8. begin' .. (current' - 1) = begin .. current
  BY <1>0, <1>2
<1>9. \A t \in Slaves : Busy(t)' => Tag(t)' \in Index
  BY <1>0, <1>5 DEF Index
<1>10. \A i \in Index : evaluated'[i] => begin' <= i /\ i < current'
  BY <1>0, <1>2 DEF Ledger, Index
<1>11. \A i \in Index : (i < begin' \/ end' <= i \/ evaluated'[i]) => fit'[i] = Genome(i)'
  BY <1>2, <1>3 DEF Ledger
<1>12. \A t \in Slaves : slave'[t] # "exited"
  BY <1>2 DEF Ledger
<1>13. \A t \in Slaves : Busy(t)' => Val(t)' = Genome(Tag(t))'
  BY <1>2, <1>5 DEF Genome
<1>14. begin' <= current' /\ current' <= end'
  BY <1>0, <1>2
<1> QED BY <1>0, <1>2, <1>5, <1>6, <1>7, <1>8, <1>10, <1>11, <1>12, <1>13, <1>14 DEF Ledger

LEMMA FirstRoundKeeps ==
  ASSUME IInv, FirstRound
  PROVE  IInv'
<1> USE DEF IInv
<1>0. /\ pc = "first" /\ pc' = "first" /\ cursor < WorldSize /\ current < end
      /\ cursor \in Slaves /\ current \in Index
      /\ SendIndiv(cursor) /\ cursor' = cursor + 1
      /\ UNCHANGED <<begin, end, evaluated, popVars, slaveVars, toMaster>>
  BY DEF FirstRound, Crew, Slaves, Ledger, InCall, TypeOK, Index
<1>1. PICK s \in Slaves : s = cursor
  BY <1>0
<1>2. ~ Busy(s) /\ SendIndiv(s)
  BY <1>0, <1>1 DEF Crew
<1>3. Ledger' /\ current' \in 0 .. PopSize
  BY <1>0, <1>2, SendKeepsLedger DEF InCall
<1>4. /\ toSlave' \in [Slaves -> Seq(Message)] /\ OneJob'
      /\ Busy(s)'
      /\ \A t \in Slaves \ {s} : Busy(t)' <=> Busy(t)
  BY <1>0, <1>2, SendStep DEF slaveVars
<1>5. TypeOK'
  <2>1. cursor' \in Nat
    BY <1>0 DEF TypeOK
  <2>2. UNCHANGED <<pc, calls, begin, end, source, evaluated, done, popVars,
                    slaveVars, toMaster>>
    BY DEF FirstRound
  <2> QED BY <2>1, <2>2, <1>3, <1>4 DEF TypeOK, popVars, slaveVars
<1>6. Crew'
  <2>1. \A t \in Slaves : Busy(t)' <=> t < cursor + 1
    BY <1>0, <1>1, <1>4 DEF Crew, Slaves
  <2> QED BY <1>0, <2>1 DEF Crew, Slaves
<1>7. AtRest'
  BY <1>0 DEF AtRest, InCall
<1> QED BY <1>3, <1>4, <1>5, <1>6, <1>7

LEMMA ReplyKeeps ==
  ASSUME IInv, Reply
  PROVE  IInv'
<1> USE DEF IInv
<1>0. /\ pc = "reply" /\ pc' = "wait" /\ current < end
      /\ source \in Slaves /\ current \in Index
      /\ SendIndiv(source)
      /\ UNCHANGED <<begin, end, evaluated, popVars, slaveVars, toMaster>>
  BY DEF Reply, Crew, Ledger, InCall, TypeOK, Index
<1>1. PICK s \in Slaves : s = source
  BY <1>0
<1>2. ~ Busy(s) /\ SendIndiv(s)
  BY <1>0, <1>1 DEF Crew
<1>3. Ledger' /\ current' \in 0 .. PopSize
  BY <1>0, <1>2, SendKeepsLedger DEF InCall
<1>4. /\ toSlave' \in [Slaves -> Seq(Message)] /\ OneJob'
      /\ Busy(s)'
      /\ \A t \in Slaves \ {s} : Busy(t)' <=> Busy(t)
  BY <1>0, <1>2, SendStep DEF slaveVars
<1>5. TypeOK'
  BY <1>0, <1>3, <1>4 DEF TypeOK, Reply, popVars, slaveVars
<1>6. Crew'
  <2>1. \A t \in Slaves : Busy(t)'
    BY <1>0, <1>1, <1>4 DEF Crew
  <2> QED BY <1>0, <2>1 DEF Crew
<1>7. AtRest'
  BY <1>0 DEF AtRest, InCall
<1> QED BY <1>3, <1>4, <1>5, <1>6, <1>7

LEMMA RecvKeepsLedger ==
  ASSUME TypeOK, OneJob, Ledger, InCall, InCall', NEW s \in Slaves, Recv(s),
         UNCHANGED <<begin, end, current, gen, slaveVars, toSlave>>
  PROVE  Ledger'
<1>1. /\ Busy(s) /\ ~ Busy(s)'
      /\ fit' = [fit EXCEPT ![Tag(s)] = Val(s)]
      /\ evaluated' = [evaluated EXCEPT ![Tag(s)] = TRUE]
      /\ \A t \in Slaves \ {s} : /\ Busy(t)' <=> Busy(t)
                                 /\ Tag(t)' = Tag(t) /\ Val(t)' = Val(t)
  BY RecvStep DEF slaveVars
<1>2. /\ begin' = begin /\ end' = end /\ current' = current
      /\ gen' = gen /\ slave' = slave
      /\ begin \in Nat /\ end \in Nat /\ current \in Nat
      /\ begin <= current /\ current <= end /\ end <= PopSize
  BY DEF slaveVars, Ledger, TypeOK
<1>3. \A i \in Index : Genome(i)' = Genome(i)
  BY <1>2 DEF Genome
<1>4. /\ Tag(s) \in begin .. (current - 1) /\ Tag(s) \in Index
      /\ Val(s) = Genome(Tag(s))
  BY <1>1, <1>2 DEF Ledger, Index
<1>5. /\ evaluated'[Tag(s)] /\ fit'[Tag(s)] = Genome(Tag(s))
      /\ \A i \in Index : i # Tag(s) => evaluated'[i] = evaluated[i] /\ fit'[i] = fit[i]
  BY <1>1, <1>4 DEF TypeOK
<1>6. \A t \in Slaves : Busy(t)' => /\ t # s /\ Busy(t)
                                   /\ Tag(t)' = Tag(t) /\ Val(t)' = Val(t)
  BY <1>1
<1>7. \A t \in Slaves : Busy(t)' =>
        /\ Tag(t)' \in begin .. (current - 1)
        /\ ~ evaluated'[Tag(t)']
        /\ Val(t)' = Genome(Tag(t))'
  <2> SUFFICES ASSUME NEW t \in Slaves, Busy(t)'
               PROVE  /\ Tag(t)' \in begin .. (current - 1)
                      /\ ~ evaluated'[Tag(t)']
                      /\ Val(t)' = Genome(Tag(t))'
    OBVIOUS
  <2>1. /\ t # s /\ Busy(t) /\ Tag(t)' = Tag(t) /\ Val(t)' = Val(t)
    BY <1>6
  <2>2. /\ Tag(t) \in begin .. (current - 1) /\ ~ evaluated[Tag(t)]
        /\ Val(t) = Genome(Tag(t)) /\ Tag(t) # Tag(s)
    BY <1>1, <2>1 DEF Ledger
  <2>3. Tag(t) \in Index
    BY <1>2, <2>2 DEF Index
  <2>4. Genome(Tag(t))' = Genome(Tag(t))
    BY <1>2, <2>1 DEF Genome
  <2> QED BY <1>5, <2>1, <2>2, <2>3, <2>4
<1>8. \A t, u \in Slaves : Busy(t)' /\ Busy(u)' /\ Tag(t)' = Tag(u)' => t = u
  BY <1>6 DEF Ledger
<1>9. \A i \in begin .. (current - 1) :
        evaluated'[i] \/ \E t \in Slaves : Busy(t)' /\ Tag(t)' = i
  <2> TAKE i \in begin .. (current - 1)
  <2>0. i \in Index
    BY <1>2 DEF Index
  <2>1. CASE i = Tag(s) \/ evaluated[i]
    BY <1>5, <2>0, <2>1
  <2>2. CASE i # Tag(s) /\ ~ evaluated[i]
    <3>1. PICK t \in Slaves : Busy(t) /\ Tag(t) = i
      BY <2>2 DEF Ledger
    <3>2. t # s
      BY <2>2, <3>1
    <3> QED BY <1>1, <3>1, <3>2
  <2> QED BY <2>1, <2>2
<1>10. \A i \in Index : evaluated'[i] => begin <= i /\ i < current
  BY <1>2, <1>4, <1>5 DEF Ledger, Index
<1>11. \A i \in Index : (i < begin \/ end <= i \/ evaluated'[i]) => fit'[i] = Genome(i)'
  BY <1>3, <1>5 DEF Ledger
<1> QED BY <1>2, <1>7, <1>8, <1>9, <1>10, <1>11 DEF Ledger

LEMMA WaitKeeps ==
  ASSUME IInv, NEW s \in Slaves, Wait(s)
  PROVE  IInv'
<1> USE DEF IInv
<1>0. /\ pc = "wait" /\ pc' = "reply" /\ current < end /\ source' = s /\ Recv(s)
      /\ UNCHANGED <<calls, begin, end, current, cursor, done, gen, slaveVars, toSlave>>
  BY DEF Wait
<1>1. Ledger'
  BY <1>0, RecvKeepsLedger DEF InCall
<1>2. /\ toMaster' \in [Slaves -> Seq(Message)] /\ OneJob' /\ ~ Busy(s)'
      /\ fit' \in [Index -> Index \X (0 .. MaxCalls)]
      /\ evaluated' \in [Index -> BOOLEAN]
      /\ \A t \in Slaves \ {s} : Busy(t)' <=> Busy(t)
  BY <1>0, RecvStep DEF slaveVars
<1>3. TypeOK'
  <2>1. source' \in Nat
    BY <1>0 DEF Slaves
  <2> QED BY <1>0, <1>2, <2>1 DEF TypeOK, slaveVars
<1>4. Crew'
  BY <1>0, <1>2 DEF Crew
<1>5. AtRest'
  BY <1>0 DEF AtRest, InCall
<1> QED BY <1>1, <1>2, <1>3, <1>4, <1>5

LEMMA JoinRecvKeeps ==
  ASSUME IInv, NEW s \in Slaves, JoinRecv(s)
  PROVE  IInv'
<1> USE DEF IInv
<1>0. /\ pc = "join" /\ pc' = "join" /\ done' = FALSE /\ cursor' = cursor + 1 /\ Recv(s)
      /\ UNCHANGED <<calls, begin, end, current, source, gen, slaveVars, toSlave>>
  BY DEF JoinRecv
<1>1. Ledger'
  BY <1>0, RecvKeepsLedger DEF InCall
<1>2. /\ toMaster' \in [Slaves -> Seq(Message)] /\ OneJob'
      /\ fit' \in [Index -> Index \X (0 .. MaxCalls)]
      /\ evaluated' \in [Index -> BOOLEAN]
  BY <1>0, RecvStep DEF slaveVars
<1>3. TypeOK'
  <2>1. cursor' \in Nat
    BY <1>0 DEF TypeOK
  <2> QED BY <1>0, <1>2, <2>1 DEF TypeOK, slaveVars
<1>4. Crew'
  BY <1>0 DEF Crew, TypeOK
<1>5. AtRest'
  BY <1>0 DEF AtRest, InCall
<1> QED BY <1>1, <1>2, <1>3, <1>4, <1>5

(* The master's steps that move no message. *)
LEMMA LoopKeeps ==
  ASSUME IInv, EndFirstRound \/ BeginJoin \/ JoinSkip \/ JoinAgain
  PROVE  IInv'
<1> USE DEF IInv
<1>0. /\ UNCHANGED <<calls, begin, end, current, source, evaluated, popVars,
                      slaveVars, toSlave, toMaster>>
      /\ InCall /\ InCall'
  BY DEF EndFirstRound, BeginJoin, JoinSkip, JoinAgain, callVars, InCall
<1>1. /\ OneJob'
      /\ \A t \in Slaves : /\ Busy(t)' <=> Busy(t)
                           /\ Tag(t)' = Tag(t) /\ Val(t)' = Val(t)
  BY <1>0, SameNet
<1>2. TypeOK'
  <2>1. /\ cursor' \in Nat /\ done' \in BOOLEAN
        /\ pc' \in {"idle", "first", "wait", "reply", "join", "bye", "finalized"}
    <3>1. CASE EndFirstRound
      BY <3>1 DEF EndFirstRound, callVars, TypeOK
    <3>2. CASE BeginJoin
      BY <3>2 DEF BeginJoin, TypeOK
    <3>3. CASE JoinSkip
      BY <3>3 DEF JoinSkip, TypeOK
    <3>4. CASE JoinAgain
      BY <3>4 DEF JoinAgain, TypeOK
    <3> QED BY <3>1, <3>2, <3>3, <3>4
  <2> QED BY <1>0, <2>1 DEF TypeOK, popVars, slaveVars
<1>3. Ledger'
  <2>1. \A i : Genome(i)' = Genome(i)
    BY <1>0 DEF Genome, popVars
  <2> QED BY <1>0, <1>1, <2>1 DEF Ledger, popVars, slaveVars
<1>4. Crew'
  <2>1. CASE EndFirstRound
    BY <1>1, <2>1 DEF EndFirstRound, Crew, callVars, Slaves, TypeOK
  <2>2. CASE BeginJoin
    <3>1. current = end /\ begin \in Nat
      BY <2>2 DEF BeginJoin, Ledger, InCall, TypeOK
    <3> QED BY <2>2, <3>1 DEF BeginJoin, Crew, Index
  <2>3. CASE JoinSkip
    <3>1. /\ pc = "join" /\ pc' = "join" /\ cursor' = cursor + 1 /\ done' = done
          /\ evaluated[cursor] /\ cursor \in Nat /\ begin \in Nat
      BY <2>3 DEF JoinSkip, TypeOK
    <3>2. \A i \in Index : i < cursor + 1 => i < cursor \/ i = cursor
      BY <3>1 DEF Index
    <3> QED BY <1>0, <3>1, <3>2 DEF Crew
  <2>4. CASE JoinAgain
    BY <1>0, <2>4 DEF JoinAgain, Crew, TypeOK, Index
  <2> QED BY <2>1, <2>2, <2>3, <2>4
<1>5. AtRest'
  BY <1>0 DEF AtRest
<1> QED BY <1>1, <1>2, <1>3, <1>4, <1>5

(* When the join ends every individual of the call is evaluated, so nobody  *)
(* holds anything: the conclusion the whole bookkeeping is for.             *)
LEMMA AllEvaluated ==
  ASSUME IInv, pc = "join", cursor >= end, done
  PROVE  /\ \A i \in Index : begin <= i /\ i < end => evaluated[i]
         /\ \A s \in Slaves : ~ Busy(s)
         /\ \A i \in Index : fit[i] = Genome(i)
<1> USE DEF IInv
<1>1. /\ current = end /\ begin \in Nat /\ end \in Nat /\ cursor \in Nat
      /\ end <= PopSize
  BY DEF Crew, TypeOK
<1>2. \A i \in Index : begin <= i /\ i < end => evaluated[i]
  BY <1>1 DEF Crew, Index
<1>3. \A s \in Slaves : ~ Busy(s)
  <2> SUFFICES ASSUME NEW s \in Slaves, Busy(s) PROVE FALSE
    OBVIOUS
  <2>1. Tag(s) \in begin .. (end - 1) /\ ~ evaluated[Tag(s)]
    BY <1>1 DEF Ledger, InCall
  <2> QED BY <1>1, <1>2, <2>1 DEF Index
<1>4. \A i \in Index : fit[i] = Genome(i)
  BY <1>1, <1>2 DEF Ledger, InCall, Index
<1> QED BY <1>2, <1>3, <1>4

LEMMA ReturnKeeps ==
  ASSUME IInv, Return
  PROVE  IInv'
<1> USE DEF IInv
<1>0. /\ pc = "join" /\ cursor >= end /\ done /\ pc' = "idle"
      /\ UNCHANGED <<calls, callVars, popVars, slaveVars, toSlave, toMaster>>
  BY DEF Return
<1>1. OneJob' /\ \A t \in Slaves : Busy(t)' <=> Busy(t)
  BY <1>0, SameNet
<1>2. TypeOK'
  BY <1>0 DEF TypeOK, callVars, popVars, slaveVars
<1>3. Ledger' /\ Crew'
  BY <1>0 DEF Ledger, Crew, InCall
<1>4. AtRest'
  <2>1. \A i \in Index : fit'[i] = Genome(i)'
    BY <1>0, AllEvaluated DEF Genome, popVars
  <2>2. \A s \in Slaves : ~ Busy(s)' /\ slave'[s] # "exited"
    BY <1>0, <1>1, AllEvaluated DEF Ledger, InCall, slaveVars
  <2> QED BY <1>0, <2>1, <2>2 DEF AtRest, InCall
<1> QED BY <1>1, <1>2, <1>3, <1>4

LEMMA QuitKeeps ==
  ASSUME IInv, Destroy \/ Finalize
  PROVE  IInv'
<1> USE DEF IInv
<1>0. /\ UNCHANGED <<calls, begin, end, current, source, evaluated, done, popVars,
                      slaveVars, toSlave, toMaster>>
      /\ pc \in {"idle", "bye"} /\ pc' \in {"bye", "finalized"}
      /\ cursor' \in Nat
  BY DEF Destroy, Finalize, callVars, TypeOK
<1>1. OneJob'
  BY <1>0, SameNet
<1>2. TypeOK'
  BY <1>0 DEF TypeOK, popVars, slaveVars
<1>3. Ledger' /\ Crew'
  BY <1>0 DEF Ledger, Crew, InCall
<1>4. AtRest'
  <2>1. \A i \in Index : fit'[i] = Genome(i)'
    BY <1>0 DEF AtRest, InCall, Genome, popVars
  <2>2. CASE Destroy
    <3>1. pc = "idle" /\ cursor' = 1
      BY <2>2 DEF Destroy
    <3>2. \A s \in Slaves : ~ (s < 1)
      BY DEF Slaves
    <3>3. \A s \in Slaves : ~ Busy(s) /\ slave[s] # "exited"
      BY <3>1 DEF AtRest, InCall
    <3> QED BY <1>0, <2>1, <3>1, <3>2, <3>3 DEF AtRest, Busy, slaveVars
  <2>3. CASE Finalize
    <3>1. pc = "bye" /\ cursor' = cursor
      BY <2>3 DEF Finalize, callVars
    <3> QED BY <1>0, <2>1, <3>1 DEF AtRest, InCall, slaveVars
  <2> QED BY <2>2, <2>3
<1> QED BY <1>1, <1>2, <1>3, <1>4

LEMMA SendByeKeeps ==
  ASSUME IInv, SendBye
  PROVE  IInv'
<1> USE DEF IInv
<1>0. /\ pc = "bye" /\ pc' = "bye" /\ cursor \in Slaves /\ cursor' = cursor + 1
      /\ UNCHANGED <<calls, begin, end, current, source, evaluated, done, popVars,
                      slaveVars, toMaster>>
  BY DEF SendBye, AtRest, InCall, Slaves
<1>1. PICK s \in Slaves : s = cursor
  BY <1>0
<1>2. PICK m \in ByeModes : toSlave' = [toSlave EXCEPT ![s] =
         Append(@, [tag |-> MaxTag, val |-> <<0, 0>>, mode |-> m])]
  BY <1>1 DEF SendBye
<1> DEFINE msg == [tag |-> MaxTag, val |-> <<0, 0>>, mode |-> m]
<1>3. msg \in Message
  BY DEF Message, Index
<1>4. \A t \in Slaves :
        /\ slave[t] # "eval" /\ toMaster[t] = <<>>
        /\ toSlave[t] # <<>> => Head(toSlave[t]).tag = MaxTag
        /\ toSlave[t] # <<>> <=> t < cursor
        /\ slave[t] = "exited" => t < cursor
  BY <1>0 DEF AtRest, InCall
<1>5. toSlave' = [toSlave EXCEPT ![s] = <<msg>>]
  <2>1. toSlave[s] = <<>>
    <3>1. ~ (s < cursor)
      BY <1>1 DEF Slaves
    <3> QED BY <1>4, <3>1
  <2>2. Append(toSlave[s], msg) = <<msg>>
    BY <2>1
  <2> QED BY <1>2, <2>2
<1>6. /\ toSlave' \in [Slaves -> Seq(Message)]
      /\ toSlave'[s] = <<msg>>
      /\ \A t \in Slaves \ {s} : toSlave'[t] = toSlave[t]
  <2>1. <<msg>> \in Seq(Message)
    BY <1>3
  <2> HIDE DEF msg
  <2> QED BY <1>5, <2>1 DEF TypeOK
<1>7. Head(<<msg>>).tag = MaxTag
  OBVIOUS
<1> HIDE DEF msg
<1>8. OneJob'
  <2>1. Len(toSlave'[s]) <= 1
    BY <1>6
  <2>2. \A t \in Slaves : Len(toSlave'[t]) <= 1
    <3> TAKE t \in Slaves
    <3>1. CASE t = s
      BY <2>1, <3>1
    <3>2. CASE t # s
      <4>1. toSlave'[t] = toSlave[t]
        BY <1>6, <3>2
      <4> QED BY <4>1 DEF OneJob
    <3> QED BY <3>1, <3>2
  <2> QED BY <1>0, <1>4, <2>2 DEF OneJob, slaveVars
<1>9. TypeOK'
  <2>1. cursor' \in Nat
    BY <1>0 DEF TypeOK
  <2> QED BY <1>0, <1>6, <2>1 DEF TypeOK, popVars, slaveVars
<1>10. Ledger' /\ Crew'
  BY <1>0 DEF Ledger, Crew, InCall
<1>11. AtRest'
  <2>1. \A i \in Index : fit'[i] = Genome(i)'
    BY <1>0 DEF AtRest, InCall, Genome, popVars
  <2>2. \A t \in Slaves :
          /\ toSlave'[t] # <<>> => Head(toSlave'[t]).tag = MaxTag
          /\ toSlave'[t] # <<>> <=> t < cursor + 1
          /\ slave[t] = "exited" => t < cursor + 1
    <3> TAKE t \in Slaves
    <3>1. CASE t = s
      BY <1>1, <1>4, <1>6, <1>7, <3>1 DEF Slaves
    <3>2. CASE t # s
      <4>1. t < cursor <=> t < cursor + 1
        BY <1>1, <3>2 DEF Slaves
      <4>2. toSlave'[t] = toSlave[t]
        BY <1>6, <3>2
      <4> QED BY <1>4, <4>1, <4>2
    <3> QED BY <3>1, <3>2
  <2>3. cursor' \in 1 .. WorldSize
    BY <1>0 DEF Slaves
  <2> QED BY <1>0, <1>4, <2>1, <2>2, <2>3 DEF AtRest, slaveVars
<1> QED BY <1>8, <1>9, <1>10, <1>11

(* What a slave does changes neither who is busy nor with what. *)
LEMMA SlaveKeeps ==
  ASSUME IInv, NEW s \in Slaves, SlaveStep(s)
  PROVE  IInv'
<1> USE DEF IInv
<1>0. UNCHANGED <<pc, calls, callVars, popVars>>
  BY DEF SlaveStep, Enter, Take, Answer, Quit
<1>1. /\ OneJob'
      /\ \A t \in Slaves : /\ Busy(t)' <=> Busy(t)
                           /\ Tag(t)' = Tag(t) /\ Val(t)' = Val(t)
  <2>1. CASE Enter(s)
    BY <2>1 DEF Enter, OneJob, Busy, Held, Tag, Val, TypeOK
  <2>2. CASE Take(s)
    BY <2>2, TakeStep
  <2>3. CASE Answer(s)
    BY <2>3, AnswerStep
  <2>4. CASE Quit(s)
    BY <2>4 DEF Quit, OneJob, Busy, Held, Tag, Val, TypeOK
  <2> QED BY <2>1, <2>2, <2>3, <2>4 DEF SlaveStep
<1>2. TypeOK'
  <2>1. CASE Enter(s) \/ Quit(s)
    BY <1>0, <2>1 DEF Enter, Quit, TypeOK, callVars, popVars
  <2>2. CASE Take(s)
    BY <1>0, <2>2, TakeStep DEF Take, TypeOK, callVars, popVars
  <2>3. CASE Answer(s)
    BY <1>0, <2>3, AnswerStep DEF Answer, TypeOK, callVars, popVars
  <2> QED BY <2>1, <2>2, <2>3 DEF SlaveStep
<1>3. \A t \in Slaves : slave'[t] = "exited" =>
        slave[t] = "exited" \/ (t = s /\ Quit(s))
  BY DEF SlaveStep, Enter, Take, Answer, Quit, TypeOK
<1>4. InCall => \A t \in Slaves : slave'[t] # "exited"
  <2> SUFFICES ASSUME InCall, Quit(s) PROVE FALSE
    BY <1>3 DEF Ledger
  <2>1. Busy(s) /\ Tag(s) = MaxTag
    BY DEF Quit, Busy, Tag, Held
  <2>2. MaxTag \in begin .. (current - 1) /\ current <= PopSize
    BY <2>1 DEF Ledger, TypeOK
  <2> QED BY <2>2 DEF TypeOK
<1>5. Ledger'
  BY <1>0, <1>1, <1>4 DEF Ledger, InCall, Genome, callVars, popVars
<1>6. Crew'
  BY <1>0, <1>1 DEF Crew, callVars
<1>7. AtRest'
  <2>1. pc = "idle" => ~ Quit(s)
    BY DEF AtRest, InCall, Quit, Busy
  <2>2. ASSUME pc \in {"bye", "finalized"}
        PROVE  UNCHANGED <<toSlave, toMaster>> /\ slave'[s] # "eval"
               /\ (Quit(s) => s < cursor)
    <3>1. ~ Take(s) /\ ~ Answer(s)
      BY <2>2 DEF AtRest, InCall, Take, Answer
    <3> QED BY <2>2, <3>1 DEF SlaveStep, Enter, Quit, AtRest, InCall, TypeOK
  <2>3. \A t \in Slaves \ {s} : slave'[t] = slave[t]
    BY DEF SlaveStep, Enter, Take, Answer, Quit, TypeOK
  <2>4. ASSUME pc \in {"bye", "finalized"}
        PROVE  AtRest'
    BY <1>0, <1>3, <2>2, <2>3, <2>4 DEF AtRest, InCall, Genome, callVars, popVars
  <2>5. ASSUME pc = "idle"
        PROVE  AtRest'
    BY <1>0, <1>1, <1>3, <2>1, <2>5 DEF AtRest, InCall, Genome, popVars
  <2> QED BY <1>0, <2>4, <2>5 DEF AtRest, InCall, TypeOK
<1> QED BY <1>1, <1>2, <1>5, <1>6, <1>7

LEMMA StutterKeeps ==
  ASSUME IInv, UNCHANGED vars
  PROVE  IInv'
<1> USE DEF IInv
<1>0. UNCHANGED <<pc, calls, callVars, popVars, slaveVars, toSlave, toMaster>>
  BY DEF vars
<1>1. /\ OneJob'
      /\ \A t \in Slaves : /\ Busy(t)' <=> Busy(t)
                           /\ Tag(t)' = Tag(t) /\ Val(t)' = Val(t)
  BY <1>0, SameNet
<1>2. TypeOK'
  BY <1>0 DEF TypeOK, callVars, popVars, slaveVars
<1>3. Ledger'
  BY <1>0, <1>1 DEF Ledger, InCall, Genome, callVars, popVars, slaveVars
<1>4. Crew'
  BY <1>0, <1>1 DEF Crew, callVars
<1>5. AtRest'
  BY <1>0, <1>1 DEF AtRest, InCall, Genome, callVars, popVars, slaveVars
<1> QED BY <1>1, <1>2, <1>3, <1>4, <1>5

(* The bookkeeping of the master and of the messages is an invariant, for   *)
(* any number of slaves and individuals and any buffering (mpi.hpp:71-178). *)
THEOREM Invariance == Spec => []IInv
<1>1. IInv /\ [Next]_vars => IInv'
  <2> SUFFICES ASSUME IInv, [Next]_vars PROVE IInv'
    OBVIOUS
  <2>1. ASSUME NEW r \in Ranges, Call(r) PROVE IInv'
    BY <2>1, CallKeeps
  <2>2. CASE MasterInCall
    BY <2>2, FirstRoundKeeps, ReplyKeeps, WaitKeeps, JoinRecvKeeps, LoopKeeps,
       ReturnKeeps DEF MasterInCall
  <2>3. CASE Destroy \/ MasterQuits
    BY <2>3, QuitKeeps, SendByeKeeps DEF MasterQuits
  <2>4. ASSUME NEW s \in Slaves, SlaveStep(s) PROVE IInv'
    BY <2>4, SlaveKeeps
  <2>5. CASE UNCHANGED vars
    BY <2>5, StutterKeeps
  <2> QED BY <2>1, <2>2, <2>3, <2>4, <2>5 DEF Next
<1> QED BY InitIInv, <1>1, PTL DEF Spec

-----------------------------------------------------------------------------
(* What the invariant says of the messages themselves.                      *)

LEMMA OneMessage ==
  ASSUME NEW M, NEW q \in Seq(M), q # <<>>, Len(q) <= 1
  PROVE  DOMAIN q = {1} /\ Head(q) = q[1]
<1>1. Len(q) \in Nat /\ Len(q) # 0
  BY EmptySeq
<1>2. Len(q) = 1
  <2>1. \A n \in Nat : n # 0 /\ n <= 1 => n = 1
    OBVIOUS
  <2> QED BY <1>1, <2>1, Zenon
<1>3. DOMAIN q = 1 .. Len(q)
  OBVIOUS
<1>4. DOMAIN q = {1}
  BY <1>2, <1>3
<1> QED BY <1>4

LEMMA OutstandingIsHeld ==
  ASSUME IInv, NEW s \in Slaves
  PROVE  Outstanding(s) = IF InCall /\ Busy(s) THEN {<<Tag(s), Val(s)>>} ELSE {}
<1> USE DEF IInv
<1>1. CASE InCall /\ toSlave[s] # <<>>
  <2>1. /\ Busy(s) /\ Held(s) = Head(toSlave[s])
        /\ slave[s] # "eval" /\ toMaster[s] = <<>>
    BY <1>1 DEF Busy, Held, OneJob
  <2>2. DOMAIN toSlave[s] = {1} /\ Head(toSlave[s]) = toSlave[s][1]
    <3>1. toSlave[s] \in Seq(Message) /\ Len(toSlave[s]) <= 1
      BY DEF OneJob, TypeOK
    <3> QED BY <1>1, <3>1, OneMessage
  <2>3. Tag(s) # MaxTag
    BY <1>1, <2>1 DEF Ledger, TypeOK
  <2> QED BY <1>1, <2>1, <2>2, <2>3 DEF Outstanding, Tag, Val
<1>2. CASE toSlave[s] = <<>> /\ slave[s] = "eval"
  <2>1. InCall /\ Busy(s) /\ Held(s) = job[s] /\ toMaster[s] = <<>>
    BY <1>2 DEF Busy, Held, OneJob, AtRest, InCall, TypeOK
  <2> QED BY <1>2, <2>1 DEF Outstanding, Tag, Val
<1>3. CASE toSlave[s] = <<>> /\ slave[s] # "eval" /\ toMaster[s] # <<>>
  <2>1. InCall /\ Busy(s) /\ Held(s) = Head(toMaster[s])
    BY <1>3 DEF Busy, Held, AtRest, InCall, TypeOK
  <2>2. DOMAIN toMaster[s] = {1} /\ Head(toMaster[s]) = toMaster[s][1]
    <3>1. toMaster[s] \in Seq(Message) /\ Len(toMaster[s]) <= 1
      BY DEF OneJob, TypeOK
    <3> QED BY <1>3, <3>1, OneMessage
  <2> QED BY <1>3, <2>1, <2>2 DEF Outstanding, Tag, Val
<1>4. CASE toSlave[s] = <<>> /\ slave[s] # "eval" /\ toMaster[s] = <<>>
  <2>1. ~ Busy(s)
    BY <1>4 DEF Busy
  <2> QED BY <1>4, <2>1 DEF Outstanding
<1>5. CASE ~ InCall /\ toSlave[s] # <<>>
  <2>1. pc \in {"bye", "finalized"} /\ slave[s] # "eval" /\ toMaster[s] = <<>>
        /\ Head(toSlave[s]).tag = MaxTag
    BY <1>5 DEF AtRest, InCall, Busy, TypeOK
  <2>2. DOMAIN toSlave[s] = {1} /\ Head(toSlave[s]) = toSlave[s][1]
    <3>1. toSlave[s] \in Seq(Message) /\ Len(toSlave[s]) <= 1
      BY DEF OneJob, TypeOK
    <3> QED BY <1>5, <3>1, OneMessage
  <2> QED BY <1>5, <2>1, <2>2 DEF Outstanding
<1> QED BY <1>1, <1>2, <1>3, <1>4, <1>5

(* Wherever the master blocks in probe(), a slave owes it a fitness: the    *)
(* loops of _master_loop never wait for an answer nobody will send.         *)
THEOREM NeverWaitsForNothing == Spec => []NoLostWait
<1>1. IInv => NoLostWait
  <2> SUFFICES ASSUME IInv, Waiting PROVE \E s \in Slaves : Outstanding(s) # {}
    BY DEF NoLostWait
  <2>1. InCall
    BY DEF Waiting, InCall
  <2>2. \E s \in Slaves : Busy(s)
    <3>1. CASE pc = "wait" /\ current < end
      <4>1. 1 \in Slaves
        BY DEF Slaves
      <4> QED BY <3>1, <4>1 DEF IInv, Crew
    <3>2. CASE pc = "join" /\ cursor < end /\ ~ evaluated[cursor]
      <4>1. cursor \in begin .. (current - 1)
        BY <3>2 DEF IInv, Crew, TypeOK
      <4> QED BY <2>1, <3>2, <4>1 DEF IInv, Ledger
    <3> QED BY <3>1, <3>2 DEF Waiting
  <2> QED BY <2>1, <2>2, OutstandingIsHeld
<1> QED BY Invariance, <1>1, PTL

(* Each individual sent and not yet evaluated is with exactly one slave,    *)
(* under its own tag and with its present genome, and with none between     *)
(* two calls: nothing is lost, sent twice, mixed up or left over.           *)
THEOREM WorkIsAccounted == Spec => []Accounted
<1>1. IInv => Accounted
  <2> SUFFICES ASSUME IInv PROVE Accounted
    OBVIOUS
  <2>1. ASSUME NEW s \in Slaves, NEW m \in Outstanding(s)
        PROVE  /\ InCall
               /\ m[1] \in begin .. (current - 1)
               /\ ~ evaluated[m[1]]
               /\ m[2] = Genome(m[1])
               /\ \A t \in Slaves \ {s} : m \notin Outstanding(t)
    <3>1. InCall /\ Busy(s) /\ m = <<Tag(s), Val(s)>>
      BY <2>1, OutstandingIsHeld
    <3>2. \A t \in Slaves \ {s} : Busy(t) => Tag(t) # Tag(s)
      BY <3>1 DEF IInv, Ledger
    <3>3. \A t \in Slaves \ {s} : m \notin Outstanding(t)
      BY <3>1, <3>2, OutstandingIsHeld
    <3> QED BY <3>1, <3>3 DEF IInv, Ledger
  <2>2. ASSUME InCall, NEW i \in begin .. (current - 1), ~ evaluated[i]
        PROVE  \E s \in Slaves : <<i, Genome(i)>> \in Outstanding(s)
    <3>1. PICK s \in Slaves : Busy(s) /\ Tag(s) = i
      BY <2>2 DEF IInv, Ledger
    <3>2. Val(s) = Genome(i)
      BY <2>2, <3>1 DEF IInv, Ledger
    <3> QED BY <2>2, <3>1, <3>2, OutstandingIsHeld
  <2> QED BY <2>1, <2>2 DEF Accounted
<1> QED BY Invariance, <1>1, PTL

LEMMA HeldIsDue ==
  ASSUME IInv, InCall, NEW s \in Slaves, Busy(s)
  PROVE  /\ Tag(s) \in Index /\ begin <= Tag(s) /\ Tag(s) < end
         /\ ~ evaluated[Tag(s)] /\ Val(s) = Genome(Tag(s))
<1>1. /\ Tag(s) \in begin .. (current - 1) /\ begin <= current /\ current <= end
      /\ ~ evaluated[Tag(s)] /\ Val(s) = Genome(Tag(s))
  BY DEF IInv, Ledger
<1>2. begin \in Nat /\ current \in Nat /\ end \in Nat /\ end <= PopSize
  BY DEF IInv, TypeOK
<1> QED BY <1>1, <1>2 DEF Index

(* A slave quits only after the last call, and owes nothing then: the tag   *)
(* of an individual is never taken for the quit tag (mpi.hpp:159).          *)
THEOREM SlavesExitClean == Spec => []CleanExit
<1>1. IInv => CleanExit
  <2> SUFFICES ASSUME IInv, NEW s \in Slaves, slave[s] = "exited"
               PROVE  pc \in {"bye", "finalized"} /\ Outstanding(s) = {}
    BY DEF CleanExit
  <2>1. pc \in {"bye", "finalized"}
    BY DEF IInv, Ledger, AtRest, InCall, TypeOK
  <2> QED BY <2>1, OutstandingIsHeld DEF InCall
<1> QED BY Invariance, <1>1, PTL

(* Each fitness the master receives is the first for its individual.        *)
THEOREM ReceiptsAreNew == Spec => EachReceiptIsNew
<1> DEFINE Shrinks == \E s \in Slaves : Len(toMaster'[s]) < Len(toMaster[s])
           New == \E i \in Index : ~ evaluated[i] /\ evaluated'[i]
<1>1. ASSUME IInv, NEW s \in Slaves, Recv(s), InCall,
             UNCHANGED <<slaveVars, toSlave>>
      PROVE  New
  <2>1. Busy(s) /\ evaluated' = [evaluated EXCEPT ![Tag(s)] = TRUE]
    BY <1>1, RecvStep DEF IInv, slaveVars
  <2>2. Tag(s) \in Index /\ ~ evaluated[Tag(s)]
    BY <1>1, <2>1, HeldIsDue
  <2>3. evaluated'[Tag(s)]
    <3>1. evaluated \in [Index -> BOOLEAN]
      BY <1>1 DEF IInv, TypeOK
    <3> QED BY <2>1, <2>2, <3>1
  <2> QED BY <2>2, <2>3
<1>2. ASSUME IInv, UNCHANGED toMaster
      PROVE  ~ Shrinks
  <2>1. \A s \in Slaves : Len(toMaster[s]) \in Nat
    BY <1>2 DEF IInv, TypeOK
  <2> QED BY <1>2, <2>1
<1>3. ASSUME IInv, NEW s \in Slaves, Answer(s)
      PROVE  ~ Shrinks
  <2>1. toMaster[s] = <<>>
    BY <1>3 DEF IInv, OneJob, Answer
  <2>2. Len(toMaster[s]) = 0
    BY <2>1
  <2>3. \A t \in Slaves \ {s} : toMaster'[t] = toMaster[t]
    BY <1>3 DEF IInv, TypeOK, Answer
  <2>4. \A t \in Slaves : Len(toMaster[t]) \in Nat /\ Len(toMaster'[t]) \in Nat
    <3>1. toMaster \in [Slaves -> Seq(Message)] /\ toMaster' \in [Slaves -> Seq(Message)]
      BY <1>3, AnswerStep DEF IInv, TypeOK
    <3> QED BY <3>1
  <2> QED BY <2>2, <2>3, <2>4
<1>4. IInv /\ [Next]_vars => [Shrinks => New]_vars
  <2> SUFFICES ASSUME IInv, Next PROVE Shrinks => New
    OBVIOUS
  <2>1. ASSUME NEW s \in Slaves, Wait(s) \/ JoinRecv(s) PROVE New
    BY <2>1, <1>1 DEF Wait, JoinRecv, InCall
  <2>2. ASSUME NEW s \in Slaves, SlaveStep(s) PROVE ~ Shrinks
    BY <2>2, <1>2, <1>3 DEF SlaveStep, Enter, Take, Quit
  <2>3. ASSUME \/ FirstRound \/ EndFirstRound \/ Reply \/ BeginJoin
               \/ JoinSkip \/ JoinAgain \/ Return \/ Destroy \/ MasterQuits
               \/ \E r \in Ranges : Call(r)
               \/ UNCHANGED vars
        PROVE  ~ Shrinks
    <3>1. UNCHANGED toMaster
      BY <2>3 DEF FirstRound, EndFirstRound, Reply, BeginJoin, JoinSkip, JoinAgain,
         Return, Destroy, MasterQuits, SendBye, Finalize, Call, vars
    <3> QED BY <3>1, <1>2
  <2> QED BY <2>1, <2>2, <2>3 DEF Next, MasterInCall
<1> QED BY Invariance, <1>4, PTL DEF Spec, EachReceiptIsNew

-----------------------------------------------------------------------------
(* The master and its slaves implement the evaluator's contract.            *)

Todo == IF InCall
        THEN {i \in Index : begin <= i /\ i < end /\ ~ evaluated[i]} ELSE {}
Phase == IF pc \in {"bye", "finalized"} THEN "closed"
         ELSE IF pc = "idle" THEN "idle" ELSE "busy"

LEMMA RecvIsEvalOne ==
  ASSUME IInv, NEW s \in Slaves, Recv(s), InCall, InCall',
         UNCHANGED <<calls, begin, end, gen, slaveVars, toSlave>>
  PROVE  \E i \in Index : Batch!EvalOne(i)
<1>1. /\ Busy(s)
      /\ fit' = [fit EXCEPT ![Tag(s)] = Val(s)]
      /\ evaluated' = [evaluated EXCEPT ![Tag(s)] = TRUE]
  BY RecvStep DEF IInv, slaveVars
<1>2. /\ Tag(s) \in Index /\ begin <= Tag(s) /\ Tag(s) < end
      /\ ~ evaluated[Tag(s)] /\ Val(s) = Genome(Tag(s))
  BY <1>1, HeldIsDue
<1> DEFINE i == Tag(s)
<1>3. i \in Index /\ i \in Todo
  BY <1>2 DEF Todo
<1>4. Todo' = Todo \ {i}
  BY <1>1, <1>2 DEF Todo, IInv, TypeOK
<1>5. Phase = "busy" /\ Phase' = "busy"
  BY DEF Phase, InCall
<1>6. fit' = [fit EXCEPT ![i] = Batch!Genome(i)] /\ UNCHANGED <<calls, gen>>
  BY <1>1, <1>2 DEF Genome, Batch!Genome
<1> QED BY <1>3, <1>4, <1>5, <1>6 DEF Batch!EvalOne, Phase, Todo

LEMMA CallIsBegin ==
  ASSUME IInv, NEW r \in Ranges, Call(r)
  PROVE  Batch!Begin(r)
<1>1. pc = "idle" /\ pc' = "first" /\ begin' = r[1] /\ end' = r[2]
      /\ evaluated' = [i \in Index |-> FALSE]
  BY DEF Call
<1>2. Phase = "idle" /\ Phase' = "busy"
  BY <1>1 DEF Phase
<1>3. Todo' = {i \in Index : r[1] <= i /\ i < r[2]}
  BY <1>1 DEF Todo, InCall
<1>4. gen' = Batch!Renewed(r, calls + 1)
  BY DEF Call, Batch!Renewed, Index, Batch!Index
<1> QED BY <1>2, <1>3, <1>4 DEF Batch!Begin, Phase, Todo, Call, Batch!Index, Index

(* The steps of the protocol the algorithm sees nothing of. *)
LEMMA HiddenSteps ==
  ASSUME IInv, UNCHANGED <<calls, popVars, begin, end, evaluated>>,
         \/ InCall /\ InCall'
         \/ UNCHANGED pc
         \/ pc \in {"bye", "finalized"} /\ pc' \in {"bye", "finalized"}
  PROVE  UNCHANGED Batch!vars
<1>1. Phase' = Phase
  BY DEF Phase, InCall
<1>2. Todo' = Todo
  BY DEF Todo, InCall
<1> QED BY <1>1, <1>2 DEF Batch!vars, Phase, Todo, popVars

LEMMA StepIsBatchStep ==
  ASSUME IInv, [Next]_vars
  PROVE  [Batch!Next]_(Batch!vars)
<1>1. ASSUME NEW r \in Ranges, Call(r) PROVE Batch!Next
  <2>1. r \in Batch!Ranges
    BY DEF Ranges, Batch!Ranges
  <2> QED BY <1>1, <2>1, CallIsBegin DEF Batch!Next
<1>2. ASSUME NEW s \in Slaves, Wait(s) \/ JoinRecv(s) PROVE Batch!Next
  <2>1. \E i \in Index : Batch!EvalOne(i)
    BY <1>2, RecvIsEvalOne DEF Wait, JoinRecv, InCall
  <2> QED BY <2>1 DEF Batch!Next, Batch!Index, Index
<1>3. CASE Return
  <2>1. /\ pc = "join" /\ pc' = "idle"
        /\ UNCHANGED <<calls, popVars>>
        /\ \A i \in Index : begin <= i /\ i < end => evaluated[i]
    BY <1>3, AllEvaluated DEF Return
  <2>2. Phase = "busy" /\ Phase' = "idle"
    BY <2>1 DEF Phase
  <2>3. Todo = {} /\ Todo' = {}
    BY <2>1 DEF Todo, InCall
  <2> QED BY <2>1, <2>2, <2>3 DEF Batch!Next, Batch!Return, Phase, Todo, popVars
<1>4. CASE Destroy
  <2>1. /\ pc = "idle" /\ pc' = "bye" /\ UNCHANGED <<calls, popVars>>
    BY <1>4 DEF Destroy
  <2>2. Phase = "idle" /\ Phase' = "closed" /\ Todo = {} /\ Todo' = {}
    BY <2>1 DEF Phase, Todo, InCall
  <2> QED BY <2>1, <2>2 DEF Batch!Next, Batch!Close, Phase, Todo, popVars
<1>5. CASE \/ FirstRound \/ EndFirstRound \/ Reply \/ BeginJoin
           \/ JoinSkip \/ JoinAgain \/ MasterQuits
  <2>1. UNCHANGED <<calls, popVars, begin, end, evaluated>>
    BY <1>5 DEF FirstRound, EndFirstRound, Reply, BeginJoin, JoinSkip, JoinAgain,
       MasterQuits, SendBye, Finalize, callVars
  <2>2. \/ InCall /\ InCall'
        \/ pc \in {"bye", "finalized"} /\ pc' \in {"bye", "finalized"}
    BY <1>5 DEF FirstRound, EndFirstRound, Reply, BeginJoin, JoinSkip, JoinAgain,
       MasterQuits, SendBye, Finalize, InCall
  <2> QED BY <2>1, <2>2, HiddenSteps
<1>6. CASE (\E s \in Slaves : SlaveStep(s)) \/ UNCHANGED vars
  <2>1. UNCHANGED <<pc, calls, popVars, callVars>>
    BY <1>6 DEF SlaveStep, Enter, Take, Answer, Quit, vars
  <2> QED BY <2>1, HiddenSteps DEF callVars
<1> QED BY <1>1, <1>2, <1>3, <1>4, <1>5, <1>6 DEF Next, MasterInCall

(* Mpi implements the contract of BatchEval: to the algorithm, a call is    *)
(* the evaluation of each individual of its range once, with its present    *)
(* genome, and nothing else.                                                *)
THEOREM MpiImplementsBatch == Spec => ImplementsBatch
<1>1. Init => Batch!Init
  BY DEF Init, Batch!Init, InCall, Index, Batch!Index
<1> QED BY Invariance, <1>1, StepIsBatchStep, PTL DEF Spec, Batch!Spec, ImplementsBatch

(* What the algorithms rely on: whenever eval() has returned each fitness   *)
(* belongs to the genome its individual has, and during a call that is so   *)
(* of all whose result is not awaited.                                      *)
THEOREM FitnessesAreFresh == Spec => []Batch!Fresh
<1>1. IInv => Batch!Fresh
  <2>1. SUFFICES ASSUME IInv, NEW i \in Index, i \notin Todo PROVE fit[i] = Genome(i)
    BY DEF Batch!Fresh, Batch!Genome, Batch!Index, Genome, Index, Todo
  <2>2. CASE InCall
    <3>1. evaluated[i] \/ ~ (begin <= i /\ i < end)
      BY <2>1, <2>2 DEF Todo
    <3>2. i < begin \/ end <= i \/ evaluated[i]
      BY <2>1, <3>1 DEF IInv, TypeOK, Index
    <3> QED BY <2>1, <2>2, <3>2 DEF IInv, Ledger
  <2>3. CASE ~ InCall
    BY <2>1, <2>3 DEF IInv, AtRest
  <2> QED BY <2>2, <2>3
<1> QED BY <1>1, Invariance, PTL
-----------------------------------------------------------------------------
(* Nobody waits for ever: in each state a process has a step to make.  What *)
(* a process needs to go on, read off the guards of the actions: a message  *)
(* where it receives, the end of its blocking sends where it sends.         *)
SomeFitness == \E s \in Slaves : toMaster[s] # <<>>

MasterMoves ==
  \/ pc = "idle" /\ (calls < MaxCalls \/ calls > 0)
  \/ pc = "first" /\ MasterRuns
  \/ pc = "wait" /\ MasterRuns /\ (current < end => SomeFitness)
  \/ pc = "reply"
  \/ pc = "join" /\ (cursor < end /\ ~ evaluated[cursor] => SomeFitness)
  \/ pc = "bye" /\ MasterRuns

SlaveMoves(s) ==
  \/ slave[s] \in {"start", "eval"}
  \/ slave[s] = "probe" /\ SlaveRuns(s) /\ toSlave[s] # <<>>

(* A "bye" is sent the way ByeModes says, and to all before the end. *)
Byes ==
  /\ pc = "finalized" => cursor = WorldSize
  /\ pc \in {"bye", "finalized"} =>
       \A s \in Slaves : toSlave[s] # <<>> => Head(toSlave[s]).mode \in ByeModes

LEMMA ByesKept == IInv /\ Byes /\ [Next]_vars => Byes'
<1> SUFFICES ASSUME IInv, Byes, [Next]_vars PROVE Byes'
  OBVIOUS
<1>1. CASE SendBye
  <2>1. /\ pc = "bye" /\ pc' = "bye" /\ cursor \in Slaves
    BY <1>1 DEF SendBye, IInv, AtRest, InCall, Slaves
  <2>2. PICK m \in ByeModes : toSlave' = [toSlave EXCEPT ![cursor] =
           Append(@, [tag |-> MaxTag, val |-> <<0, 0>>, mode |-> m])]
    BY <1>1 DEF SendBye
  <2>3. toSlave[cursor] = <<>>
    <3>1. ~ (cursor < cursor)
      BY <2>1 DEF Slaves
    <3> QED BY <2>1, <3>1 DEF IInv, AtRest, InCall
  <2> DEFINE msg == [tag |-> MaxTag, val |-> <<0, 0>>, mode |-> m]
  <2>4. toSlave'[cursor] = <<msg>>
    <3>1. toSlave' = [toSlave EXCEPT ![cursor] = Append(toSlave[cursor], msg)]
      BY <2>2
    <3>2. Append(toSlave[cursor], msg) = <<msg>>
      BY <2>3
    <3> HIDE DEF msg
    <3> QED BY <2>1, <3>1, <3>2 DEF IInv, TypeOK
  <2>5. Head(toSlave'[cursor]).mode = m
    BY <2>4
  <2>6. \A t \in Slaves \ {cursor} : toSlave'[t] = toSlave[t]
    BY <2>2 DEF IInv, TypeOK
  <2> QED BY <2>1, <2>2, <2>5, <2>6 DEF Byes
<1>2. CASE Finalize
  BY <1>2 DEF Finalize, Byes, IInv, AtRest, InCall, callVars
<1>3. CASE Destroy
  BY <1>3 DEF Destroy, Byes, IInv, AtRest, InCall, Busy
<1>4. ASSUME NEW s \in Slaves, SlaveStep(s) PROVE Byes'
  <2>1. UNCHANGED <<pc, cursor>>
    BY <1>4 DEF SlaveStep, Enter, Take, Answer, Quit, callVars
  <2>2. pc \in {"bye", "finalized"} => UNCHANGED toSlave
    BY <1>4 DEF SlaveStep, Enter, Take, Answer, Quit, IInv, AtRest, InCall
  <2> QED BY <2>1, <2>2 DEF Byes
<1>5. CASE UNCHANGED vars
  BY <1>5 DEF Byes, vars, callVars
<1>6. CASE MasterInCall \/ \E r \in Ranges : Call(r)
  BY <1>6 DEF Byes, MasterInCall, FirstRound, EndFirstRound, Wait, Reply, BeginJoin,
     JoinRecv, JoinSkip, JoinAgain, Return, Call
<1> QED BY <1>1, <1>2, <1>3, <1>4, <1>5, <1>6 DEF Next, MasterQuits

(* A slave that holds work of the call can go on, or its answer is there. *)
LEMMA BusyMoves ==
  ASSUME IInv, InCall, NEW s \in Slaves, Busy(s)
  PROVE  SlaveMoves(s) \/ toMaster[s] # <<>>
<1>1. CASE toSlave[s] # <<>>
  <2>1. toMaster[s] = <<>> /\ slave[s] \in {"start", "probe"}
    BY <1>1 DEF IInv, OneJob, TypeOK, Ledger
  <2>2. SlaveRuns(s)
    BY <2>1 DEF SlaveRuns, Pending
  <2> QED BY <1>1, <2>1, <2>2 DEF SlaveMoves
<1> QED BY <1>1 DEF Busy, SlaveMoves

(* A master kept by a blocking send has a slave that can take the message.  *)
LEMMA BlockedBySlave ==
  ASSUME IInv, InCall, ~ MasterRuns
  PROVE  \E s \in Slaves : SlaveMoves(s)
<1>1. PICK s \in Slaves : Pending(toSlave[s])
  BY DEF MasterRuns
<1>2. toSlave[s] # <<>>
  BY <1>1 DEF Pending
<1>3. toMaster[s] = <<>>
  BY <1>2 DEF IInv, OneJob
<1> QED BY <1>2, <1>3, BusyMoves DEF Busy

(* Whatever blocks, the whole never does: until all have left some process  *)
(* can go on, for any number of slaves and individuals, and whether MPI     *)
(* buffers the genomes and fitnesses or not.  A slave exits without taking  *)
(* the "bye", so that alone has to be buffered (mpi.hpp:87 and 159-164). *)
THEOREM NeverStuck ==
  ByeModes = {"buffered"} =>
    (Spec => [](Terminated \/ MasterMoves \/ \E s \in Slaves : SlaveMoves(s)))
<1>1. SUFFICES ASSUME ByeModes = {"buffered"}
               PROVE  Spec => [](Terminated \/ MasterMoves \/ \E s \in Slaves : SlaveMoves(s))
  OBVIOUS
<1>2. Init => Byes
  BY DEF Init, Byes
<1>3. IInv /\ Byes => Terminated \/ MasterMoves \/ \E s \in Slaves : SlaveMoves(s)
  <2> SUFFICES ASSUME IInv, Byes, \A s \in Slaves : ~ SlaveMoves(s)
               PROVE  Terminated \/ MasterMoves
    OBVIOUS
  <2>1. ASSUME InCall PROVE MasterMoves
    <3>1. MasterRuns
      BY <2>1, BlockedBySlave
    <3>2. ASSUME NEW s \in Slaves, Busy(s) PROVE SomeFitness
      BY <2>1, <3>2, BusyMoves DEF SomeFitness
    <3>3. Waiting => SomeFitness
      <4> SUFFICES ASSUME Waiting PROVE SomeFitness
        OBVIOUS
      <4>1. CASE pc = "wait" /\ current < end
        <5>1. 1 \in Slaves
          BY DEF Slaves
        <5> QED BY <4>1, <5>1, <3>2 DEF IInv, Crew
      <4>2. CASE pc = "join" /\ cursor < end /\ ~ evaluated[cursor]
        <5>1. cursor \in begin .. (current - 1)
          BY <4>2 DEF IInv, Crew, TypeOK
        <5>2. \E s \in Slaves : Busy(s)
          BY <2>1, <4>2, <5>1 DEF IInv, Ledger
        <5> QED BY <5>2, <3>2
      <4> QED BY <4>1, <4>2 DEF Waiting
    <3> QED BY <2>1, <3>1, <3>3 DEF MasterMoves, InCall, Waiting
  <2>2. CASE pc = "idle"
    BY <2>2 DEF MasterMoves, IInv, TypeOK
  <2>3. CASE pc = "bye"
    <3>1. ASSUME NEW s \in Slaves, Pending(toSlave[s]) PROVE FALSE
      <4>1. PICK k \in DOMAIN toSlave[s] : toSlave[s][k].mode = "blocking"
        BY <3>1 DEF Pending
      <4>2. toSlave[s] \in Seq(Message) /\ Len(toSlave[s]) <= 1 /\ toSlave[s] # <<>>
        BY <4>1 DEF IInv, OneJob, TypeOK
      <4>3. Head(toSlave[s]) = toSlave[s][k]
        BY <4>1, <4>2, OneMessage
      <4> QED BY <1>1, <2>3, <4>1, <4>2, <4>3 DEF Byes
    <3> QED BY <2>3, <3>1 DEF MasterMoves, MasterRuns
  <2>4. CASE pc = "finalized"
    <3>1. ASSUME NEW s \in Slaves PROVE slave[s] = "exited"
      <4>1. s < cursor
        BY <2>4 DEF Byes, Slaves
      <4>2. toSlave[s] # <<>> /\ toMaster[s] = <<>>
        BY <2>4, <4>1 DEF IInv, AtRest, InCall
      <4>3. SlaveRuns(s)
        BY <4>2 DEF SlaveRuns, Pending
      <4> QED BY <4>2, <4>3 DEF SlaveMoves, IInv, TypeOK
    <3> QED BY <2>4, <3>1 DEF Terminated
  <2> QED BY <2>1, <2>2, <2>3, <2>4 DEF IInv, TypeOK, InCall
<1> QED BY <1>2, <1>3, ByesKept, Invariance, PTL DEF Spec
-----------------------------------------------------------------------------
(* Nor does a call go on for ever.  What is left of it, the most important  *)
(* first: fitnesses not received, genomes not sent, loops of the master,    *)
(* rounds and turns of the join, and the slaves' share of what is on its    *)
(* way.                                                                     *)
Missing == {i \in Index : begin <= i /\ i < end /\ ~ evaluated[i]}
Loops == CASE pc = "first" -> 2 [] pc \in {"wait", "reply"} -> 1 [] OTHER -> 0
Rounds == IF pc = "join" /\ ~ done THEN 1 ELSE 0
Turns == IF pc = "join" /\ cursor < end THEN end - cursor ELSE 0
Outside == {s \in Slaves : slave[s] = "start"}
Addressed == {s \in Slaves : toSlave[s] # <<>>}
Working == {s \in Slaves : slave[s] = "eval"}
Load ==
  Cardinality(Outside) + 2 * Cardinality(Addressed) + Cardinality(Working)

Effort ==
  <<Cardinality(Missing), end - current, Loops, Rounds, Turns, Load>>

(* The lexicographic order of the efforts. *)
Falls ==
  \E k \in 1 .. 6 : /\ Effort'[k] < Effort[k]
                    /\ \A j \in 1 .. (k - 1) : Effort'[j] = Effort[j]

LEMMA Finite ==
  /\ IsFiniteSet(Missing) /\ IsFiniteSet(Outside)
  /\ IsFiniteSet(Addressed) /\ IsFiniteSet(Working)
<1>1. IsFiniteSet(Index) /\ IsFiniteSet(Slaves)
  BY FS_Interval DEF Index, Slaves
<1>2. /\ Missing \in SUBSET Index /\ Outside \in SUBSET Slaves
      /\ Addressed \in SUBSET Slaves /\ Working \in SUBSET Slaves
  BY DEF Missing, Outside, Addressed, Working
<1> QED BY <1>1, <1>2, FS_Subset

LEMMA EffortIsCounted ==
  ASSUME IInv, InCall
  PROVE  \A k \in 1 .. 6 : Effort[k] \in Nat
<1>1. Cardinality(Missing) \in Nat
  BY Finite, FS_CardinalityType
<1>2. end - current \in Nat
  BY DEF IInv, TypeOK, Ledger
<1>3. Loops \in Nat /\ Rounds \in Nat
  BY DEF Loops, Rounds
<1>4. Turns \in Nat
  BY DEF Turns, IInv, TypeOK
<1>5. Load \in Nat
  <2>1. /\ Cardinality(Outside) \in Nat /\ Cardinality(Addressed) \in Nat
        /\ Cardinality(Working) \in Nat
    BY Finite, FS_CardinalityType
  <2> QED BY <2>1 DEF Load
<1> QED BY <1>1, <1>2, <1>3, <1>4, <1>5 DEF Effort

(* A receipt of the fitness of an individual of the call. *)
LEMMA RecvFalls ==
  ASSUME IInv, InCall, NEW s \in Slaves, Recv(s),
         UNCHANGED <<begin, end, slave, job, toSlave>>
  PROVE  Falls
<1>1. /\ Busy(s) /\ evaluated' = [evaluated EXCEPT ![Tag(s)] = TRUE]
  BY RecvStep DEF IInv
<1>2. /\ Tag(s) \in Index /\ begin <= Tag(s) /\ Tag(s) < end
      /\ ~ evaluated[Tag(s)]
  BY <1>1, HeldIsDue
<1>3. Tag(s) \in Missing /\ Missing' = Missing \ {Tag(s)}
  BY <1>1, <1>2 DEF Missing, IInv, TypeOK
<1>4. Cardinality(Missing') = Cardinality(Missing) - 1 /\ Cardinality(Missing) \in Nat
  BY <1>3, Finite, FS_RemoveElement, FS_CardinalityType
<1>5. Effort'[1] < Effort[1]
  BY <1>4 DEF Effort
<1> QED BY <1>5 DEF Falls

(* A genome is sent. *)
LEMMA SendFalls ==
  ASSUME IInv, InCall, UNCHANGED <<begin, end, evaluated>>, current' = current + 1
  PROVE  Falls
<1>1. Effort'[1] = Effort[1]
  BY DEF Effort, Missing
<1>2. Effort'[2] < Effort[2]
  BY DEF Effort, IInv, TypeOK
<1> QED BY <1>1, <1>2 DEF Falls

(* The master alone goes on. *)
LEMMA MasterFalls ==
  ASSUME IInv, InCall, EndFirstRound \/ BeginJoin \/ JoinSkip \/ JoinAgain
  PROVE  Falls
<1>1. UNCHANGED <<begin, end, current, evaluated>>
  BY DEF EndFirstRound, BeginJoin, JoinSkip, JoinAgain, callVars
<1>2. Effort'[1] = Effort[1] /\ Effort'[2] = Effort[2]
  BY <1>1 DEF Effort, Missing
<1>3. CASE EndFirstRound \/ BeginJoin
  <2>1. Loops' < Loops
    BY <1>3 DEF EndFirstRound, BeginJoin, Loops
  <2> QED BY <1>2, <2>1 DEF Falls, Effort
<1>4. CASE JoinAgain
  <2>1. Loops' = Loops /\ Rounds' < Rounds
    BY <1>4 DEF JoinAgain, Loops, Rounds
  <2> QED BY <1>2, <2>1 DEF Falls, Effort
<1>5. CASE JoinSkip
  <2>1. Loops' = Loops /\ Rounds' = Rounds
    BY <1>5 DEF JoinSkip, Loops, Rounds
  <2>2. Turns' < Turns
    BY <1>5 DEF JoinSkip, Turns, IInv, TypeOK
  <2> QED BY <1>2, <2>1, <2>2 DEF Falls, Effort
<1> QED BY <1>3, <1>4, <1>5

(* What a slave does brings the work on its way nearer to the master. *)
LEMMA SlaveFalls ==
  ASSUME IInv, InCall, NEW s \in Slaves, SlaveStep(s)
  PROVE  Falls
<1>1. UNCHANGED <<pc, callVars>>
  BY DEF SlaveStep, Enter, Take, Answer, Quit
<1>2. \A k \in 1 .. 5 : Effort'[k] = Effort[k]
  BY <1>1 DEF callVars, Effort, Missing, Loops, Rounds, Turns
<1>3. /\ Cardinality(Outside) \in Nat /\ Cardinality(Addressed) \in Nat
      /\ Cardinality(Working) \in Nat
  BY Finite, FS_CardinalityType
<1>4. Load' < Load
  <2>1. CASE Enter(s)
    <3>1. s \in Outside /\ Outside' = Outside \ {s} /\ Addressed' = Addressed
          /\ Working' = Working
      BY <2>1 DEF Enter, Outside, Addressed, Working, IInv, TypeOK
    <3>2. Cardinality(Outside') = Cardinality(Outside) - 1
      BY <3>1, Finite, FS_RemoveElement
    <3> QED BY <1>3, <3>1, <3>2 DEF Load
  <2>2. CASE Take(s)
    <3>0. Tail(toSlave[s]) = <<>> /\ toSlave[s] # <<>>
      <4>1. toSlave[s] # <<>> /\ toSlave[s] \in Seq(Message) /\ Len(toSlave[s]) <= 1
        BY <2>2 DEF Take, IInv, OneJob, TypeOK
      <4> QED BY <4>1
    <3>1. /\ s \notin Working /\ Working' = Working \cup {s}
          /\ s \in Addressed /\ Addressed' = Addressed \ {s}
          /\ Outside' = Outside
      BY <2>2, <3>0 DEF Take, Outside, Addressed, Working, IInv, TypeOK
    <3>2. /\ Cardinality(Addressed') = Cardinality(Addressed) - 1
          /\ Cardinality(Working') = Cardinality(Working) + 1
      BY <3>1, Finite, FS_RemoveElement, FS_AddElement
    <3> QED BY <1>3, <3>1, <3>2 DEF Load
  <2>3. CASE Answer(s)
    <3>1. s \in Working /\ Working' = Working \ {s} /\ Addressed' = Addressed
          /\ Outside' = Outside
      BY <2>3 DEF Answer, Outside, Addressed, Working, IInv, TypeOK
    <3>2. Cardinality(Working') = Cardinality(Working) - 1
      BY <3>1, Finite, FS_RemoveElement
    <3> QED BY <1>3, <3>1, <3>2 DEF Load
  <2>4. CASE Quit(s)
    <3>1. slave'[s] = "exited" /\ InCall'
      BY <1>1, <2>4 DEF Quit, IInv, TypeOK, InCall
    <3>2. IInv'
      BY SlaveKeeps
    <3> QED BY <3>1, <3>2 DEF IInv, Ledger
  <2> QED BY <2>1, <2>2, <2>3, <2>4 DEF SlaveStep
<1>5. Effort'[6] < Effort[6]
  BY <1>4 DEF Effort
<1> QED BY <1>2, <1>5 DEF Falls

(* Every step of a call, of the master or of a slave, returns from it or    *)
(* lowers the effort that is left, a tuple of natural numbers: whatever the *)
(* order of the answers a call has finitely many steps, and by NeverStuck   *)
(* it does not stop before it returns.                                      *)
THEOREM CallsAreFinite ==
  Spec => /\ [](InCall => \A k \in 1 .. 6 : Effort[k] \in Nat)
          /\ [][InCall => pc' = "idle" \/ Falls]_vars
<1>1. IInv => (InCall => \A k \in 1 .. 6 : Effort[k] \in Nat)
  BY EffortIsCounted
<1>2. IInv /\ [Next]_vars => [InCall => pc' = "idle" \/ Falls]_vars
  <2> SUFFICES ASSUME IInv, Next, InCall PROVE pc' = "idle" \/ Falls
    OBVIOUS
  <2>1. ASSUME NEW s \in Slaves, Wait(s) \/ JoinRecv(s) PROVE Falls
    BY <2>1, RecvFalls DEF Wait, JoinRecv, slaveVars
  <2>2. CASE FirstRound \/ Reply
    BY <2>2, SendFalls DEF FirstRound, Reply, SendIndiv
  <2>3. CASE EndFirstRound \/ BeginJoin \/ JoinSkip \/ JoinAgain
    BY <2>3, MasterFalls
  <2>4. CASE Return
    BY <2>4 DEF Return
  <2>5. ASSUME NEW s \in Slaves, SlaveStep(s) PROVE Falls
    BY <2>5, SlaveFalls
  <2>6. ~ Destroy /\ ~ MasterQuits /\ ~ Terminated /\ \A r \in Ranges : ~ Call(r)
    BY DEF InCall, Destroy, MasterQuits, SendBye, Finalize, Terminated, Call
  <2> QED BY <2>1, <2>2, <2>3, <2>4, <2>5, <2>6 DEF Next, MasterInCall
<1> QED BY <1>1, <1>2, Invariance, PTL DEF Spec
(* After the last call: the "bye" not sent yet, the end of ~Mpi(), and the  *)
(* slaves that have not begun, or not left.                                 *)
Staying == {s \in Slaves : slave[s] # "exited"}
Leaving ==
  <<WorldSize - cursor, IF pc = "bye" THEN 1 ELSE 0,
    Cardinality(Outside) + Cardinality(Staying)>>
LeavingFalls ==
  \E k \in 1 .. 3 : /\ Leaving'[k] < Leaving[k]
                    /\ \A j \in 1 .. (k - 1) : Leaving'[j] = Leaving[j]
Closing == pc \in {"bye", "finalized"}

LEMMA StayingFinite ==
  /\ IsFiniteSet(Staying) /\ Cardinality(Staying) \in Nat
  /\ IsFiniteSet(Outside) /\ Cardinality(Outside) \in Nat
<1>1. IsFiniteSet(Slaves) /\ Staying \in SUBSET Slaves
  BY FS_Interval DEF Slaves, Staying
<1> QED BY <1>1, Finite, FS_Subset, FS_CardinalityType

LEMMA SlaveLeaves ==
  ASSUME IInv, Closing, NEW s \in Slaves, SlaveStep(s)
  PROVE  LeavingFalls
<1>1. UNCHANGED <<pc, cursor>> /\ (Enter(s) \/ Quit(s))
  BY DEF Closing, IInv, AtRest, InCall, SlaveStep, Enter, Take, Answer, Quit, callVars
<1>2. Leaving'[1] = Leaving[1] /\ Leaving'[2] = Leaving[2]
  BY <1>1 DEF Leaving
<1>3. Cardinality(Outside') + Cardinality(Staying')
        < Cardinality(Outside) + Cardinality(Staying)
  <2>1. CASE Enter(s)
    <3>1. s \in Outside /\ Outside' = Outside \ {s} /\ Staying' = Staying
      BY <2>1 DEF Enter, Outside, Staying, IInv, TypeOK
    <3>2. Cardinality(Outside') = Cardinality(Outside) - 1
      BY <3>1, StayingFinite, FS_RemoveElement
    <3> QED BY <3>1, <3>2, StayingFinite
  <2>2. CASE Quit(s)
    <3>1. s \in Staying /\ Staying' = Staying \ {s} /\ Outside' = Outside
      BY <2>2 DEF Quit, Outside, Staying, IInv, TypeOK
    <3>2. Cardinality(Staying') = Cardinality(Staying) - 1
      BY <3>1, StayingFinite, FS_RemoveElement
    <3> QED BY <3>1, <3>2, StayingFinite
  <2> QED BY <1>1, <2>1, <2>2
<1>4. Leaving'[3] < Leaving[3]
  BY <1>3 DEF Leaving
<1> QED BY <1>2, <1>4 DEF LeavingFalls

(* The end of the run has finitely many steps too; with NeverStuck all are  *)
(* gone when they are done.                                                 *)
THEOREM LeavingIsFinite ==
  Spec => /\ [](Closing => \A k \in 1 .. 3 : Leaving[k] \in Nat)
          /\ [][Closing => Closing' /\ LeavingFalls]_vars
<1>1. ASSUME IInv, Closing
      PROVE  /\ \A k \in 1 .. 3 : Leaving[k] \in Nat
             /\ cursor \in 1 .. WorldSize /\ WorldSize - cursor \in Nat
  <2>1. cursor \in 1 .. WorldSize
    BY <1>1 DEF Closing, IInv, AtRest, InCall
  <2>2. WorldSize - cursor \in Nat
    BY <2>1
  <2>3. Cardinality(Outside) + Cardinality(Staying) \in Nat
    BY StayingFinite
  <2> QED BY <2>1, <2>2, <2>3 DEF Leaving
<1>2. IInv /\ [Next]_vars => [Closing => Closing' /\ LeavingFalls]_vars
  <2> SUFFICES ASSUME IInv, Next, vars' # vars, Closing PROVE Closing' /\ LeavingFalls
    OBVIOUS
  <2>1. CASE SendBye
    <3>1. Leaving'[1] < Leaving[1]
      BY <1>1, <2>1 DEF SendBye, Leaving
    <3> QED BY <2>1, <3>1 DEF SendBye, Closing, LeavingFalls
  <2>2. CASE Finalize
    <3>1. Leaving'[1] = Leaving[1] /\ Leaving'[2] < Leaving[2]
      BY <2>2 DEF Finalize, Leaving, callVars
    <3> QED BY <2>2, <3>1 DEF Finalize, Closing, LeavingFalls
  <2>3. ASSUME NEW s \in Slaves, SlaveStep(s) PROVE Closing' /\ LeavingFalls
    BY <2>3, SlaveLeaves DEF Closing, SlaveStep, Enter, Take, Answer, Quit
  <2>4. ~ MasterInCall /\ ~ Destroy /\ \A r \in Ranges : ~ Call(r)
    BY DEF Closing, MasterInCall, FirstRound, EndFirstRound, Wait, Reply, BeginJoin,
       JoinRecv, JoinSkip, JoinAgain, Return, Destroy, Call
  <2> QED BY <2>1, <2>2, <2>3, <2>4 DEF Next, MasterQuits
<1> QED BY <1>1, <1>2, Invariance, PTL DEF Spec
=============================================================================
