------------------------------ MODULE MpiEval ------------------------------
(***************************************************************************)
(* sferes/eval/mpi.hpp: evaluation of a population by an MPI master (rank  *)
(* 0, which runs the evolutionary algorithm) and slaves (ranks 1 ..        *)
(* WorldSize-1, which never leave their first call of eval()).             *)
(*                                                                         *)
(* Messages between two ranks arrive in order; probe() with any source may *)
(* pick the head of any channel.  A send of a genome or of a fitness is    *)
(* either buffered by MPI or blocks until the receiver takes the message:  *)
(* the MPI standard leaves the choice to the library at each send.         *)
(***************************************************************************)
EXTENDS Naturals, Sequences

CONSTANTS
  WorldSize,   \* _world->size(): the master and its slaves
  PopSize,     \* pop.size()
  MaxTag,      \* _env->max_tag(): the tag of the "bye" message
  MaxCalls,    \* bound: the number of calls of eval() that are explored
  SendModes,   \* what a send of a genome or a fitness may do
  ByeModes     \* what the send of the one-word "bye" may do

Modes == {"buffered", "blocking"}

ASSUME WorldAssumption == WorldSize \in Nat /\ WorldSize >= 2
ASSUME PopAssumption == PopSize \in Nat \ {0}
ASSUME TagAssumption == MaxTag \in Nat /\ PopSize <= MaxTag
ASSUME CallsAssumption == MaxCalls \in Nat \ {0}
ASSUME ModesAssumption == SendModes \subseteq Modes /\ ByeModes \subseteq Modes

Slaves == 1 .. (WorldSize - 1)
Index == 0 .. (PopSize - 1)
Ranges == {r \in (0 .. PopSize) \X (0 .. PopSize) : r[1] <= r[2]}

VARIABLES
  pc,         \* where the master is
  calls,      \* number of calls of eval() the master has started
  begin, end, \* the arguments of the running call
  current,    \* next individual to send
  cursor,     \* i of the for loops (a rank, or an index when joining)
  source,     \* s.source() of the last fitness received
  evaluated,  \* local to _master_loop
  done,       \* local to _master_loop
  gen,        \* gen[i]: the call that individual i's genome was made for
  fit,        \* fit[i]: the genome that pop[i]->fit() was computed from
  slave,      \* slave[s]: where slave s is
  job,        \* job[s]: the message slave s is working on
  toSlave,    \* toSlave[s]: messages from the master to s
  toMaster    \* toMaster[s]: messages from s to the master

callVars == <<begin, end, current, cursor, source, evaluated, done>>
popVars == <<gen, fit>>
slaveVars == <<slave, job>>
vars == <<pc, calls, callVars, popVars, slaveVars, toSlave, toMaster>>

Genome(i) == <<i, gen[i]>>

(* A genome or a fitness travels under the tag of the individual's index. *)
Message == [tag : 0 .. MaxTag, val : Index \X (0 .. MaxCalls), mode : Modes]

(* A blocking send keeps its sender until the message has been taken. *)
Pending(channel) == \E k \in DOMAIN channel : channel[k].mode = "blocking"
MasterRuns == \A s \in Slaves : ~ Pending(toSlave[s])
SlaveRuns(s) == ~ Pending(toMaster[s])

Init ==
  /\ pc = "idle"
  /\ calls = 0
  /\ begin = 0 /\ end = 0 /\ current = 0 /\ cursor = 0 /\ source = 0
  /\ evaluated = [i \in Index |-> FALSE]
  /\ done = TRUE
  /\ gen = [i \in Index |-> 0]
  /\ fit = [i \in Index |-> <<i, 0>>]
  /\ slave = [s \in Slaves |-> "start"]
  /\ job = [s \in Slaves |-> [tag |-> 0, val |-> <<0, 0>>]]
  /\ toSlave = [s \in Slaves |-> <<>>]
  /\ toMaster = [s \in Slaves |-> <<>>]

-----------------------------------------------------------------------------
(* The master: eval() and _master_loop().                                   *)

(* A mutant: the next individual is not moved on to. *)
SendIndivAgain(s) ==
  /\ \E m \in SendModes :
       toSlave' = [toSlave EXCEPT ![s] =
         Append(@, [tag |-> current, val |-> Genome(current), mode |-> m])]
  /\ UNCHANGED current

(* _world->send(s, current, pop[current]->gen()); ++current *)
SendIndiv(s) ==
  /\ \E m \in SendModes :
       toSlave' = [toSlave EXCEPT ![s] =
         Append(@, [tag |-> current, val |-> Genome(current), mode |-> m])]
  /\ current' = current + 1

(* Mutants: the receipt is not noted, or stored under another index. *)
RecvUnnoted(s) ==
  /\ toMaster[s] # <<>>
  /\ LET m == Head(toMaster[s]) IN fit' = [fit EXCEPT ![m.tag] = m.val]
  /\ toMaster' = [toMaster EXCEPT ![s] = Tail(@)]
  /\ UNCHANGED evaluated
RecvElsewhere(s) ==
  /\ toMaster[s] # <<>>
  /\ LET m == Head(toMaster[s]) IN
       /\ fit' = [fit EXCEPT ![cursor] = m.val]
       /\ evaluated' = [evaluated EXCEPT ![m.tag] = TRUE]
  /\ toMaster' = [toMaster EXCEPT ![s] = Tail(@)]

(* _recv(): probe any source and tag, store the fitness under its tag *)
Recv(s) ==
  /\ toMaster[s] # <<>>
  /\ LET m == Head(toMaster[s]) IN
       /\ fit' = [fit EXCEPT ![m.tag] = m.val]
       /\ evaluated' = [evaluated EXCEPT ![m.tag] = TRUE]
  /\ toMaster' = [toMaster EXCEPT ![s] = Tail(@)]

(* A mutant: evaluated keeps what it held in the call before. *)
CallUnreset(r) ==
  /\ pc = "idle"
  /\ calls < MaxCalls
  /\ pc' = "first"
  /\ calls' = calls + 1
  /\ begin' = r[1] /\ end' = r[2]
  /\ current' = r[1]
  /\ cursor' = 1
  /\ gen' = [i \in Index |-> IF r[1] <= i /\ i < r[2] THEN calls + 1 ELSE gen[i]]
  /\ UNCHANGED <<source, evaluated, done, fit, slaveVars, toSlave, toMaster>>

(* The algorithm has put new genomes into [begin, end) and calls eval(). *)
Call(r) ==
  /\ pc = "idle"
  /\ calls < MaxCalls
  /\ pc' = "first"
  /\ calls' = calls + 1
  /\ begin' = r[1] /\ end' = r[2]
  /\ current' = r[1]
  /\ cursor' = 1
  /\ evaluated' = [i \in Index |-> FALSE]
  /\ gen' = [i \in Index |-> IF r[1] <= i /\ i < r[2] THEN calls + 1 ELSE gen[i]]
  /\ UNCHANGED <<source, done, fit, slaveVars, toSlave, toMaster>>

FirstRound ==
  /\ pc = "first" /\ MasterRuns
  /\ cursor < WorldSize /\ current < end
  /\ SendIndiv(cursor)
  /\ cursor' = cursor + 1
  /\ UNCHANGED <<pc, calls, begin, end, source, evaluated, done, popVars,
                 slaveVars, toMaster>>

EndFirstRound ==
  /\ pc = "first" /\ MasterRuns
  /\ ~ (cursor < WorldSize /\ current < end)
  /\ pc' = "wait"
  /\ UNCHANGED <<calls, callVars, popVars, slaveVars, toSlave, toMaster>>

(* while (current < end): a fitness first ... *)
Wait(s) ==
  /\ pc = "wait" /\ MasterRuns
  /\ current < end
  /\ Recv(s)
  /\ source' = s
  /\ pc' = "reply"
  /\ UNCHANGED <<calls, begin, end, current, cursor, done, gen, slaveVars,
                 toSlave>>

(* ... then the next individual to the slave it came from *)
Reply ==
  /\ pc = "reply"
  /\ SendIndiv(source)
  /\ pc' = "wait"
  /\ UNCHANGED <<calls, begin, end, cursor, source, evaluated, done, popVars,
                 slaveVars, toMaster>>

BeginJoin ==
  /\ pc = "wait" /\ MasterRuns
  /\ ~ (current < end)
  /\ pc' = "join"
  /\ done' = TRUE
  /\ cursor' = begin
  /\ UNCHANGED <<calls, begin, end, current, source, evaluated, popVars,
                 slaveVars, toSlave, toMaster>>

JoinRecv(s) ==
  /\ pc = "join"
  /\ cursor < end
  /\ ~ evaluated[cursor]
  /\ Recv(s)
  /\ done' = FALSE
  /\ cursor' = cursor + 1
  /\ UNCHANGED <<pc, calls, begin, end, current, source, gen, slaveVars,
                 toSlave>>

JoinSkip ==
  /\ pc = "join"
  /\ cursor < end
  /\ evaluated[cursor]
  /\ cursor' = cursor + 1
  /\ UNCHANGED <<pc, calls, begin, end, current, source, evaluated, done,
                 popVars, slaveVars, toSlave, toMaster>>

(* A mutant: done stays false in the next round. *)
JoinAgainUndone ==
  /\ pc = "join"
  /\ cursor >= end /\ ~ done
  /\ cursor' = begin
  /\ UNCHANGED <<pc, calls, begin, end, current, source, evaluated, done, popVars,
                 slaveVars, toSlave, toMaster>>

JoinAgain ==
  /\ pc = "join"
  /\ cursor >= end /\ ~ done
  /\ cursor' = begin
  /\ done' = TRUE
  /\ UNCHANGED <<pc, calls, begin, end, current, source, evaluated, popVars,
                 slaveVars, toSlave, toMaster>>

(* do ... while (!done): eval() returns to the algorithm *)
Return ==
  /\ pc = "join"
  /\ cursor >= end /\ done
  /\ pc' = "idle"
  /\ UNCHANGED <<calls, callVars, popVars, slaveVars, toSlave, toMaster>>

-----------------------------------------------------------------------------
(* The master: ~Mpi().  run() evaluates the initial population first.       *)

(* A mutant: the first slave is forgotten. *)
DestroyButOne ==
  /\ pc = "idle"
  /\ calls > 0
  /\ pc' = "bye"
  /\ cursor' = 2
  /\ UNCHANGED <<calls, begin, end, current, source, evaluated, done, popVars,
                 slaveVars, toSlave, toMaster>>

Destroy ==
  /\ pc = "idle"
  /\ calls > 0
  /\ pc' = "bye"
  /\ cursor' = 1
  /\ UNCHANGED <<calls, begin, end, current, source, evaluated, done, popVars,
                 slaveVars, toSlave, toMaster>>

SendBye ==
  /\ pc = "bye" /\ MasterRuns
  /\ cursor < WorldSize
  /\ \E m \in ByeModes :
       toSlave' = [toSlave EXCEPT ![cursor] =
         Append(@, [tag |-> MaxTag, val |-> <<0, 0>>, mode |-> m])]
  /\ cursor' = cursor + 1
  /\ UNCHANGED <<pc, calls, begin, end, current, source, evaluated, done,
                 popVars, slaveVars, toMaster>>

Finalize ==
  /\ pc = "bye" /\ MasterRuns
  /\ cursor >= WorldSize
  /\ pc' = "finalized"
  /\ UNCHANGED <<calls, callVars, popVars, slaveVars, toSlave, toMaster>>

-----------------------------------------------------------------------------
(* A slave: eval() and _slave_loop().                                       *)

(* the slave's own algorithm reaches its first call of eval() *)
Enter(s) ==
  /\ slave[s] = "start"
  /\ slave' = [slave EXCEPT ![s] = "probe"]
  /\ UNCHANGED <<pc, calls, callVars, popVars, job, toSlave, toMaster>>

(* the tag of the probed message is an index: receive it, develop, eval *)
Take(s) ==
  /\ slave[s] = "probe" /\ SlaveRuns(s)
  /\ toSlave[s] # <<>>
  /\ Head(toSlave[s]).tag # MaxTag
  /\ job' = [job EXCEPT ![s] = [tag |-> Head(toSlave[s]).tag,
                                val |-> Head(toSlave[s]).val]]
  /\ toSlave' = [toSlave EXCEPT ![s] = Tail(@)]
  /\ slave' = [slave EXCEPT ![s] = "eval"]
  /\ UNCHANGED <<pc, calls, callVars, popVars, toMaster>>

(* _world->send(0, s.tag(), p.fit()) *)
Answer(s) ==
  /\ slave[s] = "eval"
  /\ \E m \in SendModes :
       toMaster' = [toMaster EXCEPT ![s] =
         Append(@, [tag |-> job[s].tag, val |-> job[s].val, mode |-> m])]
  /\ slave' = [slave EXCEPT ![s] = "probe"]
  /\ UNCHANGED <<pc, calls, callVars, popVars, job, toSlave>>

(* the tag is max_tag(): MPI_Finalize and exit, the message is not received *)
Quit(s) ==
  /\ slave[s] = "probe" /\ SlaveRuns(s)
  /\ toSlave[s] # <<>>
  /\ Head(toSlave[s]).tag = MaxTag
  /\ slave' = [slave EXCEPT ![s] = "exited"]
  /\ UNCHANGED <<pc, calls, callVars, popVars, job, toSlave, toMaster>>

-----------------------------------------------------------------------------
MasterInCall ==
  \/ FirstRound
  \/ EndFirstRound
  \/ \E s \in Slaves : Wait(s)
  \/ Reply
  \/ BeginJoin
  \/ \E s \in Slaves : JoinRecv(s)
  \/ JoinSkip
  \/ JoinAgain
  \/ Return

MasterQuits == SendBye \/ Finalize

SlaveStep(s) == Enter(s) \/ Take(s) \/ Answer(s) \/ Quit(s)

(* The program ends with the master finalized and every slave gone. *)
Terminated ==
  /\ pc = "finalized"
  /\ \A s \in Slaves : slave[s] = "exited"

Next ==
  \/ \E r \in Ranges : Call(r)
  \/ MasterInCall
  \/ Destroy
  \/ MasterQuits
  \/ \E s \in Slaves : SlaveStep(s)
  \/ Terminated /\ UNCHANGED vars

Spec == Init /\ [][Next]_vars

(* A process that can go on goes on; calling eval() again or ending the run *)
(* is the algorithm's business, but it does one or the other.               *)
Fairness ==
  /\ WF_vars(MasterInCall)
  /\ WF_vars(MasterQuits)
  /\ WF_vars(Destroy \/ \E r \in Ranges : Call(r))
  /\ \A s \in Slaves : WF_vars(SlaveStep(s))

FairSpec == Spec /\ Fairness

-----------------------------------------------------------------------------
(* Properties.                                                              *)

TypeOK ==
  /\ pc \in {"idle", "first", "wait", "reply", "join", "bye", "finalized"}
  /\ calls \in 0 .. MaxCalls
  /\ begin \in 0 .. PopSize /\ end \in 0 .. PopSize /\ current \in 0 .. PopSize
  /\ cursor \in Nat /\ source \in Nat
  /\ evaluated \in [Index -> BOOLEAN]
  /\ done \in BOOLEAN
  /\ gen \in [Index -> 0 .. MaxCalls]
  /\ fit \in [Index -> Index \X (0 .. MaxCalls)]
  /\ slave \in [Slaves -> {"start", "probe", "eval", "exited"}]
  /\ job \in [Slaves -> [tag : 0 .. MaxTag, val : Index \X (0 .. MaxCalls)]]
  /\ toSlave \in [Slaves -> Seq(Message)]
  /\ toMaster \in [Slaves -> Seq(Message)]

InCall == pc \in {"first", "wait", "reply", "join"}

(* Everything slave s has been given and the master has no answer for yet:  *)
(* work on its way, work in hand, a fitness on its way back.                *)
Outstanding(s) ==
  {m \in {<<toSlave[s][k].tag, toSlave[s][k].val>> : k \in DOMAIN toSlave[s]} :
     m[1] # MaxTag}
  \cup (IF slave[s] = "eval" THEN {<<job[s].tag, job[s].val>>} ELSE {})
  \cup {<<toMaster[s][k].tag, toMaster[s][k].val>> : k \in DOMAIN toMaster[s]}

Busy(s) == toSlave[s] # <<>> \/ slave[s] = "eval" \/ toMaster[s] # <<>>

(* The master asks for a fitness only when one is on its way: the           *)
(* bookkeeping of current and evaluated never makes _recv() probe for a     *)
(* message nobody will send (mpi.hpp:115-136).                              *)
Waiting ==
  \/ pc = "wait" /\ current < end
  \/ pc = "join" /\ cursor < end /\ ~ evaluated[cursor]
NoLostWait == Waiting => \E s \in Slaves : Outstanding(s) # {}

(* Between a send and its receipt an individual is with exactly one slave,  *)
(* under its own tag and with its present genome; outside a call no slave   *)
(* holds any work, so no result can leak into the next call.                *)
Accounted ==
  /\ \A s \in Slaves : \A m \in Outstanding(s) :
       /\ InCall
       /\ m[1] \in begin .. (current - 1)
       /\ ~ evaluated[m[1]]
       /\ m[2] = Genome(m[1])
       /\ \A t \in Slaves \ {s} : m \notin Outstanding(t)
  /\ InCall => \A i \in begin .. (current - 1) :
       evaluated[i] \/ \E s \in Slaves : <<i, Genome(i)>> \in Outstanding(s)

(* A slave that leaves on the quit tag leaves nothing undone behind, and    *)
(* only when the master evaluates no more.                                  *)
CleanExit ==
  \A s \in Slaves : slave[s] = "exited" =>
    pc \in {"bye", "finalized"} /\ Outstanding(s) = {}

(* Whatever the order of the answers, each fitness received is new: no      *)
(* individual of a call is received twice (mpi.hpp:138-150).                *)
EachReceiptIsNew ==
  [][(\E s \in Slaves : Len(toMaster'[s]) < Len(toMaster[s])) =>
       \E i \in Index : ~ evaluated[i] /\ evaluated'[i]]_vars

(* Every call of eval() returns, whatever MPI does with the sends.          *)
CallReturns == InCall ~> (pc = "idle")

(* Every run ends with the master finalized and no slave left behind.       *)
AllLeave == <>[]Terminated

(* The evaluator contract of BatchEval. *)
Batch == INSTANCE BatchEval WITH
  phase <- IF pc \in {"bye", "finalized"} THEN "closed"
           ELSE IF pc = "idle" THEN "idle" ELSE "busy",
  todo <- IF InCall
          THEN {i \in Index : begin <= i /\ i < end /\ ~ evaluated[i]}
          ELSE {}
ImplementsBatch == Batch!Spec

-----------------------------------------------------------------------------
(* The inductive invariant behind NoLostWait, Accounted and the contract.   *)

(* A slave has at most one message in its two channels and its hands. *)
OneJob ==
  \A s \in Slaves :
    /\ Len(toSlave[s]) <= 1 /\ Len(toMaster[s]) <= 1
    /\ toSlave[s] # <<>> => slave[s] # "eval" /\ toMaster[s] = <<>>
    /\ slave[s] = "eval" => toMaster[s] = <<>>

Held(s) ==
  IF toSlave[s] # <<>> THEN Head(toSlave[s])
  ELSE IF slave[s] = "eval" THEN job[s] ELSE Head(toMaster[s])
Tag(s) == Held(s).tag
Val(s) == Held(s).val

(* During a call: the individuals sent are those evaluated and those held.  *)
Ledger ==
  InCall =>
    /\ begin <= current /\ current <= end
    /\ \A s \in Slaves : Busy(s) =>
         /\ Tag(s) \in begin .. (current - 1)
         /\ ~ evaluated[Tag(s)]
         /\ Val(s) = Genome(Tag(s))
    /\ \A s, t \in Slaves : Busy(s) /\ Busy(t) /\ Tag(s) = Tag(t) => s = t
    /\ \A i \in begin .. (current - 1) :
         evaluated[i] \/ \E s \in Slaves : Busy(s) /\ Tag(s) = i
    /\ \A i \in Index : evaluated[i] => begin <= i /\ i < current
    /\ \A i \in Index : (i < begin \/ end <= i \/ evaluated[i]) => fit[i] = Genome(i)
    /\ \A s \in Slaves : slave[s] # "exited"

(* Who is busy in each phase of the call. *)
Crew ==
  /\ pc = "first" => cursor \in 1 .. WorldSize
                     /\ \A s \in Slaves : Busy(s) <=> s < cursor
  /\ pc = "wait" => (current < end => \A s \in Slaves : Busy(s))
  /\ pc = "reply" => current < end /\ source \in Slaves
                     /\ \A s \in Slaves : Busy(s) <=> s # source
  /\ pc = "join" => current = end /\ begin <= cursor
                    /\ (done => \A i \in Index : begin <= i /\ i < cursor /\ i < end
                                                  => evaluated[i])

(* Between calls nobody holds anything and every fitness is current. *)
AtRest ==
  ~ InCall =>
    /\ \A i \in Index : fit[i] = Genome(i)
    /\ pc = "idle" => \A s \in Slaves : ~ Busy(s) /\ slave[s] # "exited"
    /\ pc \in {"bye", "finalized"} =>
         /\ cursor \in 1 .. WorldSize
         /\ \A s \in Slaves :
              /\ slave[s] # "eval" /\ toMaster[s] = <<>>
              /\ toSlave[s] # <<>> => Head(toSlave[s]).tag = MaxTag
              /\ toSlave[s] # <<>> <=> s < cursor
              /\ slave[s] = "exited" => s < cursor

IInv == TypeOK /\ OneJob /\ Ledger /\ Crew /\ AtRest
=============================================================================
