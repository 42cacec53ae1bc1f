---------------------------- MODULE MCTaskEval -----------------------------
(* Model checking of TaskEval: each of the three evaluators, two threads.   *)
EXTENDS TaskEval

CONSTANTS t1, t2
Threads == {t1, t2}
AllKinds == {"eval", "parallel", "parallel_eval"}
=============================================================================
