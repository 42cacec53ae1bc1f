--------------------------- MODULE MCFitnessSimu ---------------------------
(* Model checking of FitnessSimu on the schedules of the repository, with   *)
(* fewer steps: FitnessSimuDummy, three experiments without a gap           *)
(* (tests/fit/fitness_simu.cpp), experiments that share a step              *)
(* (modules/cartpole/test_cartpole.cpp), and one with gaps.                 *)
EXTENDS FitnessSimu

E(new, end) == [new |-> new, end |-> end]
Explored ==
  { <<E(0, 1)>>,
    <<E(0, 2), E(3, 5), E(6, 8)>>,
    <<E(0, 2), E(2, 4), E(4, 6)>>,
    <<E(1, 3), E(3, 4), E(6, 8)>>,
    <<E(2, 3), E(5, 6), E(8, 10)>> }
=============================================================================
