------------------------------ MODULE MCEaRun ------------------------------
(* Model checking of EaRun with two goals that disagree and scores with     *)
(* ties.                                                                    *)
EXTENDS EaRun

Scores == [a |-> <<0, 2>>, b |-> <<1, 1>>, c |-> <<2, 0>>, d |-> <<1, 2>>]
Breedable == DOMAIN Scores
ScoreOf == [x \in Breedable |-> [g \in Goals |-> Scores[x][g + 1]]]
=============================================================================
