------------------------------ MODULE MCNsga -------------------------------
(* Model checking of Nsga on two objectives, the second of which counts     *)
(* only sometimes in pnsga: a front of five that populations of four cannot *)
(* keep, a population of copies of one individual, ties in one objective    *)
(* and chains of dominance.                                                 *)
EXTENDS Nsga

Vectors == [a |-> <<1, 1>>, b |-> <<2, 2>>, c |-> <<2, 2>>, d |-> <<2, 2>>,
            e |-> <<2, 2>>, f |-> <<3, 1>>, g |-> <<2, 1>>, h |-> <<3, 0>>]
Breedable == DOMAIN Vectors
=============================================================================
