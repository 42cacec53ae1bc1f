----------------------------- MODULE MCNsgaFast -----------------------------
(* Model checking of NsgaFast on the individuals of MCNsga. *)
EXTENDS NsgaFast

Vectors == [a |-> <<1, 3>>, b |-> <<2, 2>>, c |-> <<2, 2>>, d |-> <<3, 1>>,
            e |-> <<3, 1>>, f |-> <<2, 1>>, g |-> <<3, 0>>, h |-> <<1, 1>>,
            i |-> <<0, 0>>]
Breedable == DOMAIN Vectors
=============================================================================
