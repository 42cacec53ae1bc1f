---------------------------- MODULE MCEpsMoea ------------------------------
(* Model checking of EpsMoea on two objectives with boxes of side 2: three  *)
(* mutually nondominated boxes, two with several vectors in them, one that  *)
(* dominates a part of the others and one that is dominated by all.         *)
EXTENDS EpsMoea

Sides == <<2, 2>>
Zeros == <<0, 0>>
Vectors == {<<1, 5>>, <<1, 6>>, <<2, 5>>,   \* box <<1, 3>>
            <<3, 4>>, <<4, 3>>,             \* box <<2, 2>>
            <<6, 1>>,                       \* box <<3, 1>>
            <<3, 6>>,                       \* box <<2, 3>>
            <<0, 1>>}                       \* box <<0, 1>>
=============================================================================
