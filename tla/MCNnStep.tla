----------------------------- MODULE MCNnStep ------------------------------
(* Model checking of NnStep: every network of two inputs, one output and    *)
(* three hidden neurons.                                                    *)
EXTENDS NnStep, TLC

CONSTANTS i1, i2, o1, h1, h2, h3

TwoInputs == <<i1, i2>>
OneOutput == {o1}
ThreeHidden == {h1, h2, h3}
Symmetry == Permutations(ThreeHidden)
=============================================================================
