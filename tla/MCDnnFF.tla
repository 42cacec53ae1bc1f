------------------------------ MODULE MCDnnFF ------------------------------
(* Model checking of DnnFF. *)
EXTENDS DnnFF, TLC

CONSTANTS i1, i2, o1, o2, h1, h2

OneInput == <<i1>>
TwoInputs == <<i1, i2>>
OneOutput == {o1}
TwoOutputs == {o1, o2}
TwoHidden == {h1, h2}
Symmetry == Permutations(TwoOutputs) \cup Permutations(TwoHidden)
=============================================================================
