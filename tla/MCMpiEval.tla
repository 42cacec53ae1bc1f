---------------------------- MODULE MCMpiEval ------------------------------
(* Model checking of MpiEval: three slaves and four individuals, so that a  *)
(* call may have more, as many or fewer individuals than there are slaves. *)
EXTENDS MpiEval

AnyMode == {"buffered", "blocking"}
Buffered == {"buffered"}
=============================================================================
