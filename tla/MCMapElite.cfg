\* Any number of epochs of one pair of offspring on a grid of 2 x 2.
CONSTANTS
  Side = 2
  Indivs <- Networks
  None = None
  InitSize = 2
  PopSize = 1
SPECIFICATION Spec
INVARIANTS ParentNicheHeld IInv
PROPERTIES RejectionsAreFinal
