\* A network of negative modularity in the column of the most modular ones.
CONSTANTS
  Side = 2
  Indivs <- Networks
  None = None
  InitSize = 2
  PopSize = 1
SPECIFICATION Spec
INVARIANTS NegativeIsNotMost
