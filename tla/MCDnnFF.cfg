\* One input, two outputs and up to two hidden neurons, no bound on the
\* number of generations.
CONSTANTS
  i1 = i1
  i2 = i2
  o1 = o1
  o2 = o2
  h1 = h1
  h2 = h2
  InputSeq <- OneInput
  Outputs <- TwoOutputs
  Hidden <- TwoHidden
  MinNeurons = 1
  MaxNeurons = 3
  MinConns = 1
  MaxConns = 5
  MaxParallel = 2
SPECIFICATION Spec
SYMMETRY Symmetry
INVARIANTS IInv DepthIsCurrent
