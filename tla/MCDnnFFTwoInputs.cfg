\* Two inputs that share a neuron: the longest path is not found.
CONSTANTS
  i1 = i1
  i2 = i2
  o1 = o1
  o2 = o2
  h1 = h1
  h2 = h2
  InputSeq <- TwoInputs
  Outputs <- OneOutput
  Hidden <- TwoHidden
  MinNeurons = 1
  MaxNeurons = 3
  MinConns = 1
  MaxConns = 5
  MaxParallel = 1
SPECIFICATION Spec
INVARIANTS DepthIsCurrent
