\* All feed-forward networks of two inputs, one output and up to three hidden
\* neurons; the numbers of neurons and connections are those of DnnFF, which
\* the evaluation does not use.
CONSTANTS
  i1 = i1
  i2 = i2
  o1 = o1
  h1 = h1
  h2 = h2
  h3 = h3
  InputSeq <- TwoInputs
  Outputs <- OneOutput
  Hidden <- ThreeHidden
  MinNeurons = 0
  MaxNeurons = 4
  MinConns = 0
  MaxConns = 8
  MaxParallel = 1
  Patterns = 2
SPECIFICATION EvalSpec
SYMMETRY Symmetry
INVARIANTS ForgetsWhenDeep HearsInput SettledWhenAllHear EvalInv
