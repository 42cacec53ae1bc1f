\* The three evaluators, two threads, three individuals, two calls.
CONSTANTS
  t1 = t1
  t2 = t2
  Kinds <- AllKinds
  Workers <- Threads
  PopSize = 3
  MaxCalls = 2
SPECIFICATION FairSpec
INVARIANTS IInv NoSharedIndividual EvaluatedAsDeveloped
PROPERTIES ImplementsBatch CallReturns
