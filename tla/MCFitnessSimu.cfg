\* Every schedule of the module, given up at any step, no bound.
CONSTANT
  Schedules <- Explored
SPECIFICATION FairSpec
INVARIANTS RunsUnlessSwallowed EvaluatedAsScheduled FreshSimu IInv
PROPERTIES EvalEnds
