\* nsga2 and pnsga, every set of offspring, no bound on the epochs.
CONSTANTS
  Indivs <- Breedable
  NbObjs = 2
  Obj <- Vectors
  Size = 4
  InitSize = 5
  Sometimes = {2}
  Algos = {"nsga2", "pnsga"}
SPECIFICATION FairSpec
INVARIANTS FrontsRespectDominance IInv
PROPERTIES NoBetterDropped BestNeverLost EpochEnds
