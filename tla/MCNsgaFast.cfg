\* nsga2 with the sort for two objectives.
CONSTANTS
  Indivs <- Breedable
  NbObjs = 2
  Obj <- Vectors
  Size = 4
  InitSize = 5
  Sometimes = {2}
  Algos = {"nsga2"}
SPECIFICATION FastSpec
INVARIANT FrontsRespectDominance
