\* Two objectives, every sequence of offspring, no bound on the epochs.
CONSTANTS
  NbObjs = 2
  Objs <- Vectors
  Eps <- Sides
  MinFit <- Zeros
  PopSize = 2
  Grain = 1
SPECIFICATION FairSpec
INVARIANTS ArchiveSpread FrontIsPareto PopCovered IInv
PROPERTIES CoverageGrows EpochEnds
