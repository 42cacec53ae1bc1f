\* Seven generations: three periods of two, a dump in every second one.
CONSTANTS
  Indivs <- Breedable
  NbGoals = 2
  Score <- ScoreOf
  Size = 4
  NbKeep = 2
  InitSize = 5
  NbGen = 7
  Period = 2
  SizeT = 65536
  DumpPeriod = 2
SPECIFICATION Spec
INVARIANTS DumpsTheBest DumpsBeforeSwitch IInv
PROPERTIES BestKept
CHECK_DEADLOCK FALSE
