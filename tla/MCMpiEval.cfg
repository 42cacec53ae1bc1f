\* Three slaves, four individuals, two calls.
CONSTANTS
  WorldSize = 4
  PopSize = 4
  MaxTag = 4
  MaxCalls = 2
  SendModes <- AnyMode
  ByeModes <- Buffered
SPECIFICATION FairSpec
INVARIANTS IInv NoLostWait
PROPERTIES EachReceiptIsNew ImplementsBatch CallReturns AllLeave
