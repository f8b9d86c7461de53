SPECIFICATION WindowSpec
CONSTANTS
  MaxBatches = 3
  MaxQueue = 1
  Incomings = {i1, i2}
  Prompts = {p1}
  None = None
  MaxActs = 4
  MaxOffers = 2
  MaxWork = 2
  NoUpdate = NoUpdate
INVARIANTS QueuedBatchIsKept QueueCanContinue GateBelongsToUpdate InstallsTheOffer
PROPERTY GateOpensAgain
CHECK_DEADLOCK FALSE
