SPECIFICATION FairSpec
CONSTANTS
  t1 = t1
  t2 = t2
  Threads <- TwoThreads
  SlotCount = 2
  Types = {"y"}
  MaxDepth = 2
  MaxSubs = 2
INVARIANTS
  Counted
  SlotOwned
  NoEarlierPost
  WaitsForOthers
PROPERTIES
  ContractSpec
  UnsubscribeTerminates
  DeinitTerminates
