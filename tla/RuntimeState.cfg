SPECIFICATION FairSpec
CONSTANTS
  Readers = {r1, r2}
  SlotCount = 3
  NoRead = NoRead
  MaxGeneration = 3
INVARIANTS
  PinnedBankStable
  CopyFromOnePublication
PROPERTIES
  MonotoneReads
  ImplementsSnapshot
  ReadReturns
  DirtyIsPublished
