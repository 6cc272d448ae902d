SPECIFICATION FairSpec
CONSTANTS
  h1 = h1
  h2 = h2
  Handlers <- TwoHandlers
  TypeCount = 3
  Cells <- StationCells
  Own <- StationOwn
  Optional <- StationOptional
  QueueCapacity = 1
  Serial = TRUE
  MaxEvents = 3
INVARIANTS
  StateNotBehind
  NoHandlerAfterRelease
  AnnouncedOnce
PROPERTY
  DropsReported
