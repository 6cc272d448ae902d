CONSTANTS
  h1 = h1
  h2 = h2
  Handlers <- TwoHandlers
  TypeCount = 3
  Cells <- ModemCells
  Own <- ModemOwn
  Optional <- ModemOptional
  QueueCapacity = 1
  Serial = FALSE
  MaxEvents = 3
SPECIFICATION Spec
INVARIANT StateNotBehind
