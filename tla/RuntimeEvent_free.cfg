CONSTANTS
  Posters = {p1}
  Capacity = 1
  SequenceModulus = 5
  FirstSequences = {1}
  MaxCalls = 1
SPECIFICATION Spec
INVARIANT NoCallAfterFree
CHECK_DEADLOCK FALSE
