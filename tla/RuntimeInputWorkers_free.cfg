SPECIFICATION Spec
CONSTANTS
  MaxStarts = 1
  MaxJoinFailures = 1
INVARIANT NoTaskAfterFree
