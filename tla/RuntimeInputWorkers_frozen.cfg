SPECIFICATION Spec
CONSTANTS
  MaxStarts = 1
  MaxJoinFailures = 0
INVARIANT NoFrozenButton
