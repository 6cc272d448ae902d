SPECIFICATION FairSpec
CONSTANTS
  Posters = {p1, p2}
  Capacity = 2
  SequenceModulus = 17
  FirstSequences = {16}
  MaxCalls = 2
INVARIANTS
  NoAdmittedAfterDrain
  NoLostWakeup
  NoStrandedWork
  SequencesOrdered
PROPERTIES
  EventsReachConsumer
  DestroyTerminates
  ConsumerReleased
CHECK_DEADLOCK FALSE
