SPECIFICATION FairSpec
CONSTANTS
  MaxStarts = 2
  MaxJoinFailures = 1
INVARIANTS
  StoppedIsQuiet
  InputFaultReleases
  NoStartOnClosedQueue
PROPERTY
  StopTerminates
