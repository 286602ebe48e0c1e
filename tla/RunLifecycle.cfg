\* Runs and sessions, whether their environment answers or never does. A settled run stops.
CONSTANTS
  Chunks <- MCChunks
  MaxChunks = 2
SPECIFICATION FairSpec
INVARIANTS LifeInv Ending FailureIsTold CleanupIsOrdered
PROPERTIES FailureIsFinal RunSettles
CHECK_DEADLOCK FALSE
