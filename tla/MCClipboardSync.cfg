CONSTANTS
  MaxCopies = 2
  MaxStamps = 8
  MaxFaults = 2
  MaxPauses = 2
SPECIFICATION FairSpec
INVARIANT EchoNeedsCrossing
PROPERTIES AppliedOnce PhoneCatchesUp
CHECK_DEADLOCK FALSE
