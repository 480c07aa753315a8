CONSTANTS
  Shots <- MCShots
  Oversized = {2}
  Attempts = 2
  Skews <- MCSkews
  MaxTime = 2
  MaxTransit = 1
  MaxFaults = 2
  MaxAsks = 1
SPECIFICATION FairSpec
INVARIANT WaitingHasWorker
PROPERTIES HeldUntilAnswered NewerCopyStays HeldStaysOff HeldIsSettled
CHECK_DEADLOCK FALSE
