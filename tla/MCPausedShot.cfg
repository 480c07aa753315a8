CONSTANTS
  Shots <- MCShots
  Oversized = {2}
  Attempts = 2
  Skews <- MCSkews
  MaxTime = 2
  MaxTransit = 1
  MaxFaults = 2
  MaxAsks = 1
SPECIFICATION Spec
PROPERTIES PausedHoldsShots
CHECK_DEADLOCK FALSE
