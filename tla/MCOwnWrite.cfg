CONSTANTS
  MaxCopies = 2
  MaxStamps = 4
  MaxFaults = 0
  MaxPauses = 0
SPECIFICATION Spec
INVARIANTS OwnWriteStays
CHECK_DEADLOCK FALSE
