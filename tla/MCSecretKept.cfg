CONSTANTS
  pics = pics
  Folders <- MCFolders
  MayOverlap = FALSE
  MaxRequests = 2
  MaxFaults = 2
  MaxConns = 1
  Patience = 1
  MaxTalk = 0
SPECIFICATION SessionSpec
INVARIANT SecretIsKept
CHECK_DEADLOCK FALSE
