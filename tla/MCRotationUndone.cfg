CONSTANTS
  pics = pics
  Folders <- MCFolders
  MayOverlap = TRUE
  MaxRequests = 2
  MaxFaults = 1
  MaxConns = 1
  Patience = 1
  MaxTalk = 0
SPECIFICATION SessionSpec
INVARIANT ReplacedSecretIsOut
CHECK_DEADLOCK FALSE
