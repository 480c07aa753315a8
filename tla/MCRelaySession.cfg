CONSTANTS
  pics = pics
  Folders <- MCFolders
  MayOverlap = TRUE
  MaxRequests = 2
  MaxFaults = 1
  MaxConns = 2
  Patience = 1
  MaxTalk = 1
SPECIFICATION FairSessionSpec
CONSTRAINTS QuietBesideTwo FewWords
INVARIANTS HonestSessionsHold GoneIsGone RetiredSecretIsOut
PROPERTY OnlyLiveSocketsStay
CHECK_DEADLOCK FALSE
