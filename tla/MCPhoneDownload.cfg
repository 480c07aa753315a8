CONSTANTS
  t1 = t1
  t2 = t2
  f1 = f1
  f2 = f2
  d1 = d1
  NoDevice = NoDevice
  Transfers <- MCTransfers
  Files <- MCFiles
  Owner <- MCOwner
  Position <- MCPosition
  Size <- MCSize
  Uploads = {}
  Devices <- MCDevices
  Lifetime = 1
  MaxNow = 0
  MaxClaims = 1
  Limited <- MCLimited
  MayPause = TRUE
  MaxPending = 1
  MaxCrashes = 1
  MaxWire = 2
  MaxDrops = 1
SPECIFICATION FairDownloadSpec
PROPERTIES DeliversFiles ClaimedEnds UnacceptedIsOffered
CHECK_DEADLOCK FALSE
INVARIANTS ConfirmedIsHeld CompletedIsSaved
