CONSTANTS
  t1 = t1
  f1 = f1
  f2 = f2
  d1 = d1
  NoDevice = NoDevice
  Transfers <- MCTransfers
  Files <- MCFiles
  Owner <- MCOwner
  Position <- MCPosition
  Size <- MCSize
  Uploads = {}
  Devices <- MCDevices
  Lifetime = 1
  MaxNow = 0
  MaxClaims = 1
  Limited <- MCLimited
  MayPause = TRUE
  MaxPending = 2
  MaxCrashes = 0
  MaxWire = 2
  MaxDrops = 0
SPECIFICATION DownloadSpec
INVARIANT PrefetchIsServed
CHECK_DEADLOCK FALSE
