CONSTANTS
  t1 = t1
  f1 = f1
  phone = phone
  h1 = h1
  h2 = h2
  NoDevice = NoDevice
  Transfers <- MCTransfers
  Files <- MCFiles
  Owner <- MCOwner
  Position <- MCPosition
  Size <- MCSize
  Uploads <- MCUploads
  Devices <- MCDevices
  Tasks <- MCTasks
  Orders = {"cancel", "disconnect"}
  BatchOrders = FALSE
  Lifetime = 1
  MaxNow = 0
  MaxClaims = 1
  MaxPending = 1
  MaxSuffix = 2
  MaxCrashes = 0
  MaxSaveFailures = 1
SPECIFICATION UploadSpec
INVARIANT VerifyingHasHandler
