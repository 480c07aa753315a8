CONSTANTS
  t1 = t1
  f1 = f1
  phone = phone
  NoDevice = NoDevice
  Transfers <- MCTransfers
  Files <- MCFiles
  Owner <- MCOwner
  Position <- MCPosition
  Size <- MCSize
  Uploads <- MCUploads
  Devices <- MCDevices
  Lifetime = 1
  MaxNow = 2
  MaxClaims = 1
  MaxPending = 2
  MaxCrashes = 2
SPECIFICATION DurableSpec

PROPERTIES
  RestartFreesTheQueue
  CompletionIsDurable
