CONSTANTS
  t1 = t1
  t2 = t2
  f1 = f1
  f2 = f2
  d1 = d1
  None = None
  NoDevice = NoDevice
  Transfers = {t1}
  Files = {f1, f2}
  Owner <- MCSameOwner
  Position <- MCSamePosition
  Size <- MCSize
  Uploads = {t1}
  Devices <- MCDevices
  Lifetime = 1
  MaxNow = 0
  MaxClaims = 1
  Attempts = 1
  Service = FALSE
  MaxTroubles = 1
SPECIFICATION SendSpec
INVARIANT NothingForgotten
CHECK_DEADLOCK FALSE
