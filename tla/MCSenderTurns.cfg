CONSTANTS
  t1 = t1
  t2 = t2
  f1 = f1
  f2 = f2
  d1 = d1
  None = None
  NoDevice = NoDevice
  Transfers = {t1, t2}
  Files = {f1, f2}
  Owner <- MCOwner
  Position <- MCPosition
  Size <- MCSize
  Uploads = {t1, t2}
  Devices <- MCDevices
  Lifetime = 1
  MaxNow = 0
  MaxClaims = 1
  Attempts = 1
  Service = FALSE
  MaxTroubles = 1
SPECIFICATION SendSpec
INVARIANTS SenderTypeOK SentIsReceived OneSender
CHECK_DEADLOCK FALSE
