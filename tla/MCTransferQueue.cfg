CONSTANTS
  t1 = t1
  t2 = t2
  f1 = f1
  f2 = f2
  f3 = f3
  phone = phone
  NoDevice = NoDevice
  Transfers <- MCTransfers
  Files <- MCFiles
  Owner <- MCOwner
  Position <- MCPosition
  Size <- MCSize
  Uploads <- MCUploads
  Devices <- MCDevices
  Lifetime = 1
  MaxNow = 1
  MaxClaims = 1
SPECIFICATION Spec
INVARIANTS OneInFlight CompletedIsConfirmed QueuedIsClaimable TerminalBatchIsOver
PROPERTIES TerminalUntilRetried NoOvertaking
