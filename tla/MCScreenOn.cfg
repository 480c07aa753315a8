CONSTANTS
  Passes = {p1, p2}
  Downs = {d1, d2}
  Conns <- MCConns
  Pairings = {home}
  NoPass = NoPass
  NoConn = NoConn
  NoPairing = NoPairing
  MaxFaults = 1
  MaxAsks = 1
SPECIFICATION Spec
CHECK_DEADLOCK FALSE
PROPERTY ScreenOnReconnects
