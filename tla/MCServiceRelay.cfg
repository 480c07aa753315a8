CONSTANTS
  Passes = {p1, p2}
  Downs = {d1, d2}
  Conns <- MCConns
  Pairings = {home, office}
  NoPass = NoPass
  NoConn = NoConn
  NoPairing = NoPairing
  MaxFaults = 2
  MaxAsks = 1
SPECIFICATION FairSpec
CONSTRAINT Unspoiled
INVARIANTS OneOpenConnection ReportedIsLive
PROPERTIES AbandonedBuildsNothing SettlesOnNewestPairing
CHECK_DEADLOCK FALSE
