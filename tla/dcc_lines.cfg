CONSTANTS
  Peers = {p, q}
  Nobody = Nobody
  Nicks = {n, m, o}
  NoNick = NoNick
  Tasks = {t1, t2}
  NoTask = NoTask
  Tokens = {x}
  NoToken = NoToken
  Nowhere = Nowhere
  NoRecord = NoRecord
  MaxConnections = 2
  MaxEvents = 2
  MaxSteps = 5
  Allowed = {"rename", "close", "absent"}
SPECIFICATION Spec
CHECK_DEADLOCK FALSE
SYMMETRY Symmetry
INVARIANT LinesReachTheirPeer
INVARIANT SessionsHaveRecords
