CONSTANTS
  Peers = {p}
  Nobody = Nobody
  Nicks = {n}
  NoNick = NoNick
  Tasks = {t1, t2}
  NoTask = NoTask
  Tokens = {x}
  NoToken = NoToken
  Nowhere = Nowhere
  NoRecord = NoRecord
  MaxConnections = 2
  MaxEvents = 2
  MaxSteps = 4
  Allowed = {"close", "absent"}
  Terminals = {s1, s2}
  Sizes = {1, 2}
  MAX_SOCKET_OUTPUT_QUEUE = 1
  MaxSessionSteps = 4
SPECIFICATION MCSpec
CHECK_DEADLOCK FALSE
INVARIANT TerminalsAreTold
PROPERTY WaitingEnds
