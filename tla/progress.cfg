CONSTANTS
  Channels = {a, b, c}
  MaxTargets = 2
  MaxUserSteps = 3
  MAX_ALIAS_DEPTH = 2
  MAX_PASTE_LINES = 2
  Templates <- Bodies
  TypedLines <- Lines
  Pastes <- Texts
  Drafts <- Begun
  MaxEntries = 2
  ShellNames = {"sh", "sh (2)"}
  Pages = {page, other}
  ChatBuffers = {"chat"}
  MAX_WEB_SESSIONS = 2
  MaxShells = 2
  MaxSteps = 5
  MaxOutput = 2
  Urls = {"u", "v"}
  Large = {"v"}
  Protocols = {"kitty", "iterm2"}
  OneAtATime = TRUE
  MaxShows = 3
  DESIRED_CAPS = {"sasl", "batch"}
  LastBuffer = 2
  BATCH_SIZE = 2
  ChannelCap = 2
  MAX_PENDING_ROWS = 2
  KeepEvents = 1
  KeepAll = 1
  MaxRows = 3
  MaxClock = 2
  MaxFaults = 1
  MaxNotices = 1
  MaxChanges = 2
SPECIFICATION MCSpec
CHECK_DEADLOCK FALSE
INVARIANT QueriesMove
INVARIANT LogIsComplete
INVARIANT AnswersFindTheirQuestion
INVARIANT ServerAndClientAgree
PROPERTY WorkIsFinished
