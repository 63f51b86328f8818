CONSTANTS
  Nicks = {x, y}
  Me = Me
  Channels = {c, d}
  Tags = {t}
  NoTag = NoTag
  MaxBatch = 2
  Tidy = TRUE
  MaxSteps = 4
  BufferConns = {"c1", "c2"}
  BufferAdHoc = {"c1"}
  BufferChans = {"#c"}
  BufferNicks = {"bob", "eve"}
  BufferAutojoin = {}
  BufferMaxSteps = 5
  BufferMaxLines = 3
  ShrinkChans = {"#c"}
  ShrinkPeers = {"bob"}
  ShrinkNicks = {"me", "me2"}
  ShrinkFirstNick = "me"
  ShrinkQueueCap = 2
  ShrinkMaxLines = 3
  ShrinkMaxEvents = 2
SPECIFICATION MCSpec
CHECK_DEADLOCK FALSE
INVARIANT MembershipAgrees
INVARIANT ChannelsAreTrue
INVARIANT BuffersAreFound
INVARIANT DelayedLinesAreSafe
PROPERTY BuffersKeepTheirLines
