CONSTANTS
  Gap = 2
  Window = 4
  MaxPerWindow = 3
  Backoff = 8
  MaxDelay = 1
  Horizon = 14
  MaxInFlight = 3
  FloodNicks = {n1, n2, n3}
  FloodTilde = {n1, n2}
  FloodIgnored = {n3}
  FloodLevels = {"ALL"}
  FloodTexts = {x, y}
  FloodChannels = {c}
  THRESHOLD = 3
  CTCP_THRESHOLD = 2
  STORM_THRESHOLD = 2
  DUP_MIN_IN_WINDOW = 3
  DUP_THRESHOLD = 2
  NICK_THRESHOLD = 2
  FLOOD_WINDOW = 1
  FLOOD_BLOCK = 2
  FloodMaxClock = 3
  FloodMaxMessages = 4
  SplitNicks = {x, y}
  SplitNetworks = {{c, d}, {e}}
  SplitPairs = {s, t}
  SplitMaxSteps = 3
  FilePeers = {p, q}
  Mine = Mine
  Other = Other
  FileMaxKey = 2
  FileMaxSteps = 5
  LoginTokens = {a, b}
  max_age = 2
  SAVE_DEBOUNCE = 2
  LoginMaxTime = 4
  LoginMaxSteps = 5
  LoginMaxFaults = 1
  ConfigServerIds = {"net", "web"}
  ConfigMaxValue = 1
  ConfigMaxFaults = 1
  ConfigMaxCommands = 5
  FormLength = 7
  FormMasked = {5, 6}
  FormToggles = {2}
  FormSelects = {7}
  FormNumeric = {3}
  FormSecondPage = {4, 5, 6, 7}
  FormRequired = {1}
  FormLocked = {4}
  FormChars = {"1", "a", " "}
  FormDigits = {"1"}
  FormOptions = 2
  FormDrawsFirst = TRUE
  FormMaxText = 2
  FormMaxKeys = 7
  ScriptNames = {s, t}
  ScriptVerbs = {c}
  ScriptPriorities = {0, 1}
  ScriptQueueCap = 2
  ScriptMaxHandlers = 2
  ScriptMaxTimers = 1
  ScriptMaxCalls = 3
  StateNicks = {n1}
  StateBuffers = {c, d}
  StateValues = {x, y}
  Nothing = Nothing
  StateQueueCap = 1
  StateMaxSteps = 5
  ThumbLinks = {"u", "v", "w"}
  ThumbDirect = {"w"}
  ThumbReaders = {"r1", "r2"}
  MAX_REGISTRY_ENTRIES = 1
  ThumbMaxPerMessage = 3
  ThumbCacheMax = 1
  ThumbMaxMessages = 2
  ThumbMaxRequests = 4
  ThumbMaxFaults = 1
SPECIFICATION MCSpec
CHECK_DEADLOCK FALSE
INVARIANT WindowsAreKept
INVARIANT SplitsAreAnnounced
INVARIANT KeyringFilesAreWhole
INVARIANT SettingsAgree
INVARIANT ScriptsAreContained
INVARIANT ThumbnailsAreKept
INVARIANT LoginsAreKept
PROPERTY NoStepBreaksAPromise
