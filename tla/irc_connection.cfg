CONSTANTS
  Tasks = {t1, t2, t3}
  NoTask = NoTask
  AutoReconnect = TRUE
  Impatient = TRUE
  MaxRetries = 1
  MaxUserSteps = 3
  PatientTasks = {t1, t2}
  PatientRetries = 2
  PatientSteps = 4
SPECIFICATION MCSpec
CHECK_DEADLOCK FALSE
INVARIANT PatientOneUsableSession
INVARIANT NoStaleHandle
INVARIANT NobodyIsStuck
PROPERTY PatientLinkSpec
PROPERTY PatientComesBack
PROPERTY NoDialingWhenOffline
