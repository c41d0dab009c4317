\* One channel: an OFF given while the loss of the supply is not found out.
SPECIFICATION Spec
CONSTANTS
  NumCh = 1
  Settings <- MCOneSetting
  Held <- MCOneSetting
  Answer <- MCOneAnswer
  M1 = 1
  Protections <- MCNone
  DisableAutoOff = TRUE
  RetryMin = 1
  RetryMax = 1
  Stable = 1
  Reconnect = 1
  ResumeMax = 1
  SaveEvery = 1
  DiskMayFail = FALSE
  MaxEvents = 3
INVARIANT OffRemembered
