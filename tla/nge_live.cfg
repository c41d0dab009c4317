\* One channel with its setpoints, protections and back-off, and a bounded
\* number of commands and disturbances (trips are not counted).
SPECIFICATION FairSpec
CONSTANTS
  NumCh = 1
  Settings <- MCSettings
  Held <- MCHeld
  Answer <- MCCapped
  M1 = 1
  Protections <- MCBoth
  DisableAutoOff = TRUE
  RetryMin = 3
  RetryMax = 4
  Stable = 3
  Reconnect = 1
  ResumeMax = 1
  SaveEvery = 0
  DiskMayFail = FALSE
  MaxEvents = 2
PROPERTY SetpointsFirst
INVARIANT NoIdleWrites
PROPERTY HoldRestores
