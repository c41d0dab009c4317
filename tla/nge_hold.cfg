\* Two channels, the switches only: keys pressed, power and links lost, the
\* process stopped or crashed at any step.
SPECIFICATION Spec
CONSTANTS
  NumCh = 2
  Settings <- MCOneSetting
  Held <- MCOneSetting
  Answer <- MCOneAnswer
  M1 = 1
  Protections <- MCNone
  DisableAutoOff = FALSE
  RetryMin = 2
  RetryMax = 2
  Stable = 2
  Reconnect = 0
  ResumeMax = 1
  SaveEvery = 0
  DiskMayFail = TRUE
  MaxEvents = 3
INVARIANT TypeOK
PROPERTY NothingUnasked
PROPERTY OffStaysOff
PROPERTY RetriesSpaced
