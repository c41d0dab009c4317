\* One zone, one channel: lost links, unanswered writes, exits and restarts.
SPECIFICATION Spec
CONSTANTS
  NumRtd = 1
  NumZone = 1
  StaleS = 1
  NaN = NaN
  NoReading = NoReading
  PvSafe = 9
  SpSafe = 0
  DefaultBand <- MCBand
  Temps <- MCTemps
  Bands <- MCOneBand
  ExternalPv <- MCExternal
  Readings <- MCOneBad
  Setpoints <- MCSetpoint
  PvValues <- MCNone
  SpExprs <- MCSpOnly
  PvExprs <- MCPvExprs
  LevelOverflows = TRUE
  HandControl = TRUE
  LinkMayFail = TRUE
  MayRestart = TRUE
INVARIANT TypeOK
INVARIANT HeldMeansZeroed
INVARIANT BadDataZeroes
PROPERTY ReleaseNeedsCommand
