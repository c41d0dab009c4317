\* One zone, one channel: an expression the register cannot hold.
SPECIFICATION Spec
CONSTANTS
  NumRtd = 1
  NumZone = 1
  StaleS = 1
  NaN = NaN
  NoReading = NoReading
  PvSafe = 9
  SpSafe = 0
  DefaultBand <- MCBand
  Temps <- MCTemps
  Bands <- MCOneBand
  PvValues <- MCNone
  PvExprs <- MCNoExpr
  Readings <- MCOneBad
  Setpoints <- MCSetpoint
  ExternalPv <- MCNone
  SpExprs <- MCHuge
  LevelOverflows = FALSE
  HandControl = FALSE
  LinkMayFail = FALSE
  MayRestart = FALSE
INVARIANT OverridesAnyExpr
