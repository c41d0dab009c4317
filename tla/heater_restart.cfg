\* One zone, one channel, under fairness: a start without the PLC.
SPECIFICATION FairSpec
CONSTANTS
  NumRtd = 1
  NumZone = 1
  StaleS = 1
  NaN = NaN
  NoReading = NoReading
  PvSafe = 9
  SpSafe = 0
  DefaultBand <- MCBand
  Temps <- MCTemps
  Bands <- MCOneBand
  PvValues <- MCNone
  PvExprs <- MCNoExpr
  Readings <- MCOneBad
  Setpoints <- MCSetpoint
  ExternalPv <- MCNone
  SpExprs <- MCSpOnly
  LevelOverflows = FALSE
  HandControl = FALSE
  LinkMayFail = TRUE
  MayRestart = TRUE
PROPERTY RestartZeroes
