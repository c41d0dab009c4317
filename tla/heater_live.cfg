\* One zone, one channel, under fairness: links that come and go, limits changed
\* while the poll judges, setpoints that are numbers, a channel's reading
\* or beyond float32, levels beyond float32.
SPECIFICATION FairSpec
CONSTANTS
  NumRtd = 1
  NumZone = 1
  StaleS = 1
  NaN = NaN
  NoReading = NoReading
  PvSafe = 9
  SpSafe = 0
  DefaultBand <- MCBand
  Temps <- MCTemps
  Bands <- MCTwoBands
  PvValues <- MCNone
  PvExprs <- MCNoExpr
  Readings <- MCNaNReadings
  Setpoints <- MCSetpoint
  ExternalPv <- MCNone
  SpExprs <- MCSpExprs
  LevelOverflows = TRUE
  HandControl = FALSE
  LinkMayFail = TRUE
  MayRestart = FALSE
PROPERTY StaleDataZeroes
INVARIANT GoodDataPasses
INVARIANT SetpointAsserted
