\* Two zones, one tracker of an operator, programs of two items.
SPECIFICATION Spec
CONSTANTS
  Inputs <- MCInputs
  Derived <- MCDerived
  Expr <- MCExpr
  Timed <- MCTimed
  Kept <- MCKept
  Readings = {1, 4}
  First <- MCFirst
  NoValue = NoValue
  StaleAfter = 0
  InvalidAfter = 1
  Never = Never
  Deadband = 1
  Runners = {1}
  SeqId <- MCSeqId
  Zones <- MCZones
  Top = "top"
  Default = 0
  SpSafe <- MCSpSafe
  Items <- MCItems
  Programs <- MCPrograms
  Tables <- MCTables
  Commands <- MCCommands
  Eager = FALSE
  MaxBus = 2
  Moving <- MCMoving
  MaxReads = 1
  MaxEvents = 2
INVARIANT TypeOK
INVARIANT StepOwnsTrackers
INVARIANT MirrorsPLC
INVARIANT RunOnTime
INVARIANT Follows
PROPERTY NoOldReadings
