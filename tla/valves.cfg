\* One vessel, two gas valves, one RTD and one zone.
SPECIFICATION Spec
CONSTANTS
  MaxBus = 2
  Solenoids = {"tank"}
  Gases = {"ballast", "pump"}
  NormallyOpen = {"ballast"}
  Unread = Unread
  Vessels = {"tank"}
  Low = 1
  High = 2
  Levels = {0, 1, 2}
  Timeout = 1
  Never = Never
  Temps = {"rtd"}
  Tanks = {"tank"}
  Zones = {"top"}
  StaleLimit <- MCLimits
  SatLimit = 0
  NotHeard = NotHeard
  Commands <- MCCommands
  MaxEvents = 3
INVARIANT TypeOK
INVARIANT FillEnds
INVARIANT AutofillObeyed
INVARIANT ShownIsTrue
INVARIANT AlertsTell
PROPERTY OnlyAfterEnable
