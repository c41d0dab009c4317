\* One entry of config.yaml, two pumps and two ports; a tick is 10 s.
SPECIFICATION FairSpec
CONSTANTS
  p1 = p1
  p2 = p2
  Pumps <- MCPumps
  NoPump = NoPump
  NumPorts = 2
  NumSlots = 1
  Patience = 1
  ResumeMax = 2
  SaveEvery = 0
  Stranger = 1
  Backoff = 1
  MaxEvents = 4
INVARIANT TypeOK
INVARIANT WatchdogFits
PROPERTY OrdersObeyed
PROPERTY ResumeInTime
PROPERTY KeepsOnlyOrders
PROPERTY SavedFirst
PROPERTY ReleasedLetsGo
