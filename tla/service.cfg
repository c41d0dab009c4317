SPECIFICATION Spec
CONSTANTS
  plc = plc
  omega = omega
  pi = pi
  other = other
  none = none
  elsewhere = elsewhere
  low = low
  high = high
  Drivers = {plc, omega}
  Hosts = {pi, other}
  Pi = pi
  NoConn = none
  Elsewhere = elsewhere
  Watchdog = 1
  RestartSec = 1
  Interval = 4
  Burst = 2
  Capacity = 2
  Display = 1
  Samples = {low, high}
  MaxEvents = 3
SYMMETRY Symmetric
INVARIANT TypeOK
INVARIANT StuckGone
INVARIANT OneSession
INVARIANT ServiceBack
INVARIANT DataInOrder
PROPERTY LimitNeedsShortRuns
PROPERTY ShownWasSo
