\* Every queue holds one item; one subscription with two snapshots against two
\* events.  Interval and timeout are in the proportion of the code (30 s, 40 s).
SPECIFICATION Spec
CONSTANTS
  Interval = 3
  Timeout = 4
  MaxLate = 1
  Suspends = TRUE
  OutboundSize = 1
  ControlSize = 1
  SocketSize = 1
  Snapshots = 2
  MaxRequests = 1
  MaxEvents = 2
PROPERTIES
  LeaseComesBack
  RequestsAreAnswered
CHECK_DEADLOCK FALSE
