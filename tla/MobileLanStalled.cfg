SPECIFICATION Spec
CONSTANTS
  p1 = p1
  p2 = p2
  Ports <- MCPorts
  Off = Off
  Host = Host
  Forwarder = Forwarder
  MaxWrites = 1
PROPERTY ShutdownEnds
\* The daemon's process ends.
CHECK_DEADLOCK FALSE
