\* A restart is accepted while the daemon is already on its way out.
SPECIFICATION Spec
CONSTANTS
  Conn = {c1}
  Req = {r1}
  Target = {"server_headless"}
INVARIANTS RestartIsHandedOver
CHECK_DEADLOCK FALSE
