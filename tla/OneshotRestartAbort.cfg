\* A lease drops between the supervisor's last look and its drain deadline.
SPECIFICATION Spec
CONSTANTS
  Conn = {c1}
  Req = {r1}
  Target = {"server_headless"}
PROPERTIES LateAbortIsNoOp
CHECK_DEADLOCK FALSE
