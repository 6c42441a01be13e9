\* Two older runs and a newcomer of a newer version.
SPECIFICATION Spec
CONSTANTS
  a = a
  b = b
  c = c
  Proc <- MCProc
  Pid <- MCPid
  Version <- MCVersion
  MaxTime = 1
PROPERTY NewcomerTakesOver
CHECK_DEADLOCK FALSE
