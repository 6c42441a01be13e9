\* The id of the first run is given to the second once the first is dead.
SPECIFICATION Spec
CONSTANTS
  a = a
  b = b
  c = c
  Proc <- MCProc
  Pid <- MCRecycledPid
  Version <- MCVersion
  MaxTime = 1
PROPERTY RecycledPidIsNotKilled
CHECK_DEADLOCK FALSE
