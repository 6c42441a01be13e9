\* An unlock and a lock of the session race; the engine always answers.
SPECIFICATION Spec
CONSTANTS
  c1 = c1
  c2 = c2
  c3 = c3
  c4 = c4
  Call <- MCPairCall
  Watcher = watcher
  Failing = {}
  Opened <- MCOpened
  Kind <- MCPairKind
INVARIANTS SubscribersLearnTheLock
CHECK_DEADLOCK FALSE
