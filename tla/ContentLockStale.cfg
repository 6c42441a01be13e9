\* A session is closed, opened and closed again around a reader.
SPECIFICATION Spec
CONSTANTS
  c1 = c1
  c2 = c2
  c3 = c3
  c4 = c4
  Call <- MCStaleCall
  Watcher = watcher
  Failing = {}
  Opened <- MCOpened
  Kind <- MCStaleKind
PROPERTIES LostSessionStopsAnswers
CHECK_DEADLOCK FALSE
