\* A reader, what opens the session or decides on content, and what takes the
\* session or the space away, around the watcher.  Every call ends for good.
SPECIFICATION Spec
CONSTANTS
  c1 = c1
  c2 = c2
  c3 = c3
  c4 = c4
  Call <- MCCall
  Watcher = watcher
  Failing <- MCFailing
  Opened <- MCOpened
  Kind <- MCKind
INVARIANTS
  TypeOK
PROPERTIES
  AnswersStayWithinGrant
  DecisionsOutliveReaders
  DecisionsAreTold
CHECK_DEADLOCK FALSE
