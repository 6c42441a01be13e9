\* A reset of which the removal succeeds and the flush fails is the one fault.
SPECIFICATION Spec
CONSTANTS
  d1 = d1
  d2 = d2
  NoDocument = none
  Document <- MCDocument
  ChangeCapacity = 1
  EventCapacity = 1
  EngineCapacity = 1
  WireSize = 1
  MaxChanges = 2
  MaxFaults = 1
INVARIANT AcknowledgedWriteSurvives
CHECK_DEADLOCK FALSE
