\* Every channel holds one item, so that two changes in a row overflow it; two
\* changes and one fault.  All changes made, the feed rests.
SPECIFICATION FinishingSpec
CONSTANTS
  d1 = d1
  d2 = d2
  NoDocument = none
  Document <- MCDocument
  ChangeCapacity = 1
  EventCapacity = 1
  EngineCapacity = 1
  WireSize = 1
  MaxChanges = 2
  MaxFaults = 1
INVARIANTS
  TypeOK
  NothingMissed
PROPERTIES
  HostCatchesUp
CHECK_DEADLOCK FALSE
