\* One application that copies twice, and no request of the engine.
SPECIFICATION FairSpec
CONSTANTS
  a = a
  Apps = {a}
  Us = Us
  NoOne = NoOne
  Baseline = Baseline
  MaxTakes = 2
  MaxCalls = 0
  MaxNaps = 0
  MaxOwed = 1
PROPERTIES
  ChangesAreRead
CHECK_DEADLOCK FALSE
