\* Two writes, and an application that copies between them.
SPECIFICATION Spec
CONSTANTS
  a = a
  b = b
  Apps = {a, b}
  Us = Us
  NoOne = NoOne
  Baseline = Baseline
  MaxTakes = 1
  MaxCalls = 2
  MaxNaps = 0
  MaxOwed = 1
SYMMETRY Symmetry
INVARIANTS
  OwnedIsServed
\* The watcher may have been stopped, and the engine has nothing to ask.
CHECK_DEADLOCK FALSE
