\* Two applications, of which one owns the selection first or nobody does; one
\* change by them, two requests of the engine, one empty read that is repeated.
SPECIFICATION Spec
CONSTANTS
  a = a
  b = b
  Apps = {a, b}
  Us = Us
  NoOne = NoOne
  Baseline = Baseline
  MaxTakes = 1
  MaxCalls = 2
  MaxNaps = 1
  MaxOwed = 1
SYMMETRY Symmetry
INVARIANTS
  TypeOK
  NoChangeIsForgotten
  HeldIsOwned
\* The watcher may have been stopped, and the engine has nothing to ask.
CHECK_DEADLOCK FALSE
