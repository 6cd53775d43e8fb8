SPECIFICATION Spec
CONSTANTS
  a = a  b = b
  c1 = c1  c2 = c2
  WorkA = 2  WorkB = 1
  Kinds = {a, b}
  Callers = {c1, c2}
  Concurrency <- MCConcurrency
  MaxConcurrency = 2
  FetchBatchSize = 2
  Work <- MCWork
  Scenarios = {{"setup", "dequeue"}}
SYMMETRY MCSymmetry
INVARIANTS SlotsAccounted OneStart NothingAfterDrain
CHECK_DEADLOCK FALSE
