SPECIFICATION LiveSpec
CONSTANTS
  a = a  b = b
  c1 = c1  c2 = c2
  WorkA = 1  WorkB = 1
  Kinds = {a, b}
  Callers = {c1}
  Concurrency <- MCConcurrency
  MaxConcurrency = 1
  FetchBatchSize = 2
  Work <- MCWork
  Scenarios = {{"wake", "silent", "dequeue"}, {"setup"}}
INVARIANTS NoLostWake
PROPERTIES JobsFetched StartReturns
CHECK_DEADLOCK FALSE
