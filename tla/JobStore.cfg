SPECIFICATION LeaseSpec
CONSTANTS
  j1 = j1
  w1 = w1  w2 = w2
  t1 = t1  t2 = t2
  NULL = NULL
  Jobs = {j1}
  Workers = {w1, w2}
  Tokens = {t1, t2}
  LeaseTTL = 2
  MaxReaps = 2
  MaxDelay = 2
  AttemptBudgets = {1, 2}
  KindBudget <- MCKindBudget
  SnoozeBudgets <- MCSnoozeBudgets
  Outcomes = {"ack", "retry", "abort", "snooze", "skip", "release", "lost"}
  Verbs = {"retry", "runNow", "archive", "pause", "resume", "delete", "vacuum"}
INVARIANTS  AttemptAccounting RunsBounded
PROPERTIES LeaseEnds JobsEnd   FakeStoreAgrees
