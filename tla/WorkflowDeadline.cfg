SPECIFICATION Spec
CONSTANTS
    w1 = w1  w2 = w2  m1 = m1  m2 = m2
    Workers = {w1}
    Programs <- MCDeadline
    Messages = {m1}
    Endings = {"done"}
    Incidents <- MCCalm
    MaxTasks = 1
INVARIANT ReplayFits
CHECK_DEADLOCK FALSE
