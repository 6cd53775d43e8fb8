SPECIFICATION CrashSpec
CONSTANTS
    w1 = w1  w2 = w2  m1 = m1  m2 = m2
    Workers = {w1}
    Programs <- MCOne
    Messages = {}
    Endings = {"done"}
    Incidents <- MCCrash
    MaxTasks = 1
PROPERTY LeaseRecovered
CHECK_DEADLOCK FALSE
