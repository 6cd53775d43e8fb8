SPECIFICATION FairSpec
CONSTANTS
    w1 = w1  w2 = w2  m1 = m1  m2 = m2
    Workers = {w1}
    Programs <- MCPrograms
    Messages = {m1}
    Endings = {"done", "failed", "retry", "uncertain"}
    Incidents <- MCIncidents
    MaxTasks = 1
    
PROPERTIES FakeWacAgrees 
