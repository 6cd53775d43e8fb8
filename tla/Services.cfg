SPECIFICATION Spec
CONSTANTS
    Instances = {1, 2}  Electors = {"lease", "plain"}  Occurrences = {1, 2}  Window = 1  Horizon = 3
    a = a  b = b  Items = {a, b}  KindOf <- KindOfRow
    Drains = {d1, d2}  Limit = 2  Targets = {"full", "noDAG", "forgetful"}
    Ids = {e1}  Subscribers = {s1, s2}
    SrcBuffer = 1  OutBuffer = 2  MaxInFlight = 2
    Parts = {"cron", "outbox", "events", "listener"}
INVARIANTS FiredOnce NothingSkipped NeverTwice NothingLost RetainedServed FirstIsReset GapAnnounced
PROPERTIES OutboxLive 
CHECK_DEADLOCK FALSE
