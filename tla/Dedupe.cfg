SPECIFICATION FairSpec
CONSTANTS
  j1 = j1  j2 = j2  j3 = j3
  p1 = p1  p2 = p2
  k1 = k1
  NULL = NULL
  Jobs = {j1, j2, j3}
  Producers = {p1, p2}
  Keys = {k1}
  TTL = 1
  MaxOpen = 1
  Modes = {"live", "window", "coalesce"}
  Endings = {"dead", "skipped"}
INVARIANTS OneLiveJob SignalHasJob
PROPERTIES OncePerWindow 
