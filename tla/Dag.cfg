SPECIFICATION Spec
CONSTANTS
  a = a  b = b  c = c  w = w
  ca = ca  cb = cb
  m1 = m1  m2 = m2
  s1 = s1  s2 = s2
  Tasks = {a, b, c, w}
  Comps = {ca, cb}
  Original <- MCOriginal
  Definitions <- MCDefinitions
  Schedulers = {s1, s2}
  Messages = {m1, m2}
  Target <- MCTarget
  Outcomes = {"succeeded", "skipped", "dead", "scheduled", "pending"}
  Verbs = {"retry", "pause", "compensate", "cancel", "runNow", "signal", "vacuum"}
INVARIANTS DepsRespected SucceededMeansDone OnlyStragglersEscape SignalOnce
CHECK_DEADLOCK FALSE
SYMMETRY MCSymmetry
