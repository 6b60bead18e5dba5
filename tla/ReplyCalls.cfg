SPECIFICATION Spec
CONSTANTS
  Threads = {t1, t2, t3}
  Processes = {p1, p2}
  NoProcess = NoProcess
  First = t1
  Home = p1
  LastNumber = 3
  MaxCalls = 2
INVARIANTS CallersAnswerable OwnAnswer NothingLeftBehind
PROPERTIES KeepsPromise
CHECK_DEADLOCK FALSE
