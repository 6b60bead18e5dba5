SPECIFICATION Spec
CONSTANTS
  a = a
  b = b
  c = c
  t1 = t1
  t2 = t2
  u = u
  v = v
  Processes = {a, b, c}
  Nobody = Nobody
  Threads = {t1, t2, u, v}
  ProcessOf <- MCProcessOf
  ObjectSlots = 6
  PageEntries = 4
  MaxReferences = 4
  Loads = {"Units", "Lives", "Timers", "Heap"}
  Workload <- MCWorkload
INVARIANTS ObjectsSound TimersExact
PROPERTIES KeepsPromise
CHECK_DEADLOCK FALSE
