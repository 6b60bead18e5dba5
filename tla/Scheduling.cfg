SPECIFICATION Spec
CONSTANTS
  p1 = p1
  p2 = p2
  p3 = p3
  NoProcess = NoProcess
  ThreadSlots = 3
  Processes = {p1, p2, p3}
  PriorityLevels = 4
  MEDIA = 3
  APPLICATION_MAX = 1
  Objects = {1, 2}
  Mutexes = {1, 2}
  Loads = {"LifeCycle", "Suspension", "Media", "Locks"}
  Workload <- Chosen
  ObjectOwner <- NoObjectOwner
  MutexHome <- HomeFirst
INVARIANTS
  QueuesConsistent SchedulingOrder SuspendUniform NoOtherPanic
PROPERTIES Fifo
CHECK_DEADLOCK FALSE
