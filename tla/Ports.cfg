SPECIFICATION FairSpec
CONSTANTS
  a = a
  b = b
  t1 = t1
  t2 = t2
  u1 = u1
  Processes = {a, b}
  Nobody = Nobody
  First = a
  Threads = {t1, t2, u1}
  ProcessOf <- MCProcessOf
  PortSlots = {1}
  MessageSlots = {1, 2}
  DetachedSlots = {1}
  HandleSlots = {1, 2}
  MaxMessages = 2
  MaxBytes = 3
  MaxReferences = 2
  Sizes = {1, 2}
  MaxAttached = 1
  AttachMasks <- Forwardable
  CopyRights <- SendOnly
  MaxGeneration = 1
INVARIANTS QueueWellFormed WaitersTold
PROPERTIES KeepsPromise PeerLearns
CHECK_DEADLOCK FALSE
