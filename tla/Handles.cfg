SPECIFICATION Spec
CONSTANTS
  a = a
  b = b
  t1 = t1
  t2 = t2
  u1 = u1
  Processes = {a, b}
  Nobody = Nobody
  First = a
  Threads = {t1, u1}
  ProcessOf <- MCSingle
  PortSlots = {1, 2}
  MessageSlots = {1}
  DetachedSlots = {1, 2}
  HandleSlots = {1, 2, 3}
  MaxMessages = 1
  MaxBytes = 2
  MaxReferences = 2
  Sizes = {1}
  MaxAttached = 2
  AttachMasks <- Forwardable
  CopyRights <- SendOnly
  MaxGeneration = 1
INVARIANTS HandlesExact
PROPERTIES NoAmplification NamesOnce
CHECK_DEADLOCK FALSE
