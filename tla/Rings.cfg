CONSTANTS
  Processes = {p1, p2}
  Nobody = nobody
  First = p1
  Capacity = 2
  Wrap = 8
  AtomicMax = 2
  ReadLengths = {1, 2}
  WriteLengths = {2, 3}
  Forms = {"shared", "copied"}
SPECIFICATION Spec
INVARIANTS InOrder FaultsContained NoStrandedEnd EndOfStream BackingHeld
CHECK_DEADLOCK FALSE
