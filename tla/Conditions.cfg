SPECIFICATION Spec
CONSTANTS
  Threads = {t1, t2, t3}
  Words = {mutex, sequence, readers, writers, once}
  NoWord = NoWord
  Mutex = mutex
  Sequence = sequence
  Readers = readers
  Writers = writers
  Once = once
  Programs = {"condition", "rwlock", "once"}
  Recursive = FALSE
  MaxDepth = 1
  MaxChanges = 1
INVARIANTS Exclusion WaitersHaveOwner Reached OnceOnly NobodyForgotten
SYMMETRY Symmetry
VIEW View
CHECK_DEADLOCK FALSE
