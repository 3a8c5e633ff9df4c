\* Two threads of read-write transactions on three words of two segments.
\* The clock reaches the last value that fits in an int of IntRange values.
CONSTANTS
  a = a
  b = b
  c = c
  t1 = t1
  t2 = t2
  t3 = t3
  Threads = {t1, t2}
  Words = {a, b, c}
  Values = {0, 1}
  Writes = {1}
  Zero = 0
  None = None
  Torn = Torn
  Addr <- TwoSegments
  IntRange = 8
  Align = 1
  Spans = {}
  ROThreads = {}
  RWThreads = {t1, t2}
  MaxTx = 2
SPECIFICATION Spec
INVARIANTS TypeOK LockOwnership LatestInMemory Opacity Serializable NoCrossedLocks IInv OwnWritesFound
PROPERTIES GuardedWrites LockWords
SYMMETRY Threads12
