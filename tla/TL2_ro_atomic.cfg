\* The same, one word a call: the snapshot of a read-only transaction.
CONSTANTS
  a = a
  b = b
  c = c
  t1 = t1
  t2 = t2
  t3 = t3
  Threads = {t1, t2}
  Words = {a, b}
  Values = {0, 1}
  Writes = {0, 1}
  Zero = 0
  None = None
  Torn = Torn
  Addr <- OneSegment
  IntRange = 64
  Align = 8
  Spans <- EachWord
  ROThreads = {t2}
  RWThreads = {t1}
  MaxTx = 3
SPECIFICATION Spec
INVARIANT RoAtomic
