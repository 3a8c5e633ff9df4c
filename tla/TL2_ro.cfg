\* Both kinds of transactions, in conflict with each other, under fair scheduling.
CONSTANTS
  a = a
  b = b
  c = c
  t1 = t1
  t2 = t2
  t3 = t3
  Threads = {t1, t2}
  Words = {a, b}
  Values = {0, 1}
  Writes = {0, 1}
  Zero = 0
  None = None
  Torn = Torn
  Addr <- OneSegment
  IntRange = 64
  Align = 8
  Spans <- AnySpan
  ROThreads = {t2}
  RWThreads = {t1, t2}
  MaxTx = 2
SPECIFICATION FairSpec
INVARIANTS ReadCommitted Opacity
PROPERTY CallsReturn
