\* One thread allocates and memory may run out for it; a failed tm_begin
\* keeps the read lock, so that a deletion may wait for ever.
CONSTANTS
  t1 = t1
  t2 = t2
  t3 = t3
  Threads = {t1, t2}
  VaSize = 4
  AddressRange = 5
  FreeBatchSize = 2
  Allocators = {t1}
  NoMemory = {t1}
  FreesWrite = TRUE
  MaxFrees = 2
  MaxTx = 5
  None = None
SPECIFICATION Spec
INVARIANT SpotsDistinct
CHECK_DEADLOCK FALSE
