\* Two threads allocate and memory may run out.
CONSTANTS
  t1 = t1
  t2 = t2
  t3 = t3
  Threads = {t1, t2}
  VaSize = 3
  AddressRange = 5
  FreeBatchSize = 1
  Allocators = {t1, t2}
  NoMemory = {t1, t2}
  FreesWrite = TRUE
  MaxFrees = 0
  MaxTx = 2
  None = None
SPECIFICATION Spec
INVARIANT SpotsDistinct
CHECK_DEADLOCK FALSE
