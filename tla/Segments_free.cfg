\* Two threads allocate, free and delete; memory does not run out.
CONSTANTS
  t1 = t1
  t2 = t2
  t3 = t3
  Threads = {t1, t2, t3}
  VaSize = 3
  AddressRange = 5
  FreeBatchSize = 2
  Allocators = {t1, t2, t3}
  NoMemory = {}
  FreesWrite = TRUE
  MaxFrees = 2
  MaxTx = 5
  None = None
SPECIFICATION Spec
INVARIANTS TypeOK ReadersRun SpotsDistinct LinkedLive FreesKept
PROPERTIES NoUseAfterFree DestroyOnce
SYMMETRY AllThreads
