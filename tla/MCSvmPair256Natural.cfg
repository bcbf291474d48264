CONSTANTS
  Threads = {t1, t2}
  Ptrs <- NaturalPtrs
  Values <- Bits
  Requests <- NaturalCalls
  NoCall = NoCall
  SPINLOCK_TABLE_SIZE = 4
  CACHE_LINE = 64

SPECIFICATION Spec

INVARIANT NoCircularWait
CHECK_DEADLOCK FALSE
