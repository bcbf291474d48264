CONSTANTS
  Threads = {t1, t2}
  Cells <- MCCells
  W = 2
  Programs <- ShippedLoads
  NoOp = NoOp
  NoAnswer = NoAnswer
  SPINLOCK_TABLE_SIZE = 4
  CACHE_LINE = 64

SPECIFICATION Spec


PROPERTIES CallsAreAtomic
