CONSTANTS
  Threads = {main, t1, t2}
  Main = main
  Nobody = Nobody
  Blocks = {b1, b2}
  Managed = FALSE

SPECIFICATION Spec

INVARIANT MutexIsUsedWhileItLives
