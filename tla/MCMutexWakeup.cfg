\* The mutex without preemption.
SPECIFICATION FairMutex
CONSTANTS
  t1 = t1
  t2 = t2
  t3 = t3
  Task = {t1, t2, t3}
  Parts = {"mutex"}
  Preemptible = {}
  Rounds = 1
  MaxMessages = 3
PROPERTY
  LockSucceeds
CHECK_DEADLOCK FALSE
