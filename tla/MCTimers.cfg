\* Two tasks that sleep and set timers and may be awakened by others.
SPECIFICATION TimerSpec
CONSTANTS
  Task = {t1, t2}
  BspTasks = {t1, t2}
  Idle = Idle
  Timeouts = {1, 2}
  WrapMs = 3
  MaxTimers = 2
SYMMETRY Symmetry
INVARIANT
  SleepsLongEnough
CHECK_DEADLOCK FALSE
