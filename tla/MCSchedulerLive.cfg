\* One CPU, two tasks, preemption disabled once per task, slices of two ticks.
SPECIFICATION FairSpec
CONSTANTS
  c1 = c1
  c2 = c2
  t1 = t1
  t2 = t2
  CPU <- MCOneCPU
  Task <- MCTask
  Shell = t1
  SliceTicks = 2
  MaxGuards = 1
PROPERTIES
  RunQueueReleased
  ImplementsTaskScheduling
