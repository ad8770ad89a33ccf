\* Two CPUs and two tasks that may hold a spin lock; one tick uses up a slice.
SPECIFICATION Spec
CONSTANTS
  c1 = c1
  c2 = c2
  t1 = t1
  t2 = t2
  CPU <- MCCPU
  Task <- MCTask
  Shell = t1
  SliceTicks = 1
  MaxGuards = 1
SYMMETRY MCSymmetry
VIEW MCView
INVARIANTS
  RunQueueExclusion
  StacksSafe
  QueueComplete
  PreemptBalanced
  IdleOwnCpu
