SPECIFICATION BootSpec
CONSTANTS
  c1 = c1
  c2 = c2
  t1 = t1
  CPU <- MCCPU
  Task <- MCTask
  Shell = t1
  BSP = c1
  SliceTicks = 2
  MaxGuards = 0
INVARIANT LockHeldPastSwitch
CHECK_DEADLOCK FALSE
