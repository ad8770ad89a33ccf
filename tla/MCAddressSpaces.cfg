\* Two CPUs with their idle tasks; two tasks with a small program each, one task
\* and every file, or two tasks and two regions; two user tasks.
SPECIFICATION MCSpec
CHECK_DEADLOCK FALSE
SYMMETRY MCSymmetry
CONSTANTS
  CPU = {c1, c2}
  SpaceTask = {s1, s2}
  FileTask = f1
  UserTask = {u1, u2}
  KernelTask = {c1, c2}
  Ram = {4, 5, 6, 7, 8, 9, 10, 11, 12, 13, 14, 15, 16, 17, 18, 19, 20, 21, 22, 23, 24, 25, 26, 27, 28, 29, 30, 31, 32, 33, 34, 35, 36}
  PAGE_SIZE = 4
  KERNEL_STACK_SIZE_PAGES = 2
  MAX_KERNEL_STACKS = 4
  HEAP_PAGES = 1
  USER_STACK_START = 72
  USER_STACK_PAGES = 1
  TableSize = 6
  TableSizeRegions = 8
INVARIANTS
  FramesOwnedOnce
  NoStaleTranslation
  KernelHalfShared
  UserAccess
  ModesKeptApart
