\* Three tasks that take the mutex twice; two that wait for a third to exit; a
\* receiver of three messages.  Two of the three are preempted anywhere.
SPECIFICATION FairWaits
CONSTANTS
  t1 = t1
  t2 = t2
  t3 = t3
  Task = {t1, t2, t3}
  Parts = {"mutex", "cell", "channel"}
  Preemptible = {t1, t2}
  Rounds = 2
  MaxMessages = 3
INVARIANTS
  MutualExclusion
  SleepersQueued
PROPERTIES
  WaitReturns
  WaitsEnd
CHECK_DEADLOCK FALSE
