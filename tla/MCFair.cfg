\* Two cpus, of which one goes offline, with a quota of one slice and a half;
\* a group below a group with two tasks, a task beside it and one in the root;
\* a timeline of nine entities across the overflow of vruntime.
CONSTANTS
  c1 = c1  c2 = c2
  A = A  B = B  t1 = t1  t2 = t2  t3 = t3  t4 = t4  Root = Root  None = None
  Groups = {A, B}
  Tasks = {t1, t2, t3, t4}
  up <- MCup
  Parts = {"bandwidth", "groups", "timeline"}
  Cpus = {c1, c2}
  Quota = 3
  Slice = 2
  MinRuntime = 1
  MaxDelta = 1
  MaxDebt = 1
  Forced = FALSE
  Hotplug = {c2}
  End = End
SPECIFICATION MCSpec
INVARIANTS FairTypeOK TimerCoversThrottled PoolWithinQuota Accounting QueuedIffRunnable TreeBalanced
PROPERTIES KeepsUnthrottling ImplementsQueue
