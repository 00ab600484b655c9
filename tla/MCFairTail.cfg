\* As MCFair, with a quota of one slice: less than the two cpus may owe.
CONSTANTS
  c1 = c1  c2 = c2
  A = A  B = B  t1 = t1  t2 = t2  t3 = t3  t4 = t4  Root = Root  None = None
  Groups = {A, B}
  Tasks = {t1, t2, t3, t4}
  up <- MCup
  Parts = {"bandwidth"}
  Cpus = {c1, c2}
  Quota = 2
  Slice = 2
  MinRuntime = 1
  MaxDelta = 1
  MaxDebt = 1
  Forced = FALSE
  Hotplug = {}
  End = End
SPECIFICATION MCSpec
PROPERTY EachIsUnthrottled
