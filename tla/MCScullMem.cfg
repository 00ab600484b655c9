\* Two processes that share a bare scull device; one alone with a device whose
\* open() takes no semaphore; two that share one whose parameters change.
CONSTANTS
  p1 = p1  p2 = p2
  Procs = {p1, p2}
  NoProc = NoProc
  a = a  b = b
  Byte = {a, b}
  Junk = Junk
  MaxPos = 3
  MaxItems = 2
  Quanta <- MCQuanta
  Qsets <- MCQsets
  SCULL_QUANTUM = 2
  SCULL_QSET = 1
  Payloads <- MCPayloads
  Counts = {0, 2}
  Modes <- MCShared
  Offsets <- MCOffsets
  Locked = TRUE
  Tuners = {}
  Parts = {"shared", "solo", "tuned"}
SPECIFICATION MCSpec
INVARIANTS TypeOK InBounds SizeBacked ListShape TrimAlone
PROPERTY ImplementsStore
