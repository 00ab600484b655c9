\* A reader, a writer and a process that opens the pipe in either role.
CONSTANTS
  reader = reader  writer = writer  other = other
  Procs = {reader, writer, other}
  NoProc = NoProc
  a = a  b = b
  Byte = {a, b}
  Junk = Junk
  MaxSize = 3
  BufSizes = {3}
  Payloads <- MCPayloads
  Counts = {1, 2}
  Modes <- MCTrio
  Polls = {}
  AsyncProcs = {}
  Signalled = {}
  ResizeInUse = FALSE
SPECIFICATION Spec
INVARIANTS TypeOK PointersOK BufferKept NoLostReadWakeup NoLostWriteWakeup
PROPERTY ImplementsPipe
\* An open() that empties the buffer can leave every process asleep.
CHECK_DEADLOCK FALSE
