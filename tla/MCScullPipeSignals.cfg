\* Two processes, with poll(), SIGIO, signals and two buffer sizes.
CONSTANTS
  reader = reader  writer = writer  other = other
  Procs = {writer, other}
  NoProc = NoProc
  a = a  b = b
  Byte = {a, b}
  Junk = Junk
  MaxSize = 2
  BufSizes = {1, 2}
  Payloads <- MCPayloads
  Counts = {2}
  Modes <- MCModes
  Polls = {{"in"}, {"out"}}
  AsyncProcs = {other}
  Signalled = {other}
  ResizeInUse = TRUE
SPECIFICATION FairSpec
INVARIANTS SemaphoreDiscipline AsyncOnlyOpen
PROPERTY ReadersWake
\* Without signals every process may be asleep in poll().
CHECK_DEADLOCK FALSE
