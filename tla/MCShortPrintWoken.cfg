\* As MCShortPrint, for the writer that sleeps.
CONSTANTS
  w1 = w1  w2 = w2  r1 = r1
  Writers = {w1, w2}
  Readers = {r1}
  PageSize = 3
  InSize = 1
  Counts = {4}
  Signalled = {w1}
  None = None
  Parts = {"bytes"}
SPECIFICATION MCSpec
INVARIANT SleeperIsWoken
