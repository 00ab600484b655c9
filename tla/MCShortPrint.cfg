\* One writer whose write() is a byte longer than the buffer; two that also write
\* single bytes; one reader of a buffer of three records.
CONSTANTS
  w1 = w1  w2 = w2  r1 = r1
  Writers = {w1, w2}
  Readers = {r1}
  PageSize = 3
  InSize = 1
  Counts = {4}
  Signalled = {w1}
  None = None
  Parts = {"bytes", "pair", "times"}
SPECIFICATION MCSpec
INVARIANTS MCTypeOK PrintsInOrder TimerCoversOutput
PROPERTY OutputProceeds
