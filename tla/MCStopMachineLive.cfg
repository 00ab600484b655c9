\* Two cpus; one task stops one or both, the other the machine, and takes a cpu
\* down and up again.
CONSTANTS
  a = a  b = b  c = c
  NCpu = 2
  Tasks = {a, b}
  None = None
  home <- MCHomeLive
  Calls <- MCCallsLive
SPECIFICATION FairSpec
PROPERTY CompletionFires
