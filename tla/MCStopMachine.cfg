\* Two cpus; one task stops one or two, one stops the machine or takes a cpu
\* down, one stops any set of cpus and brings a cpu up.
CONSTANTS
  a = a  b = b  c = c
  NCpu = 2
  Tasks = {a, b, c}
  None = None
  home <- MCHome
  Calls <- MCCalls
SPECIFICATION Spec
INVARIANTS TypeOK Stopped LockStep NoReverseOrder NoUseAfterReturn ReturnsWhenDone ParkedEmpty
