-------------------------------- MODULE Store --------------------------------
(***************************************************************************)
(* What a scull device promises: a sparse array of bytes with a size and a *)
(* file position per process.  A write() stores a non-empty prefix of what *)
(* it was given at the caller's position, and the size covers where it     *)
(* stops, even if it was given nothing.  A read() takes a non-empty run of *)
(* the bytes there, and takes nothing only if it asks for nothing, at the  *)
(* end, or where nothing was ever stored.  Emptying forgets everything.    *)
(***************************************************************************)
EXTENDS Integers, Sequences

CONSTANTS Procs,   \* the processes
          Byte,    \* the bytes they write
          Hole,    \* what a position holds that was never written
          MaxPos   \* positions are 0 .. MaxPos - 1

VARIABLES
  bytes,  \* the byte at each position, or Hole
  size,   \* the device's size
  pos,    \* each process's file position
  got,    \* what a read() in progress has taken, or <<"none">>
  asks    \* does the read() in progress ask for a byte?

vars == <<bytes, size, pos, got, asks>>

None == <<"none">>

Larger(a, b) == IF a >= b THEN a ELSE b

(* got'[p] agrees with the array wherever something was written. *)
Agrees(p, k) ==
  /\ Len(got'[p]) = k
  /\ \A i \in 1 .. k : bytes[pos[p] + i - 1] # Hole
                         => got'[p][i] = bytes[pos[p] + i - 1]

Write(p, d) ==
  /\ \E k \in IF d = <<>> THEN {0} ELSE 1 .. Len(d) :
       /\ pos' = [pos EXCEPT ![p] = @ + k]
       /\ bytes' = [x \in DOMAIN bytes |->
                      IF x \in pos[p] .. (pos[p] + k - 1) THEN d[x - pos[p] + 1]
                                                          ELSE bytes[x]]
  /\ size' = Larger(size, pos'[p])
  /\ UNCHANGED <<got, asks>>

(* A write() that fails part way: what it covered holds the new bytes or
   nothing, and neither size nor position moves. *)
Spoil(p, d) ==
  /\ bytes' = [x \in DOMAIN bytes |-> bytes'[x]]
  /\ \A x \in DOMAIN bytes :
       IF x \in pos[p] .. (pos[p] + Len(d) - 1)
         THEN bytes'[x] \in {bytes[x], d[x - pos[p] + 1], Hole}
         ELSE bytes'[x] = bytes[x]
  /\ UNCHANGED <<size, pos, got, asks>>

Ask(p) ==
  /\ asks' = [asks EXCEPT ![p] = TRUE]
  /\ UNCHANGED <<bytes, size, pos, got>>

Read(p) ==
  /\ got[p] = None
  /\ got' = [got EXCEPT ![p] = got'[p]]
  /\ \/ \E k \in 1 .. (size - pos[p]) :
          /\ asks[p]
          /\ Agrees(p, k)
          /\ pos' = [pos EXCEPT ![p] = @ + k]
     \/ /\ got'[p] = <<>>
        /\ ~asks[p] \/ pos[p] >= size \/ bytes[pos[p]] = Hole
        /\ UNCHANGED pos
  /\ UNCHANGED <<bytes, size, asks>>

Return(p) ==
  /\ got' = [got EXCEPT ![p] = None]
  /\ asks' = [asks EXCEPT ![p] = FALSE]
  /\ UNCHANGED <<bytes, size, pos>>

(* lseek(), and open(), which starts at 0. *)
Seek(p) ==
  /\ pos' = [pos EXCEPT ![p] = pos'[p]]
  /\ UNCHANGED <<bytes, size, got, asks>>

Empty ==
  /\ bytes' = [x \in DOMAIN bytes |-> Hole]
  /\ size' = 0
  /\ UNCHANGED <<pos, got, asks>>

Init ==
  /\ bytes = [x \in 0 .. (MaxPos - 1) |-> Hole]
  /\ size = 0
  /\ pos = [p \in Procs |-> 0]
  /\ got = [p \in Procs |-> None]
  /\ asks = [p \in Procs |-> FALSE]

Next ==
  \/ \E p \in Procs : Ask(p) \/ Read(p) \/ Return(p) \/ Seek(p)
  \/ \E p \in Procs : \E k \in 0 .. MaxPos : \E d \in [1 .. k -> Byte] :
       Write(p, d) \/ Spoil(p, d)
  \/ Empty

Spec == Init /\ [][Next]_vars
=============================================================================
