-------------------------------- MODULE Pipe --------------------------------
(***************************************************************************)
(* What a pipe device promises, without locks, sleeping or a circular      *)
(* buffer: one bounded first-in first-out stream of bytes.  A write()      *)
(* appends a non-empty prefix of what it was given, a read() takes a       *)
(* non-empty prefix of the stream, and nothing else touches it, except     *)
(* that every open() and the last close() empty it.                        *)
(***************************************************************************)
EXTENDS Integers, Sequences

CONSTANTS Procs,  \* the processes
          Byte    \* the bytes they write

VARIABLES
  stream,  \* written and not yet read
  cap,     \* how many bytes the stream may hold
  users,   \* the processes that have the device open
  given,   \* given[p]: what p's write() has still to append
  got      \* got[p]: what p's read() has taken and not yet returned

vars == <<stream, cap, users, given, got>>

Take(s, k) == SubSeq(s, 1, k)
Drop(s, k) == SubSeq(s, k + 1, Len(s))

Open(p) ==
  /\ p \notin users
  /\ users' = users \cup {p}
  /\ stream' = <<>>
  /\ cap' \in Nat
  /\ UNCHANGED <<given, got>>

Close(p) ==
  /\ p \in users
  /\ users' = users \ {p}
  /\ IF users' = {} THEN stream' = <<>> /\ cap' = 0
                    ELSE UNCHANGED <<stream, cap>>
  /\ UNCHANGED <<given, got>>

Give(p) ==
  /\ p \in users /\ given[p] = <<>>
  /\ given'[p] \in Seq(Byte)
  /\ given' = [given EXCEPT ![p] = given'[p]]
  /\ UNCHANGED <<stream, cap, users, got>>

(* A write() appends what fits, and at least one byte. *)
Put(p) ==
  /\ p \in users
  /\ \E k \in 1 .. Len(given[p]) : stream' = stream \o Take(given[p], k)
  /\ Len(stream') <= cap
  /\ given' = [given EXCEPT ![p] = <<>>]
  /\ UNCHANGED <<cap, users, got>>

(* A write() that fails has appended nothing. *)
Withdraw(p) ==
  /\ given' = [given EXCEPT ![p] = <<>>]
  /\ UNCHANGED <<stream, cap, users, got>>

Get(p) ==
  /\ p \in users /\ got[p] = <<>>
  /\ \E k \in 1 .. Len(stream) :
       /\ got' = [got EXCEPT ![p] = Take(stream, k)]
       /\ stream' = Drop(stream, k)
  /\ UNCHANGED <<cap, users, given>>

Deliver(p) ==
  /\ got' = [got EXCEPT ![p] = <<>>]
  /\ UNCHANGED <<stream, cap, users, given>>

Init ==
  /\ stream = <<>> /\ cap = 0 /\ users = {}
  /\ given = [p \in Procs |-> <<>>]
  /\ got   = [p \in Procs |-> <<>>]

Next == \E p \in Procs :
  \/ Open(p) \/ Close(p) \/ Give(p) \/ Put(p) \/ Withdraw(p)
  \/ Get(p) \/ Deliver(p)

Spec == Init /\ [][Next]_vars
=============================================================================
