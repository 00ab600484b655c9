------------------------------ MODULE ScullMem ------------------------------
(***************************************************************************)
(* The bare scull device (scull/main.c): bytes kept in a list of quantum   *)
(* sets, each an array of pointers to quanta, under one semaphore.         *)
(*                                                                         *)
(* The same operations serve the devices of scull/access.c, whose open()   *)
(* functions empty the device without the semaphore (Locked is FALSE).     *)
(* read() and write() note dev->quantum and dev->qset before they take the *)
(* semaphore.  A pointer into the list is followed in one step and used in *)
(* a later one.  The list is a sequence of arrays, an array a sequence of  *)
(* quanta, a quantum a sequence of bytes; <<>> stands for a NULL pointer.  *)
(***************************************************************************)
EXTENDS Integers, Sequences, FiniteSets, SequencesExt

CONSTANTS
  Procs,     \* the processes
  NoProc,    \* the semaphore's holder when nobody holds it
  Byte,      \* the bytes a program writes
  Junk,      \* a byte of a fresh kmalloc() area
  MaxPos,    \* bound: nothing is written at or beyond this position
  MaxItems,  \* bound: a search for a negative item stops when there are so many
  Quanta,    \* the values of scull_quantum, any numbers
  Qsets,     \* the values of scull_qset, any numbers
  Payloads,  \* the user buffers given to write()
  Counts,    \* the counts given to read()
  Modes,     \* the access modes each process opens the device with
  Locked,    \* does open() take the semaphore to empty the device?
  Tuners,    \* the processes that change the parameters
  SCULL_QUANTUM, SCULL_QSET,  \* what SCULL_IOCRESET sets them to
  Offsets    \* the offsets given to lseek()

ASSUME MemAssumption ==
  /\ IsFiniteSet(Procs)
  /\ NoProc \notin Procs
  /\ Junk \notin Byte
  /\ MaxPos \in Nat /\ MaxItems \in Nat
  /\ Quanta \subseteq Int /\ Qsets \subseteq Int
  /\ Payloads \subseteq Seq(Byte)
  /\ Counts \subseteq Nat
  /\ Modes \in [Procs -> SUBSET {"r", "w", "rw"}]
  /\ Offsets \subseteq Int
  /\ Locked \in BOOLEAN
  /\ SCULL_QUANTUM \in Quanta /\ SCULL_QSET \in Qsets

VARIABLES
  scull_quantum, scull_qset,  \* the parameters
  sem,                        \* holder of dev->sem, or NoProc
  quantum, qset, size, data,  \* the fields of *dev
  pc,      \* where each process is
  mode,    \* the access mode of each process's open file
  pos,     \* its f_pos
  geo,     \* quantum and qset as the call in progress noted them
  arg,     \* what write() still has to copy, what read() has copied
  want,    \* the count of the read() in progress
  stale,   \* the processes whose pointer into the list has been freed
  freed,   \* does dev->data point to freed memory?
  wild,    \* history: an access went outside allocated memory
  misfit   \* history: a call worked by another geometry than the device's, or
           \* by a negative quantum

params == <<scull_quantum, scull_qset>>
device == <<quantum, qset, size, data>>
heap   == <<stale, freed, wild, misfit>>
locals == <<mode, pos, geo, arg, want>>
vars   == <<params, sem, device, pc, locals, heap>>

NoGeo == [quantum |-> 0, qset |-> 0]
None  == <<"none">>

Trimming == {"trim_free", "trim_reset"}
Accesses == {"read_find", "read_copy", "read_out",
             "write_find", "write_copy", "write_size"}
Critical == Accesses \cup {"killed"} \cup (IF Locked THEN Trimming ELSE {})
Outside  == {"closed", "idle", "open_down", "read_down", "write_down"}

Min2(x, y) == IF x <= y THEN x ELSE y
Max2(x, y) == IF x >= y THEN x ELSE y

Goto(p, here, there) ==
  /\ pc[p] = here
  /\ pc' = [pc EXCEPT ![p] = there]

Down(p, here, there) ==
  /\ Goto(p, here, there)
  /\ sem = NoProc
  /\ sem' = p

(* The "out:" label: up() and return. *)
Out(p, here) ==
  /\ Goto(p, here, "idle")
  /\ sem' = NoProc
  /\ geo'  = [geo EXCEPT ![p] = NoGeo]
  /\ arg'  = [arg EXCEPT ![p] = None]
  /\ want' = [want EXCEPT ![p] = 0]

(* down_interruptible() gives up its wait for a holder. *)
Interrupted(p, here, there) ==
  /\ sem # NoProc
  /\ Goto(p, here, there)
  /\ geo'  = [geo EXCEPT ![p] = NoGeo]
  /\ arg'  = [arg EXCEPT ![p] = None]
  /\ want' = [want EXCEPT ![p] = 0]
  /\ UNCHANGED <<params, sem, device, pos, heap>>

----------------------------------------------------------------------------
\* Where a position lies, by the geometry that the call noted.

(* Division as in C: toward zero, of a number that is not negative. *)
Quot(x, n) == IF n > 0 THEN x \div n ELSE -(x \div (-n))
Rem(x, n)  == IF n > 0 THEN x % n ELSE x % (-n)

Itemsize(p) == geo[p].quantum * geo[p].qset
Item(p)     == Quot(pos[p], Itemsize(p))
Rest(p)     == Rem(pos[p], Itemsize(p))
SPos(p)     == Quot(Rest(p), geo[p].quantum)
QPos(p)     == Rem(Rest(p), geo[p].quantum)

Noted == [quantum |-> quantum, qset |-> qset]

(* Is the geometry that the call works by the device's, and usable? *)
Fits(p) == geo[p] = Noted /\ quantum >= 0

Nulls(n) == [i \in 1 .. n |-> <<>>]

(* The list as scull_follow() leaves it: long enough, or cut short by a
   kmalloc() that failed.  It looks for a negative item until one fails. *)
Followed(p) ==
  LET enough == IF Item(p) < 0 THEN MaxItems ELSE Item(p) + 1
  IN  {data \o Nulls(k) : k \in 0 .. Max2(0, enough - Len(data))}

Array(d, p)   == d[Item(p) + 1]
Quantum(d, p) == Array(d, p)[SPos(p) + 1]

Reaches(d, p)  == Item(p) >= 0 /\ Len(d) > Item(p)
HasArray(d, p) == Reaches(d, p) /\ Array(d, p) # <<>>
OutOfArray(d, p) ==
  HasArray(d, p) /\ (SPos(p) < 0 \/ Len(Array(d, p)) <= SPos(p))
HasQuantum(d, p) ==
  HasArray(d, p) /\ ~OutOfArray(d, p) /\ Quantum(d, p) # <<>>

(* Does the process follow a pointer that is not, or no longer, good? *)
WildFind(d, p) == freed \/ OutOfArray(d, p)
WildCopy(p, n) ==
  \/ p \in stale \/ freed \/ ~HasQuantum(data, p)
  \/ QPos(p) + n > Len(Quantum(data, p))

(* The call finds its place in list d, or finds that it has none. *)
Finds(p, d) ==
  /\ wild'   = (wild \/ WildFind(d, p))
  /\ misfit' = (misfit \/ ~Fits(p))

(* count > quantum - q_pos compares without a sign. *)
UpToQuantum(p, n) ==
  LET left == geo[p].quantum - QPos(p)
  IN  IF left < 0 THEN n ELSE Min2(n, left)

(* A division by zero: the process dies where it stands, holding dev->sem. *)
Divide(p) ==
  /\ \/ Goto(p, "read_find", "killed") /\ pos[p] < size
     \/ Goto(p, "write_find", "killed")
  /\ Itemsize(p) = 0
  /\ misfit' = (misfit \/ ~Fits(p))
  /\ UNCHANGED <<params, sem, device, locals, stale, freed, wild>>

----------------------------------------------------------------------------
\* open, release, lseek

OpenCall(p, m) ==
  /\ m # "w"
  /\ Goto(p, "closed", "idle")
  /\ mode' = [mode EXCEPT ![p] = m]
  /\ UNCHANGED <<params, sem, device, pos, geo, arg, want, heap>>

(* A write-only open empties the device. *)
OpenEmptying(p) ==
  /\ Goto(p, "closed", IF Locked THEN "open_down" ELSE "trim_free")
  /\ mode' = [mode EXCEPT ![p] = "w"]
  /\ UNCHANGED <<params, sem, device, pos, geo, arg, want, heap>>

(* Broken: open() without the semaphore. *)
OpenDownUnlocked(p) ==
  /\ Goto(p, "open_down", "trim_free")
  /\ UNCHANGED <<params, sem, device, locals, heap>>

OpenDown(p) ==
  /\ Down(p, "open_down", "trim_free")
  /\ UNCHANGED <<params, device, locals, heap>>

OpenInterrupted(p) ==
  /\ Interrupted(p, "open_down", "closed")
  /\ mode' = [mode EXCEPT ![p] = "r"]

(* scull_trim() frees the list: the pointers others hold into it are dead,
   dev->data dangles, and an array shorter than dev->qset is read past its
   end. *)
TrimFree(p) ==
  /\ Goto(p, "trim_free", "trim_reset")
  /\ stale' = {q \in Procs : pc[q] \in {"read_copy", "write_copy"}}
  /\ freed' = (data # <<>>)
  /\ wild'  = (wild \/ freed \/ \E i \in 1 .. Len(data) :
                                  data[i] # <<>> /\ Len(data[i]) < qset)
  /\ UNCHANGED <<params, sem, device, locals, misfit>>

(* The rest of scull_trim(), and the up() of an open that took the
   semaphore. *)
TrimReset(p) ==
  /\ Goto(p, "trim_reset", "idle")
  /\ sem'     = IF Locked THEN NoProc ELSE sem
  /\ size'    = 0
  /\ quantum' = scull_quantum
  /\ qset'    = scull_qset
  /\ data'    = <<>>
  /\ freed'   = FALSE
  /\ UNCHANGED <<params, locals, stale, wild, misfit>>

Release(p) ==
  /\ Goto(p, "idle", "closed")
  /\ mode' = [mode EXCEPT ![p] = "r"]
  /\ pos'  = [pos EXCEPT ![p] = 0]
  /\ UNCHANGED <<params, sem, device, geo, arg, want, heap>>

(* SEEK_END looks at dev->size without the semaphore; a negative position is
   refused. *)
Llseek(p, whence, off) ==
  LET newpos == off + CASE whence = "set" -> 0
                        [] whence = "cur" -> pos[p]
                        [] whence = "end" -> size
  IN  /\ pc[p] = "idle"
      /\ newpos \in 0 .. MaxPos
      /\ pos' = [pos EXCEPT ![p] = newpos]
      /\ UNCHANGED <<params, sem, device, pc, mode, geo, arg, want, heap>>

(* The ioctl commands that set a parameter for the next trim, unchecked. *)
IoctlQuantum(p, v) ==
  /\ pc[p] = "idle"
  /\ scull_quantum' = v
  /\ UNCHANGED <<scull_qset, sem, device, pc, locals, heap>>

IoctlQset(p, v) ==
  /\ pc[p] = "idle"
  /\ scull_qset' = v
  /\ UNCHANGED <<scull_quantum, sem, device, pc, locals, heap>>

IoctlReset(p) ==
  /\ pc[p] = "idle"
  /\ scull_quantum' = SCULL_QUANTUM
  /\ scull_qset' = SCULL_QSET
  /\ UNCHANGED <<sem, device, pc, locals, heap>>

----------------------------------------------------------------------------
\* read

ReadCall(p, n) ==
  /\ mode[p] \in {"r", "rw"}
  /\ Goto(p, "idle", "read_down")
  /\ geo'  = [geo EXCEPT ![p] = Noted]
  /\ want' = [want EXCEPT ![p] = n]
  /\ UNCHANGED <<params, sem, device, mode, pos, arg, heap>>

ReadDown(p) ==
  /\ Down(p, "read_down", "read_find")
  /\ UNCHANGED <<params, device, locals, heap>>

ReadInterrupted(p) ==
  /\ Interrupted(p, "read_down", "idle")
  /\ UNCHANGED mode

(* Nothing to read: the position is at or past the end. *)
ReadEnd(p) ==
  /\ Goto(p, "read_find", "read_out")
  /\ pos[p] >= size
  /\ arg' = [arg EXCEPT ![p] = <<>>]
  /\ UNCHANGED <<params, sem, device, mode, pos, geo, want, heap>>

(* No list item, no array or no quantum there: holes are not filled. *)
ReadHole(p) ==
  /\ Goto(p, "read_find", "read_out")
  /\ pos[p] < size /\ Itemsize(p) # 0
  /\ \E d \in Followed(p) :
       /\ Finds(p, d)
       /\ ~HasQuantum(d, p)
       /\ data' = d
  /\ arg' = [arg EXCEPT ![p] = <<>>]
  /\ UNCHANGED <<params, sem, quantum, qset, size, mode, pos, geo, want,
                 stale, freed>>

(* Broken: does not stop at the size. *)
ReadFoundNoSize(p) ==
  /\ Goto(p, "read_find", "read_copy")
  /\ pos[p] < size /\ Itemsize(p) # 0
  /\ Finds(p, data)
  /\ HasQuantum(data, p) \/ OutOfArray(data, p)
  /\ UNCHANGED <<params, sem, device, locals, stale, freed>>

(* Beyond the end of an array anything can be found. *)
ReadFound(p) ==
  /\ Goto(p, "read_find", "read_copy")
  /\ pos[p] < size /\ Itemsize(p) # 0
  /\ Finds(p, data)
  /\ HasQuantum(data, p) \/ OutOfArray(data, p)
  /\ want' = [want EXCEPT ![p] = Min2(@, size - pos[p])]
  /\ UNCHANGED <<params, sem, device, mode, pos, geo, arg, stale, freed>>

ReadCount(p) == UpToQuantum(p, want[p])

(* Bytes from a freed or too short area are junk. *)
ByteAt(p, i) ==
  IF WildCopy(p, i + 1) THEN Junk ELSE Quantum(data, p)[QPos(p) + i + 1]

ReadCopy(p) ==
  /\ Goto(p, "read_copy", "read_out")
  /\ LET n == ReadCount(p)
     IN  /\ arg' = [arg EXCEPT ![p] = [i \in 1 .. n |-> ByteAt(p, i - 1)]]
         /\ pos' = [pos EXCEPT ![p] = @ + n]
         /\ wild' = (wild \/ WildCopy(p, n))
  /\ stale' = stale \ {p}
  /\ UNCHANGED <<params, sem, device, mode, geo, want, freed, misfit>>

(* A copy of nothing does not fail. *)
ReadFault(p) ==
  /\ Out(p, "read_copy")
  /\ ReadCount(p) > 0
  /\ stale' = stale \ {p}
  /\ UNCHANGED <<params, device, mode, pos, freed, wild, misfit>>

ReadOut(p) ==
  /\ Out(p, "read_out")
  /\ UNCHANGED <<params, device, mode, pos, heap>>

----------------------------------------------------------------------------
\* write

WriteCall(p, d) ==
  /\ mode[p] \in {"w", "rw"}
  /\ pos[p] + Len(d) <= MaxPos
  /\ Goto(p, "idle", "write_down")
  /\ geo' = [geo EXCEPT ![p] = Noted]
  /\ arg' = [arg EXCEPT ![p] = d]
  /\ UNCHANGED <<params, sem, device, mode, pos, want, heap>>

WriteDown(p) ==
  /\ Down(p, "write_down", "write_find")
  /\ UNCHANGED <<params, device, locals, heap>>

WriteInterrupted(p) ==
  /\ Interrupted(p, "write_down", "idle")
  /\ UNCHANGED mode

(* Broken: sized by the module parameter instead of the noted qset. *)
WithArrayParam(d, p) ==
  IF HasArray(d, p) THEN d ELSE [d EXCEPT ![Item(p) + 1] = Nulls(scull_qset)]

(* The list once scull_follow() has reached the item, and once the array and
   the quantum have been allocated where they were missing. *)
WithArray(d, p) ==
  IF HasArray(d, p) THEN d ELSE [d EXCEPT ![Item(p) + 1] = Nulls(geo[p].qset)]

WithQuantum(d, p) ==
  IF OutOfArray(d, p) \/ HasQuantum(d, p) THEN d
  ELSE [d EXCEPT ![Item(p) + 1][SPos(p) + 1] =
                   [i \in 1 .. geo[p].quantum |-> Junk]]

(* kmalloc() fails for a negative size, which is a huge one to it. *)
Arrays(p) ==
  {WithArray(d, p) : d \in {e \in Followed(p) :
     Reaches(e, p) /\ (HasArray(e, p) \/ geo[p].qset > 0)}}

WriteFind(p) ==
  /\ Goto(p, "write_find", "write_copy")
  /\ Itemsize(p) # 0
  /\ \E d \in Arrays(p) :
       /\ Finds(p, d)
       /\ OutOfArray(d, p) \/ HasQuantum(d, p) \/ geo[p].quantum > 0
       /\ data' = WithQuantum(d, p)
  /\ UNCHANGED <<params, sem, quantum, qset, size, locals, stale, freed>>

(* One of the allocations fails; what the earlier ones added stays. *)
WriteNoMemory(p) ==
  /\ Out(p, "write_find")
  /\ Itemsize(p) # 0
  /\ \/ \E d \in Followed(p) : Finds(p, d) /\ ~HasArray(d, p) /\ data' = d
     \/ \E d \in Arrays(p) : Finds(p, d) /\ ~HasQuantum(d, p) /\ data' = d
  /\ UNCHANGED <<params, quantum, qset, size, mode, pos, stale, freed>>

WriteCount(p) == UpToQuantum(p, Len(arg[p]))

(* The list with bytes d put at the position. *)
Stored(p, d) ==
  IF p \in stale \/ ~HasQuantum(data, p) THEN data
  ELSE [data EXCEPT ![Item(p) + 1][SPos(p) + 1] =
          [i \in DOMAIN @ |-> IF i \in QPos(p) + 1 .. QPos(p) + Len(d)
                                THEN d[i - QPos(p)] ELSE @[i]]]

WriteCopy(p) ==
  /\ Goto(p, "write_copy", "write_size")
  /\ data' = Stored(p, SubSeq(arg[p], 1, WriteCount(p)))
  /\ pos'  = [pos EXCEPT ![p] = @ + WriteCount(p)]
  /\ wild' = (wild \/ WildCopy(p, WriteCount(p)))
  /\ stale' = stale \ {p}
  /\ UNCHANGED <<params, sem, quantum, qset, size, mode, geo, arg, want,
                 freed, misfit>>

(* Broken: the size counts what was asked for although the copy failed. *)
WriteFaultGrows(p) ==
  /\ Out(p, "write_copy")
  /\ size' = Max2(size, pos[p] + Len(arg[p]))
  /\ stale' = stale \ {p}
  /\ UNCHANGED <<params, quantum, qset, data, mode, pos, freed, wild, misfit>>

(* copy_from_user() stopped after k bytes and cleared the rest. *)
WriteFault(p) ==
  /\ Out(p, "write_copy")
  /\ \E k \in 0 .. (WriteCount(p) - 1) :
       data' = Stored(p, [i \in 1 .. WriteCount(p) |->
                            IF i <= k THEN arg[p][i] ELSE Junk])
  /\ wild' = (wild \/ WildCopy(p, WriteCount(p)))
  /\ stale' = stale \ {p}
  /\ UNCHANGED <<params, quantum, qset, size, mode, pos, freed, misfit>>

(* Broken: the size becomes where the write ended, even within the data. *)
WriteSizeAlways(p) ==
  /\ size' = pos[p]
  /\ Out(p, "write_size")
  /\ UNCHANGED <<params, quantum, qset, data, mode, pos, heap>>

WriteSize(p) ==
  /\ size' = Max2(size, pos[p])
  /\ Out(p, "write_size")
  /\ UNCHANGED <<params, quantum, qset, data, mode, pos, heap>>

----------------------------------------------------------------------------

Init ==
  /\ scull_quantum \in Quanta /\ scull_qset \in Qsets
  /\ sem = NoProc
  /\ quantum = scull_quantum /\ qset = scull_qset
  /\ size = 0 /\ data = <<>>
  /\ pc   = [p \in Procs |-> "closed"]
  /\ mode = [p \in Procs |-> "r"]
  /\ pos  = [p \in Procs |-> 0]
  /\ geo  = [p \in Procs |-> NoGeo]
  /\ arg  = [p \in Procs |-> None]
  /\ want = [p \in Procs |-> 0]
  /\ stale = {} /\ freed = FALSE /\ wild = FALSE /\ misfit = FALSE

Call(p) ==
  \/ \E m \in Modes[p] : OpenCall(p, m)
  \/ "w" \in Modes[p] /\ OpenEmptying(p)
  \/ Release(p)
  \/ \E w \in {"set", "cur", "end"} : \E o \in Offsets : Llseek(p, w, o)
  \/ \E n \in Counts : ReadCall(p, n)
  \/ \E d \in Payloads : WriteCall(p, d)
  \/ p \in Tuners /\ \E v \in Quanta : IoctlQuantum(p, v)
  \/ p \in Tuners /\ \E v \in Qsets : IoctlQset(p, v)
  \/ p \in Tuners /\ IoctlReset(p)

Step(p) ==
  \/ OpenDown(p) \/ OpenInterrupted(p)
  \/ TrimFree(p) \/ TrimReset(p) \/ Divide(p)
  \/ ReadDown(p) \/ ReadInterrupted(p) \/ ReadEnd(p) \/ ReadHole(p)
  \/ ReadFound(p) \/ ReadCopy(p) \/ ReadFault(p) \/ ReadOut(p)
  \/ WriteDown(p) \/ WriteInterrupted(p) \/ WriteFind(p) \/ WriteNoMemory(p)
  \/ WriteCopy(p) \/ WriteFault(p) \/ WriteSize(p)

Next == \E p \in Procs : Call(p) \/ Step(p)

Spec == Init /\ [][Next]_vars

----------------------------------------------------------------------------
\* Properties

PCs == Outside \cup Trimming \cup Accesses \cup {"killed"}

(* Every variable holds a value of its kind; in particular no read() carries its
   position past MaxPos, beyond which nothing is written (main.c:304-307). *)
TypeOK ==
  /\ scull_quantum \in Quanta /\ scull_qset \in Qsets
  /\ quantum \in Quanta /\ qset \in Qsets
  /\ sem \in Procs \cup {NoProc}
  /\ size \in 0 .. MaxPos
  /\ data \in Seq(Seq(Seq(Byte \cup {Junk})))
  /\ pc \in [Procs -> PCs]
  /\ mode \in [Procs -> {"r", "w", "rw"}]
  /\ pos \in [Procs -> 0 .. MaxPos]
  /\ \A p \in Procs :
       /\ geo[p] = NoGeo \/ geo[p] \in [quantum : Quanta, qset : Qsets]
       /\ arg[p] = None \/ arg[p] \in Seq(Byte \cup {Junk})
       /\ want[p] \in Nat
  /\ stale \subseteq Procs
  /\ freed \in BOOLEAN /\ wild \in BOOLEAN /\ misfit \in BOOLEAN

(* An access leaves allocated memory only once some call has worked by another
   geometry than the device's: one that waited for the semaphore while the
   device was emptied and got new parameters (main.c:297, main.c:341).  Or by a
   negative quantum, which the ioctl takes too (main.c:429) and which leads to a
   place before the array.  Every other access, whatever fails or is
   interrupted, stays inside the list, its arrays and their quanta. *)
InBounds == wild => misfit

(* "Must be called with the device semaphore held" (main.c:60): while one
   process is in scull_trim() no other is using the list.  Where open() does not
   take it (access.c:64, 123, 191, 294) this is left to the device having one
   user at a time. *)
TrimAlone ==
  \A p, q \in Procs : p # q /\ pc[p] \in Trimming => pc[q] \notin Accesses

(* The list has the geometry that the device says it has, so that the next
   scull_trim() and every position find what was allocated: changing the
   parameters by ioctl leaves a device with data in it alone, until a call works
   by a geometry that it noted before. *)
ListShape ==
  ~misfit => \A i \in 1 .. Len(data) :
    data[i] # <<>> =>
      /\ Len(data[i]) = qset
      /\ \A j \in 1 .. qset : data[i][j] # <<>> => Len(data[i][j]) = quantum

Usable == quantum > 0 /\ qset > 0

(* Is there a quantum at position x, by the device's geometry? *)
Kept(x) ==
  LET item == x \div (quantum * qset)
      rest == x % (quantum * qset)
  IN  /\ Len(data) > item
      /\ data[item + 1] # <<>>
      /\ data[item + 1][(rest \div quantum) + 1] # <<>>

\* The byte stored there, or Junk.
ByteOf(x) ==
  LET item == x \div (quantum * qset)
      rest == x % (quantum * qset)
  IN  IF Usable /\ Kept(x)
        THEN data[item + 1][(rest \div quantum) + 1][(rest % quantum) + 1]
        ELSE Junk

(* The size never runs ahead of the data, even between scull_trim()'s steps and
   after a write that failed half way: the last byte below it lies in a quantum
   that exists, or the first one at it does, which is what a write() of no bytes
   at a position past the end leaves behind (main.c:364-382). *)
SizeBacked ==
  size > 0 /\ ~freed /\ ~misfit => Usable /\ (Kept(size - 1) \/ Kept(size))

Finishing == {p \in Procs : pc[p] = "write_size"}

(* What the device promises: the quanta hold a sparse array of bytes; a write
   takes effect at its copy, before dev->size catches up. *)
Abstract == INSTANCE Store WITH
  Hole  <- Junk,
  bytes <- [x \in 0 .. (MaxPos - 1) |-> IF freed THEN Junk ELSE ByteOf(x)],
  size  <- IF freed THEN 0
           ELSE LET w == {pos[p] : p \in Finishing}
                IN  Max(w \cup {size}),
  got   <- [p \in Procs |-> IF pc[p] = "read_out" THEN arg[p] ELSE None],
  asks  <- [p \in Procs |-> want[p] > 0]

(* With open, trim, read, write and their failures interleaved, the list of
   quantum sets behaves as that array (main.c:292-387), until a call works by a
   geometry that is not the device's. *)
ImplementsStore ==
  /\ Abstract!Init
  /\ [][misfit' \/ [Abstract!Next]_(Abstract!vars)]_vars
=============================================================================
