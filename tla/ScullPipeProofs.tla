--------------------------- MODULE ScullPipeProofs ---------------------------
(***************************************************************************)
(* Theorems about ScullPipe for any number of processes, any buffer sizes  *)
(* and any payloads.                                                       *)
(***************************************************************************)
EXTENDS ScullPipe, FiniteSetTheorems, SequenceTheorems, TLAPS

----------------------------------------------------------------------------
\* Arithmetic of the circular buffer.

(* What C's % yields in spacefree() for the three ranges of its operand
   (pipe.c:185): below the buffer size, ... *)
LEMMA ModSmall ==
  ASSUME NEW n \in Nat, NEW x \in Nat, x < n
  PROVE  x % n = x
  BY SMT

(* ... from there to below twice the size, ... *)
LEMMA ModOnce ==
  ASSUME NEW n \in Nat, n # 0, NEW x \in Nat, n <= x, x < n + n
  PROVE  x % n = x - n
  BY SMT

(* ... and at twice the size. *)
LEMMA ModTwice ==
  ASSUME NEW n \in Nat, n # 0
  PROVE  (n + n) % n = 0
  BY SMT

(* spacefree() where no pointer stands at dev->end. *)
LEMMA SpaceFree ==
  ASSUME bufsize \in Nat, rp \in Nat, wp \in Nat, rp < bufsize, wp < bufsize
  PROVE  /\ spacefree \in 0 .. (bufsize - 1)
         /\ rp = wp => spacefree = bufsize - 1
         /\ rp < wp => spacefree = rp + bufsize - wp - 1
         /\ rp > wp => spacefree = rp - wp - 1
<1>1. CASE rp = wp
  BY <1>1 DEF spacefree
<1>2. CASE rp < wp
  <2>1. (rp + bufsize - wp) % bufsize = rp + bufsize - wp
    BY <1>2, ModSmall
  <2> QED BY <1>2, <2>1 DEF spacefree
<1>3. CASE rp > wp
  <2> DEFINE x == rp + bufsize - wp
  <2>0. x \in Nat /\ bufsize <= x /\ x < bufsize + bufsize
    BY <1>3
  <2> HIDE DEF x
  <2>1. x % bufsize = x - bufsize
    BY <2>0, ModOnce
  <2> QED BY <1>3, <2>1 DEF spacefree, x
<1>4. rp = wp \/ rp < wp \/ rp > wp
  OBVIOUS
<1> QED BY <1>1, <1>2, <1>3, <1>4, Zenon

(* The lockless test of the wait loop: a process that finds no space finds
   none even when a pointer stands at dev->end. *)
LEMMA NoSpace ==
  ASSUME bufsize \in Nat, bufsize # 0,
         rp \in 0 .. bufsize, wp \in 0 .. bufsize, spacefree = 0
  PROVE  ~NotFull
<1>1. CASE rp = wp
  BY <1>1 DEF spacefree, NotFull, Wrapped
<1>2. CASE rp < wp /\ (rp # 0 \/ wp # bufsize)
  <2>1. (rp + bufsize - wp) % bufsize = rp + bufsize - wp
    BY <1>2, ModSmall
  <2> QED BY <1>2, <2>1 DEF spacefree, NotFull, Wrapped
<1>3. CASE rp = 0 /\ wp = bufsize
  <2>1. (rp + bufsize - wp) % bufsize = 0
    BY <1>3, ModSmall
  <2> QED BY <1>3, <2>1 DEF spacefree
<1>4. CASE rp > wp /\ (rp # bufsize \/ wp # 0)
  <2> DEFINE x == rp + bufsize - wp
  <2>0. x \in Nat /\ bufsize <= x /\ x < bufsize + bufsize
    BY <1>4
  <2> HIDE DEF x
  <2>1. x % bufsize = x - bufsize
    BY <2>0, ModOnce
  <2> QED BY <1>4, <2>1 DEF spacefree, NotFull, Wrapped, x
<1>5. CASE rp = bufsize /\ wp = 0
  <2>1. (rp + bufsize - wp) % bufsize = 0
    BY <1>5, ModTwice
  <2> QED BY <1>5, <2>1 DEF spacefree
<1> QED BY <1>1, <1>2, <1>3, <1>4, <1>5

----------------------------------------------------------------------------
\* Copies stay inside the buffer.

(* A read() that copies finds both pointers before dev->end and takes at most
   what lies between them, or up to dev->end. *)
LEMMA ReadRange ==
  ASSUME TypeOK, SemaphoreDiscipline, PointersOK,
         NEW p \in Procs, pc[p] = "read_copy"
  PROVE  /\ bufsize \in 1 .. MaxSize
         /\ rp < bufsize /\ wp < bufsize /\ rp # wp
         /\ ReadCount(p) \in Nat
         /\ rp + ReadCount(p) <= bufsize
         /\ rp < wp => rp + ReadCount(p) <= wp
         /\ NotEmpty
<1>1. \A q \in Procs : pc[q] \notin {"read_wrap", "write_wrap"}
  BY DEF SemaphoreDiscipline, Critical
<1>2. bufsize \in 1 .. MaxSize /\ rp \in Nat /\ wp \in Nat /\ count[p] \in Nat
  BY PipeAssumption DEF TypeOK, PointersOK, Users
<1>3. rp < bufsize /\ wp < bufsize /\ rp # wp
  BY <1>1, <1>2 DEF PointersOK
<1> QED BY <1>2, <1>3 DEF ReadCount, Min2, NotEmpty, Wrapped

(* A write() that copies does so before dev->end, never catches up with the
   read pointer, and takes no more than it was given. *)
LEMMA WriteRange ==
  ASSUME TypeOK, SemaphoreDiscipline, PointersOK,
         NEW p \in Procs, pc[p] = "write_copy"
  PROVE  /\ bufsize \in 1 .. MaxSize
         /\ rp < bufsize /\ wp < bufsize
         /\ WriteCount(p) \in 0 .. Len(ubuf[p])
         /\ wp + WriteCount(p) <= bufsize
         /\ wp < rp => wp + WriteCount(p) < rp
         /\ wp >= rp /\ rp = 0 => wp + WriteCount(p) < bufsize
         /\ NotFull
<1>1. \A q \in Procs : pc[q] \notin {"read_wrap", "write_wrap"}
  BY DEF SemaphoreDiscipline, Critical
<1>0. bufsize # 0
  BY DEF PointersOK, Users
<1>2. bufsize \in 1 .. MaxSize /\ rp \in Nat /\ wp \in Nat
  BY <1>0, PipeAssumption DEF TypeOK
<1>3. rp < bufsize /\ wp < bufsize /\ spacefree # 0
  BY <1>1, <1>2 DEF PointersOK
<1>4. count[p] \in Nat /\ count[p] = Len(ubuf[p])
  BY DEF PointersOK, Offering, TypeOK
<1>5. /\ spacefree \in 0 .. (bufsize - 1)
      /\ rp = wp => spacefree = bufsize - 1
      /\ rp < wp => spacefree = rp + bufsize - wp - 1
      /\ rp > wp => spacefree = rp - wp - 1
  BY <1>2, <1>3, SpaceFree
<1>6. NotFull
  BY <1>2, <1>3, <1>5 DEF NotFull, Wrapped
<1>7. WriteCount(p) \in 0 .. Len(ubuf[p]) /\ WriteCount(p) <= spacefree
  <2>1. spacefree \in Nat /\ Len(ubuf[p]) \in Nat
    BY <1>2, <1>4, <1>5
  <2>2. (IF wp >= rp THEN bufsize - wp ELSE rp - wp - 1) \in Nat
    BY <1>2, <1>3
  <2> QED BY <1>4, <2>1, <2>2 DEF WriteCount, Min2
<1>8. WriteCount(p) <= IF wp >= rp THEN bufsize - wp ELSE rp - wp - 1
  BY <1>2, <1>3, <1>4, <1>5 DEF WriteCount, Min2
<1>9. wp >= rp /\ rp = 0 => wp + WriteCount(p) < bufsize
  <2>1. wp >= rp /\ rp = 0 => spacefree = bufsize - wp - 1
    BY <1>2, <1>3, <1>5
  <2> QED BY <1>2, <1>5, <1>7, <2>1
<1> QED BY <1>2, <1>3, <1>6, <1>7, <1>8, <1>9

(* What a process that has the device open concludes from spacefree() = 0. *)
LEMMA FullForUser ==
  ASSUME TypeOK, PointersOK, NEW p \in Procs, p \in Users, spacefree = 0
  PROVE  ~NotFull
<1>1. /\ bufsize \in Nat /\ bufsize # 0
      /\ rp \in 0 .. bufsize /\ wp \in 0 .. bufsize
  BY PipeAssumption DEF TypeOK, PointersOK
<1> QED BY <1>1, NoSpace

----------------------------------------------------------------------------
\* The semaphore, the types and the pointers form an inductive invariant.

(* No step takes or drops dev->sem except on its way into or out of a
   critical section. *)
LEMMA SemaphoreStep ==
  ASSUME TypeOK, SemaphoreDiscipline, [Next]_vars
  PROVE  SemaphoreDiscipline'
<1> USE PipeAssumption DEF TypeOK, SemaphoreDiscipline, Goto, Down, Up, Return, Interrupted,
           Critical, Outside, shared, queues, locals
<1>1. ASSUME NEW p \in Procs, Call(p)
      PROVE  SemaphoreDiscipline'
  <2>1. ASSUME NEW m \in Modes[p], OpenCall(p, m)
        PROVE  SemaphoreDiscipline'
    BY <2>1 DEF OpenCall
  <2>2. CASE ReleaseCall(p)
    BY <2>2 DEF ReleaseCall
  <2>3. ASSUME NEW n \in Counts, ReadCall(p, n)
        PROVE  SemaphoreDiscipline'
    BY <2>3 DEF ReadCall
  <2>4. ASSUME NEW d \in Payloads, WriteCall(p, d)
        PROVE  SemaphoreDiscipline'
    BY <2>4 DEF WriteCall
  <2>5. ASSUME NEW e \in Polls, PollCall(p, e)
        PROVE  SemaphoreDiscipline'
    BY <2>5 DEF PollCall
  <2>6. CASE Fasync(p)
    BY <2>6 DEF Fasync
  <2> QED BY <1>1, <2>1, <2>2, <2>3, <2>4, <2>5, <2>6 DEF Call
<1>2. ASSUME NEW p \in Procs, OpenStep(p)
      PROVE  SemaphoreDiscipline'
  <2>1. CASE OpenDown(p)
    BY <2>1 DEF OpenDown
  <2>2. CASE OpenInterrupted(p)
    BY <2>2 DEF OpenInterrupted
  <2>3. CASE OpenAlloc(p)
    BY <2>3 DEF OpenAlloc
  <2>4. CASE OpenNoMemory(p)
    BY <2>4 DEF OpenNoMemory
  <2>5. CASE OpenInit(p)
    BY <2>5 DEF OpenInit
  <2> QED BY <1>2, <2>1, <2>2, <2>3, <2>4, <2>5 DEF OpenStep
<1>3. ASSUME NEW p \in Procs, ReleaseStep(p)
      PROVE  SemaphoreDiscipline'
  <2>1. CASE ReleaseDown(p)
    BY <2>1 DEF ReleaseDown
  <2>2. CASE ReleaseBody(p)
    BY <2>2 DEF ReleaseBody
  <2> QED BY <1>3, <2>1, <2>2 DEF ReleaseStep
<1>4. ASSUME NEW p \in Procs, ReadStep(p)
      PROVE  SemaphoreDiscipline'
  <2>1. CASE ReadDown(p)
    BY <2>1 DEF ReadDown
  <2>2. CASE ReadInterrupted(p)
    BY <2>2 DEF ReadInterrupted
  <2>3. CASE ReadHasData(p)
    BY <2>3 DEF ReadHasData
  <2>4. CASE ReadAgain(p)
    BY <2>4 DEF ReadAgain
  <2>5. CASE ReadEmpty(p)
    BY <2>5 DEF ReadEmpty
  <2>6. CASE ReadPrepare(p)
    BY <2>6 DEF ReadPrepare
  <2>7. CASE ReadResume(p)
    BY <2>7 DEF ReadResume
  <2>8. CASE ReadSignalled(p)
    BY <2>8 DEF ReadSignalled
  <2>9. CASE ReadSleep(p)
    BY <2>9 DEF ReadSleep
  <2>10. CASE ReadAwake(p)
    BY <2>10 DEF ReadAwake
  <2>11. CASE ReadCopy(p)
    BY <2>11 DEF ReadCopy
  <2>12. CASE ReadFault(p)
    BY <2>12 DEF ReadFault
  <2>13. CASE ReadWrap(p)
    BY <2>13 DEF ReadWrap
  <2>14. CASE ReadWakeWriters(p)
    BY <2>14 DEF ReadWakeWriters
  <2> QED BY <1>4, <2>1, <2>2, <2>3, <2>4, <2>5, <2>6, <2>7, <2>8, <2>9, <2>10,
             <2>11, <2>12, <2>13, <2>14 DEF ReadStep
<1>5. ASSUME NEW p \in Procs, WriteStep(p)
      PROVE  SemaphoreDiscipline'
  <2>1. CASE WriteDown(p)
    BY <2>1 DEF WriteDown
  <2>2. CASE WriteInterrupted(p)
    BY <2>2 DEF WriteInterrupted
  <2>3. CASE WriteHasSpace(p)
    BY <2>3 DEF WriteHasSpace
  <2>4. CASE WriteAgain(p)
    BY <2>4 DEF WriteAgain
  <2>5. CASE WriteFull(p)
    BY <2>5 DEF WriteFull
  <2>6. CASE WritePrepare(p)
    BY <2>6 DEF WritePrepare
  <2>7. CASE WriteCondition(p)
    BY <2>7 DEF WriteCondition
  <2>8. CASE WriteAwake(p)
    BY <2>8 DEF WriteAwake
  <2>9. CASE WriteFinishWait(p)
    BY <2>9 DEF WriteFinishWait
  <2>10. CASE WriteSignalled(p)
    BY <2>10 DEF WriteSignalled
  <2>11. CASE WriteCopy(p)
    BY <2>11 DEF WriteCopy
  <2>12. CASE WriteFault(p)
    BY <2>12 DEF WriteFault
  <2>13. CASE WriteWrap(p)
    BY <2>13 DEF WriteWrap
  <2>14. CASE WriteWakeReaders(p)
    BY <2>14 DEF WriteWakeReaders
  <2>15. CASE WriteSignalAsync(p)
    BY <2>15 DEF WriteSignalAsync
  <2> QED BY <1>5, <2>1, <2>2, <2>3, <2>4, <2>5, <2>6, <2>7, <2>8, <2>9, <2>10,
             <2>11, <2>12, <2>13, <2>14, <2>15 DEF WriteStep
<1>6. ASSUME NEW p \in Procs, PollStep(p)
      PROVE  SemaphoreDiscipline'
  <2>1. CASE PollDown(p)
    BY <2>1 DEF PollDown
  <2>2. CASE PollReady(p)
    BY <2>2 DEF PollReady
  <2>3. CASE PollSleep(p)
    BY <2>3 DEF PollSleep
  <2>4. CASE PollAwake(p)
    BY <2>4 DEF PollAwake
  <2>5. CASE PollSignalled(p)
    BY <2>5 DEF PollSignalled
  <2> QED BY <1>6, <2>1, <2>2, <2>3, <2>4, <2>5 DEF PollStep
<1>7. ASSUME NEW p \in Procs, Signal(p)
      PROVE  SemaphoreDiscipline'
  BY <1>7 DEF Signal
<1>8. ASSUME NEW n \in BufSizes, ResizeIoctl(n)
      PROVE  SemaphoreDiscipline'
  BY <1>8 DEF ResizeIoctl
<1>9. CASE UNCHANGED vars
  BY <1>9 DEF vars
<1> QED BY <1>1, <1>2, <1>3, <1>4, <1>5, <1>6, <1>7, <1>8, <1>9 DEF Next, Step

(* What a process opens the device with is an access mode. *)
LEMMA OpenedFile ==
  ASSUME NEW p \in Procs, NEW m \in Modes[p]
  PROVE  m \in [access : SUBSET {"r", "w"}, nonblock : BOOLEAN]
<1>1. m \in [access : {{"r"}, {"w"}, {"r", "w"}}, nonblock : BOOLEAN]
  BY PipeAssumption
<1>2. \A x \in {{"r"}, {"w"}, {"r", "w"}} : x \in SUBSET {"r", "w"}
  OBVIOUS
<1> QED BY <1>1, <1>2

(* What a read() copies are bytes of the buffer, and where it leaves rp. *)
LEMMA ReadBytes ==
  ASSUME TypeOK, SemaphoreDiscipline, PointersOK,
         NEW p \in Procs, pc[p] = "read_copy"
  PROVE  /\ rp + ReadCount(p) \in 0 .. MaxSize
         /\ [i \in 1 .. ReadCount(p) |-> mem[rp + i - 1]]
              \in Seq(Byte \cup {Junk})
<1>1. /\ MaxSize \in Nat
      /\ bufsize \in 1 .. MaxSize /\ rp \in Nat /\ ReadCount(p) \in Nat
      /\ rp + ReadCount(p) <= bufsize
  BY ReadRange, PipeAssumption DEF TypeOK
<1>2. \A i \in 1 .. ReadCount(p) : rp + i - 1 \in Addr
  BY <1>1 DEF Addr
<1>3. mem \in [Addr -> Byte \cup {Junk}]
  BY DEF TypeOK
<1>4. \A i \in 1 .. ReadCount(p) : mem[rp + i - 1] \in Byte \cup {Junk}
  BY <1>2, <1>3
<1>5. [i \in 1 .. ReadCount(p) |-> mem[rp + i - 1]]
        \in [1 .. ReadCount(p) -> Byte \cup {Junk}]
  BY <1>4, Zenon
<1>6. rp + ReadCount(p) \in 0 .. MaxSize
  BY <1>1
<1>7. [i \in 1 .. ReadCount(p) |-> mem[rp + i - 1]] \in Seq(Byte \cup {Junk})
  <2>1. \A n \in Nat : \A f \in [1 .. n -> Byte \cup {Junk}] :
          f \in Seq(Byte \cup {Junk})
    OBVIOUS
  <2> QED BY <1>1, <1>5, <2>1, Zenon
<1> QED BY <1>6, <1>7

(* What a write() leaves in the buffer, and where it leaves wp. *)
LEMMA WriteBytes ==
  ASSUME TypeOK, SemaphoreDiscipline, PointersOK,
         NEW p \in Procs, pc[p] = "write_copy"
  PROVE  /\ wp + WriteCount(p) \in 0 .. MaxSize
         /\ \A x \in wp .. (wp + WriteCount(p) - 1) :
              ubuf[p][x - wp + 1] \in Byte \cup {Junk}
<1>1. /\ MaxSize \in Nat
      /\ bufsize \in 1 .. MaxSize /\ wp \in Nat
      /\ WriteCount(p) \in 0 .. Len(ubuf[p])
      /\ wp + WriteCount(p) <= bufsize
  BY WriteRange, PipeAssumption DEF TypeOK
<1>2. ubuf[p] \in Seq(Byte \cup {Junk})
  BY DEF TypeOK
<1>3. \A i \in 1 .. Len(ubuf[p]) : ubuf[p][i] \in Byte \cup {Junk}
  BY <1>2
<1>4. \A x \in wp .. (wp + WriteCount(p) - 1) :
        x - wp + 1 \in 1 .. Len(ubuf[p])
  BY <1>1, <1>2
<1>5. wp + WriteCount(p) \in 0 .. MaxSize
  BY <1>1, <1>2
<1> QED BY <1>3, <1>4, <1>5, Zenon

(* No step takes a variable out of its type: the pointers stay within the
   buffer because the counts do. *)
LEMMA TypeStep ==
  ASSUME TypeOK, SemaphoreDiscipline, PointersOK, [Next]_vars
  PROVE  TypeOK'
<1> USE PipeAssumption DEF TypeOK, PointersOK, SemaphoreDiscipline, Goto, Down, Up,
           Return, Interrupted, Critical, Outside, shared, queues, locals, Addr,
           NoFile
<1>1. ASSUME NEW p \in Procs, Call(p)
      PROVE  TypeOK'
  <2>1. ASSUME NEW m \in Modes[p], OpenCall(p, m)
        PROVE  TypeOK'
    BY <2>1, OpenedFile DEF OpenCall
  <2>2. CASE ReleaseCall(p)
    BY <2>2 DEF ReleaseCall
  <2>3. ASSUME NEW n \in Counts, ReadCall(p, n)
        PROVE  TypeOK'
    BY <2>3 DEF ReadCall
  <2>4. ASSUME NEW d \in Payloads, WriteCall(p, d)
        PROVE  TypeOK'
    BY <2>4 DEF WriteCall
  <2>5. ASSUME NEW e \in Polls, PollCall(p, e)
        PROVE  TypeOK'
    BY <2>5 DEF PollCall
  <2>6. CASE Fasync(p)
    BY <2>6 DEF Fasync
  <2> QED BY <1>1, <2>1, <2>2, <2>3, <2>4, <2>5, <2>6 DEF Call
<1>2. ASSUME NEW p \in Procs, OpenStep(p)
      PROVE  TypeOK'
  <2>1. CASE OpenDown(p)
    BY <2>1 DEF OpenDown
  <2>2. CASE OpenInterrupted(p)
    BY <2>2 DEF OpenInterrupted
  <2>3. CASE OpenAlloc(p)
    BY <2>3 DEF OpenAlloc
  <2>4. CASE OpenNoMemory(p)
    BY <2>4 DEF OpenNoMemory
  <2>5. CASE OpenInit(p)
    BY <2>5 DEF OpenInit
  <2> QED BY <1>2, <2>1, <2>2, <2>3, <2>4, <2>5 DEF OpenStep
<1>3. ASSUME NEW p \in Procs, ReleaseStep(p)
      PROVE  TypeOK'
  <2>1. CASE ReleaseDown(p)
    BY <2>1 DEF ReleaseDown
  <2>2. CASE ReleaseBody(p)
    BY <2>2 DEF ReleaseBody
  <2> QED BY <1>3, <2>1, <2>2 DEF ReleaseStep
<1>4. ASSUME NEW p \in Procs, ReadStep(p)
      PROVE  TypeOK'
  <2>1. CASE ReadDown(p)
    BY <2>1 DEF ReadDown
  <2>2. CASE ReadInterrupted(p)
    BY <2>2 DEF ReadInterrupted
  <2>3. CASE ReadHasData(p)
    BY <2>3 DEF ReadHasData
  <2>4. CASE ReadAgain(p)
    BY <2>4 DEF ReadAgain
  <2>5. CASE ReadEmpty(p)
    BY <2>5 DEF ReadEmpty
  <2>6. CASE ReadPrepare(p)
    BY <2>6 DEF ReadPrepare
  <2>7. CASE ReadResume(p)
    BY <2>7 DEF ReadResume
  <2>8. CASE ReadSignalled(p)
    BY <2>8 DEF ReadSignalled
  <2>9. CASE ReadSleep(p)
    BY <2>9 DEF ReadSleep
  <2>10. CASE ReadAwake(p)
    BY <2>10 DEF ReadAwake
  <2>11. CASE ReadCopy(p)
    BY <2>11, ReadBytes DEF ReadCopy
  <2>12. CASE ReadFault(p)
    BY <2>12 DEF ReadFault
  <2>13. CASE ReadWrap(p)
    BY <2>13 DEF ReadWrap
  <2>14. CASE ReadWakeWriters(p)
    BY <2>14 DEF ReadWakeWriters
  <2> QED BY <1>4, <2>1, <2>2, <2>3, <2>4, <2>5, <2>6, <2>7, <2>8, <2>9, <2>10,
             <2>11, <2>12, <2>13, <2>14 DEF ReadStep
<1>5. ASSUME NEW p \in Procs, WriteStep(p)
      PROVE  TypeOK'
  <2>1. CASE WriteDown(p)
    BY <2>1 DEF WriteDown
  <2>2. CASE WriteInterrupted(p)
    BY <2>2 DEF WriteInterrupted
  <2>3. CASE WriteHasSpace(p)
    BY <2>3 DEF WriteHasSpace
  <2>4. CASE WriteAgain(p)
    BY <2>4 DEF WriteAgain
  <2>5. CASE WriteFull(p)
    BY <2>5 DEF WriteFull
  <2>6. CASE WritePrepare(p)
    BY <2>6 DEF WritePrepare
  <2>7. CASE WriteCondition(p)
    BY <2>7 DEF WriteCondition
  <2>8. CASE WriteAwake(p)
    BY <2>8 DEF WriteAwake
  <2>9. CASE WriteFinishWait(p)
    BY <2>9 DEF WriteFinishWait
  <2>10. CASE WriteSignalled(p)
    BY <2>10 DEF WriteSignalled
  <2>11. CASE WriteCopy(p)
    <3>1. mem' \in [Addr -> Byte \cup {Junk}] /\ wp' \in 0 .. MaxSize
      BY <2>11, WriteBytes DEF WriteCopy
    <3> QED BY <2>11, <3>1 DEF WriteCopy
  <2>12. CASE WriteFault(p)
    BY <2>12 DEF WriteFault
  <2>13. CASE WriteWrap(p)
    BY <2>13 DEF WriteWrap
  <2>14. CASE WriteWakeReaders(p)
    BY <2>14 DEF WriteWakeReaders
  <2>15. CASE WriteSignalAsync(p)
    <3>1. sig' \in [Procs -> BOOLEAN]
      BY <2>15, Zenon DEF WriteSignalAsync
    <3>2. /\ Goto(p, "write_sigio", "idle")
          /\ count' = [count EXCEPT ![p] = 0]
          /\ ubuf'  = [ubuf EXCEPT ![p] = <<>>]
          /\ UNCHANGED <<shared, queues, file, events>>
      BY <2>15 DEF WriteSignalAsync
    <3> QED BY <3>1, <3>2
  <2> QED BY <1>5, <2>1, <2>2, <2>3, <2>4, <2>5, <2>6, <2>7, <2>8, <2>9, <2>10,
             <2>11, <2>12, <2>13, <2>14, <2>15 DEF WriteStep
<1>6. ASSUME NEW p \in Procs, PollStep(p)
      PROVE  TypeOK'
  <2>1. CASE PollDown(p)
    BY <2>1 DEF PollDown
  <2>2. CASE PollReady(p)
    BY <2>2 DEF PollReady
  <2>3. CASE PollSleep(p)
    BY <2>3 DEF PollSleep
  <2>4. CASE PollAwake(p)
    BY <2>4 DEF PollAwake
  <2>5. CASE PollSignalled(p)
    BY <2>5 DEF PollSignalled
  <2> QED BY <1>6, <2>1, <2>2, <2>3, <2>4, <2>5 DEF PollStep
<1>7. ASSUME NEW p \in Procs, Signal(p)
      PROVE  TypeOK'
  BY <1>7 DEF Signal
<1>8. ASSUME NEW n \in BufSizes, ResizeIoctl(n)
      PROVE  TypeOK'
  BY <1>8 DEF ResizeIoctl
<1>9. CASE UNCHANGED vars
  BY <1>9 DEF vars
<1> QED BY <1>1, <1>2, <1>3, <1>4, <1>5, <1>6, <1>7, <1>8, <1>9 DEF Next, Step

(* A pointer leaves dev->end before the semaphore is dropped, and nobody else
   moves the pointers between a test under the semaphore and the copy. *)
LEMMA PointersStep ==
  ASSUME TypeOK, SemaphoreDiscipline, PointersOK, [Next]_vars
  PROVE  PointersOK'
<1> USE PipeAssumption DEF TypeOK, PointersOK, SemaphoreDiscipline, Goto, Down, Up,
           Return, Interrupted, Critical, Outside, shared, queues, locals, Addr,
           Users, Offering, spacefree
<1>1. ASSUME NEW p \in Procs, Call(p)
      PROVE  PointersOK'
  <2>1. ASSUME NEW m \in Modes[p], OpenCall(p, m)
        PROVE  PointersOK'
    BY <2>1 DEF OpenCall
  <2>2. CASE ReleaseCall(p)
    BY <2>2 DEF ReleaseCall
  <2>3. ASSUME NEW n \in Counts, ReadCall(p, n)
        PROVE  PointersOK'
    BY <2>3 DEF ReadCall
  <2>4. ASSUME NEW d \in Payloads, WriteCall(p, d)
        PROVE  PointersOK'
    BY <2>4 DEF WriteCall
  <2>5. ASSUME NEW e \in Polls, PollCall(p, e)
        PROVE  PointersOK'
    BY <2>5 DEF PollCall
  <2>6. CASE Fasync(p)
    BY <2>6 DEF Fasync
  <2> QED BY <1>1, <2>1, <2>2, <2>3, <2>4, <2>5, <2>6 DEF Call
<1>2. ASSUME NEW p \in Procs, OpenStep(p)
      PROVE  PointersOK'
  <2>1. CASE OpenDown(p)
    BY <2>1 DEF OpenDown
  <2>2. CASE OpenInterrupted(p)
    BY <2>2 DEF OpenInterrupted
  <2>3. CASE OpenAlloc(p)
    BY <2>3 DEF OpenAlloc
  <2>4. CASE OpenNoMemory(p)
    BY <2>4 DEF OpenNoMemory
  <2>5. CASE OpenInit(p)
    BY <2>5 DEF OpenInit
  <2> QED BY <1>2, <2>1, <2>2, <2>3, <2>4, <2>5 DEF OpenStep
<1>3. ASSUME NEW p \in Procs, ReleaseStep(p)
      PROVE  PointersOK'
  <2>1. CASE ReleaseDown(p)
    BY <2>1 DEF ReleaseDown
  <2>2. CASE ReleaseBody(p)
    BY <2>2 DEF ReleaseBody
  <2> QED BY <1>3, <2>1, <2>2 DEF ReleaseStep
<1>4. ASSUME NEW p \in Procs, ReadStep(p)
      PROVE  PointersOK'
  <2>1. CASE ReadDown(p)
    BY <2>1 DEF ReadDown
  <2>2. CASE ReadInterrupted(p)
    BY <2>2 DEF ReadInterrupted
  <2>3. CASE ReadHasData(p)
    BY <2>3 DEF ReadHasData
  <2>4. CASE ReadAgain(p)
    BY <2>4 DEF ReadAgain
  <2>5. CASE ReadEmpty(p)
    BY <2>5 DEF ReadEmpty
  <2>6. CASE ReadPrepare(p)
    BY <2>6 DEF ReadPrepare
  <2>7. CASE ReadResume(p)
    BY <2>7 DEF ReadResume
  <2>8. CASE ReadSignalled(p)
    BY <2>8 DEF ReadSignalled
  <2>9. CASE ReadSleep(p)
    BY <2>9 DEF ReadSleep
  <2>10. CASE ReadAwake(p)
    BY <2>10 DEF ReadAwake
  <2>11. CASE ReadCopy(p)
    <3>1. rp + ReadCount(p) <= bufsize
      BY <2>11, ReadRange DEF ReadCopy
    <3> QED BY <2>11, <3>1 DEF ReadCopy
  <2>12. CASE ReadFault(p)
    BY <2>12 DEF ReadFault
  <2>13. CASE ReadWrap(p)
    BY <2>13 DEF ReadWrap
  <2>14. CASE ReadWakeWriters(p)
    BY <2>14 DEF ReadWakeWriters
  <2> QED BY <1>4, <2>1, <2>2, <2>3, <2>4, <2>5, <2>6, <2>7, <2>8, <2>9, <2>10,
             <2>11, <2>12, <2>13, <2>14 DEF ReadStep
<1>5. ASSUME NEW p \in Procs, WriteStep(p)
      PROVE  PointersOK'
  <2>1. CASE WriteDown(p)
    BY <2>1 DEF WriteDown
  <2>2. CASE WriteInterrupted(p)
    BY <2>2 DEF WriteInterrupted
  <2>3. CASE WriteHasSpace(p)
    BY <2>3 DEF WriteHasSpace
  <2>4. CASE WriteAgain(p)
    BY <2>4 DEF WriteAgain
  <2>5. CASE WriteFull(p)
    BY <2>5 DEF WriteFull
  <2>6. CASE WritePrepare(p)
    BY <2>6 DEF WritePrepare
  <2>7. CASE WriteCondition(p)
    BY <2>7 DEF WriteCondition
  <2>8. CASE WriteAwake(p)
    BY <2>8 DEF WriteAwake
  <2>9. CASE WriteFinishWait(p)
    BY <2>9 DEF WriteFinishWait
  <2>10. CASE WriteSignalled(p)
    BY <2>10 DEF WriteSignalled
  <2>11. CASE WriteCopy(p)
    <3>1. wp + WriteCount(p) <= bufsize
      BY <2>11, WriteRange DEF WriteCopy
    <3> QED BY <2>11, <3>1 DEF WriteCopy
  <2>12. CASE WriteFault(p)
    BY <2>12 DEF WriteFault
  <2>13. CASE WriteWrap(p)
    BY <2>13 DEF WriteWrap
  <2>14. CASE WriteWakeReaders(p)
    BY <2>14 DEF WriteWakeReaders
  <2>15. CASE WriteSignalAsync(p)
    BY <2>15 DEF WriteSignalAsync
  <2> QED BY <1>5, <2>1, <2>2, <2>3, <2>4, <2>5, <2>6, <2>7, <2>8, <2>9, <2>10,
             <2>11, <2>12, <2>13, <2>14, <2>15 DEF WriteStep
<1>6. ASSUME NEW p \in Procs, PollStep(p)
      PROVE  PointersOK'
  <2>1. CASE PollDown(p)
    BY <2>1 DEF PollDown
  <2>2. CASE PollReady(p)
    BY <2>2 DEF PollReady
  <2>3. CASE PollSleep(p)
    BY <2>3 DEF PollSleep
  <2>4. CASE PollAwake(p)
    BY <2>4 DEF PollAwake
  <2>5. CASE PollSignalled(p)
    BY <2>5 DEF PollSignalled
  <2> QED BY <1>6, <2>1, <2>2, <2>3, <2>4, <2>5 DEF PollStep
<1>7. ASSUME NEW p \in Procs, Signal(p)
      PROVE  PointersOK'
  BY <1>7 DEF Signal
<1>8. ASSUME NEW n \in BufSizes, ResizeIoctl(n)
      PROVE  PointersOK'
  BY <1>8 DEF ResizeIoctl
<1>9. CASE UNCHANGED vars
  BY <1>9 DEF vars
<1> QED BY <1>1, <1>2, <1>3, <1>4, <1>5, <1>6, <1>7, <1>8, <1>9 DEF Next, Step

(* Only a write() makes an empty buffer non-empty, and it goes on to wake the
   readers; a reader that queues after that looks at the buffer again. *)
LEMMA ReadWakeupStep ==
  ASSUME TypeOK, SemaphoreDiscipline, PointersOK, NoLostReadWakeup, [Next]_vars
  PROVE  NoLostReadWakeup'
<1> USE PipeAssumption DEF TypeOK, Goto, Down, Up, Return, Interrupted, Critical, Outside,
           shared, queues, locals, NoLostReadWakeup, NotEmpty, Wrapped, SleepsFor
<1>1. ASSUME NEW p \in Procs, Call(p)
      PROVE  NoLostReadWakeup'
  <2>1. ASSUME NEW m \in Modes[p], OpenCall(p, m)
        PROVE  NoLostReadWakeup'
    BY <2>1 DEF OpenCall
  <2>2. CASE ReleaseCall(p)
    BY <2>2 DEF ReleaseCall
  <2>3. ASSUME NEW n \in Counts, ReadCall(p, n)
        PROVE  NoLostReadWakeup'
    BY <2>3 DEF ReadCall
  <2>4. ASSUME NEW d \in Payloads, WriteCall(p, d)
        PROVE  NoLostReadWakeup'
    BY <2>4 DEF WriteCall
  <2>5. ASSUME NEW e \in Polls, PollCall(p, e)
        PROVE  NoLostReadWakeup'
    BY <2>5 DEF PollCall
  <2>6. CASE Fasync(p)
    BY <2>6 DEF Fasync
  <2> QED BY <1>1, <2>1, <2>2, <2>3, <2>4, <2>5, <2>6 DEF Call
<1>2. ASSUME NEW p \in Procs, OpenStep(p)
      PROVE  NoLostReadWakeup'
  <2>1. CASE OpenDown(p)
    BY <2>1 DEF OpenDown
  <2>2. CASE OpenInterrupted(p)
    BY <2>2 DEF OpenInterrupted
  <2>3. CASE OpenAlloc(p)
    BY <2>3 DEF OpenAlloc
  <2>4. CASE OpenNoMemory(p)
    BY <2>4 DEF OpenNoMemory
  <2>5. CASE OpenInit(p)
    BY <2>5 DEF OpenInit
  <2> QED BY <1>2, <2>1, <2>2, <2>3, <2>4, <2>5 DEF OpenStep
<1>3. ASSUME NEW p \in Procs, ReleaseStep(p)
      PROVE  NoLostReadWakeup'
  <2>1. CASE ReleaseDown(p)
    BY <2>1 DEF ReleaseDown
  <2>2. CASE ReleaseBody(p)
    BY <2>2 DEF ReleaseBody
  <2> QED BY <1>3, <2>1, <2>2 DEF ReleaseStep
<1>4. ASSUME NEW p \in Procs, ReadStep(p)
      PROVE  NoLostReadWakeup'
  <2>1. CASE ReadDown(p)
    BY <2>1 DEF ReadDown
  <2>2. CASE ReadInterrupted(p)
    BY <2>2 DEF ReadInterrupted
  <2>3. CASE ReadHasData(p)
    BY <2>3 DEF ReadHasData
  <2>4. CASE ReadAgain(p)
    BY <2>4 DEF ReadAgain
  <2>5. CASE ReadEmpty(p)
    BY <2>5 DEF ReadEmpty
  <2>6. CASE ReadPrepare(p)
    <3>1. SUFFICES ASSUME NEW r \in (inq)', SleepsFor(r, "in")', NotEmpty'
                PROVE  \E q \in Procs : pc'[q] \in {"write_wrap", "write_wake"}
      OBVIOUS
    <3>2. r \in (inq) /\ r # p /\ SleepsFor(r, "in") /\ NotEmpty
      BY <2>6, <3>1 DEF ReadPrepare
    <3>3. PICK q \in Procs : pc[q] \in {"write_wrap", "write_wake"}
      BY <3>2
    <3> QED BY <2>6, <3>3 DEF ReadPrepare
  <2>7. CASE ReadResume(p)
    BY <2>7 DEF ReadResume
  <2>8. CASE ReadSignalled(p)
    BY <2>8 DEF ReadSignalled
  <2>9. CASE ReadSleep(p)
    BY <2>9 DEF ReadSleep
  <2>10. CASE ReadAwake(p)
    BY <2>10 DEF ReadAwake
  <2>11. CASE ReadCopy(p)
    <3>1. SUFFICES ASSUME NEW r \in (inq)', SleepsFor(r, "in")', NotEmpty'
                PROVE  \E q \in Procs : pc'[q] \in {"write_wrap", "write_wake"}
      OBVIOUS
    <3>2. r \in (inq) /\ r # p /\ SleepsFor(r, "in") /\ NotEmpty
      BY <2>11, <3>1, ReadRange DEF ReadCopy
    <3>3. PICK q \in Procs : pc[q] \in {"write_wrap", "write_wake"}
      BY <3>2
    <3> QED BY <2>11, <3>3 DEF ReadCopy
  <2>12. CASE ReadFault(p)
    BY <2>12 DEF ReadFault
  <2>13. CASE ReadWrap(p)
    BY <2>13 DEF ReadWrap
  <2>14. CASE ReadWakeWriters(p)
    BY <2>14 DEF ReadWakeWriters
  <2> QED BY <1>4, <2>1, <2>2, <2>3, <2>4, <2>5, <2>6, <2>7, <2>8, <2>9, <2>10,
             <2>11, <2>12, <2>13, <2>14 DEF ReadStep
<1>5. ASSUME NEW p \in Procs, WriteStep(p)
      PROVE  NoLostReadWakeup'
  <2>1. CASE WriteDown(p)
    BY <2>1 DEF WriteDown
  <2>2. CASE WriteInterrupted(p)
    BY <2>2 DEF WriteInterrupted
  <2>3. CASE WriteHasSpace(p)
    BY <2>3 DEF WriteHasSpace
  <2>4. CASE WriteAgain(p)
    BY <2>4 DEF WriteAgain
  <2>5. CASE WriteFull(p)
    BY <2>5 DEF WriteFull
  <2>6. CASE WritePrepare(p)
    BY <2>6 DEF WritePrepare
  <2>7. CASE WriteCondition(p)
    BY <2>7 DEF WriteCondition
  <2>8. CASE WriteAwake(p)
    BY <2>8 DEF WriteAwake
  <2>9. CASE WriteFinishWait(p)
    BY <2>9 DEF WriteFinishWait
  <2>10. CASE WriteSignalled(p)
    BY <2>10 DEF WriteSignalled
  <2>11. CASE WriteCopy(p)
    BY <2>11 DEF WriteCopy
  <2>12. CASE WriteFault(p)
    BY <2>12 DEF WriteFault
  <2>13. CASE WriteWrap(p)
    BY <2>13 DEF WriteWrap
  <2>14. CASE WriteWakeReaders(p)
    BY <2>14 DEF WriteWakeReaders
  <2>15. CASE WriteSignalAsync(p)
    BY <2>15 DEF WriteSignalAsync
  <2> QED BY <1>5, <2>1, <2>2, <2>3, <2>4, <2>5, <2>6, <2>7, <2>8, <2>9, <2>10,
             <2>11, <2>12, <2>13, <2>14, <2>15 DEF WriteStep
<1>6. ASSUME NEW p \in Procs, PollStep(p)
      PROVE  NoLostReadWakeup'
  <2>1. CASE PollDown(p)
    BY <2>1 DEF PollDown
  <2>2. CASE PollReady(p)
    BY <2>2 DEF PollReady
  <2>3. CASE PollSleep(p)
    <3>1. SUFFICES ASSUME NEW r \in (inq)', SleepsFor(r, "in")', NotEmpty'
                PROVE  \E q \in Procs : pc'[q] \in {"write_wrap", "write_wake"}
      OBVIOUS
    <3>2. r \in (inq) /\ r # p /\ SleepsFor(r, "in") /\ NotEmpty
      BY <2>3, <3>1 DEF PollSleep, Mask
    <3>3. PICK q \in Procs : pc[q] \in {"write_wrap", "write_wake"}
      BY <3>2
    <3> QED BY <2>3, <3>3 DEF PollSleep
  <2>4. CASE PollAwake(p)
    BY <2>4 DEF PollAwake
  <2>5. CASE PollSignalled(p)
    BY <2>5 DEF PollSignalled
  <2> QED BY <1>6, <2>1, <2>2, <2>3, <2>4, <2>5 DEF PollStep
<1>7. ASSUME NEW p \in Procs, Signal(p)
      PROVE  NoLostReadWakeup'
  BY <1>7 DEF Signal
<1>8. ASSUME NEW n \in BufSizes, ResizeIoctl(n)
      PROVE  NoLostReadWakeup'
  BY <1>8 DEF ResizeIoctl
<1>9. CASE UNCHANGED vars
  BY <1>9 DEF vars
<1> QED BY <1>1, <1>2, <1>3, <1>4, <1>5, <1>6, <1>7, <1>8, <1>9 DEF Next, Step

(* Only a read() or an open() makes a full buffer less full; the read() goes on
   to wake the writers, and the open() marks those it forgets as missed. *)
LEMMA WriteWakeupStep ==
  ASSUME TypeOK, SemaphoreDiscipline, PointersOK, NoLostWriteWakeup, [Next]_vars
  PROVE  NoLostWriteWakeup'
<1> USE PipeAssumption DEF TypeOK, Goto, Down, Up, Return, Interrupted, Critical, Outside,
           shared, queues, locals, NoLostWriteWakeup, NotFull, Wrapped, SleepsFor
<1>1. ASSUME NEW p \in Procs, Call(p)
      PROVE  NoLostWriteWakeup'
  <2>1. ASSUME NEW m \in Modes[p], OpenCall(p, m)
        PROVE  NoLostWriteWakeup'
    BY <2>1 DEF OpenCall
  <2>2. CASE ReleaseCall(p)
    BY <2>2 DEF ReleaseCall
  <2>3. ASSUME NEW n \in Counts, ReadCall(p, n)
        PROVE  NoLostWriteWakeup'
    BY <2>3 DEF ReadCall
  <2>4. ASSUME NEW d \in Payloads, WriteCall(p, d)
        PROVE  NoLostWriteWakeup'
    BY <2>4 DEF WriteCall
  <2>5. ASSUME NEW e \in Polls, PollCall(p, e)
        PROVE  NoLostWriteWakeup'
    BY <2>5 DEF PollCall
  <2>6. CASE Fasync(p)
    BY <2>6 DEF Fasync
  <2> QED BY <1>1, <2>1, <2>2, <2>3, <2>4, <2>5, <2>6 DEF Call
<1>2. ASSUME NEW p \in Procs, OpenStep(p)
      PROVE  NoLostWriteWakeup'
  <2>1. CASE OpenDown(p)
    BY <2>1 DEF OpenDown
  <2>2. CASE OpenInterrupted(p)
    BY <2>2 DEF OpenInterrupted
  <2>3. CASE OpenAlloc(p)
    BY <2>3 DEF OpenAlloc
  <2>4. CASE OpenNoMemory(p)
    BY <2>4 DEF OpenNoMemory
  <2>5. CASE OpenInit(p)
    BY <2>5 DEF OpenInit
  <2> QED BY <1>2, <2>1, <2>2, <2>3, <2>4, <2>5 DEF OpenStep
<1>3. ASSUME NEW p \in Procs, ReleaseStep(p)
      PROVE  NoLostWriteWakeup'
  <2>1. CASE ReleaseDown(p)
    BY <2>1 DEF ReleaseDown
  <2>2. CASE ReleaseBody(p)
    BY <2>2 DEF ReleaseBody
  <2> QED BY <1>3, <2>1, <2>2 DEF ReleaseStep
<1>4. ASSUME NEW p \in Procs, ReadStep(p)
      PROVE  NoLostWriteWakeup'
  <2>1. CASE ReadDown(p)
    BY <2>1 DEF ReadDown
  <2>2. CASE ReadInterrupted(p)
    BY <2>2 DEF ReadInterrupted
  <2>3. CASE ReadHasData(p)
    BY <2>3 DEF ReadHasData
  <2>4. CASE ReadAgain(p)
    BY <2>4 DEF ReadAgain
  <2>5. CASE ReadEmpty(p)
    BY <2>5 DEF ReadEmpty
  <2>6. CASE ReadPrepare(p)
    BY <2>6 DEF ReadPrepare
  <2>7. CASE ReadResume(p)
    BY <2>7 DEF ReadResume
  <2>8. CASE ReadSignalled(p)
    BY <2>8 DEF ReadSignalled
  <2>9. CASE ReadSleep(p)
    BY <2>9 DEF ReadSleep
  <2>10. CASE ReadAwake(p)
    BY <2>10 DEF ReadAwake
  <2>11. CASE ReadCopy(p)
    BY <2>11 DEF ReadCopy
  <2>12. CASE ReadFault(p)
    BY <2>12 DEF ReadFault
  <2>13. CASE ReadWrap(p)
    BY <2>13 DEF ReadWrap
  <2>14. CASE ReadWakeWriters(p)
    BY <2>14 DEF ReadWakeWriters
  <2> QED BY <1>4, <2>1, <2>2, <2>3, <2>4, <2>5, <2>6, <2>7, <2>8, <2>9, <2>10,
             <2>11, <2>12, <2>13, <2>14 DEF ReadStep
<1>5. ASSUME NEW p \in Procs, WriteStep(p)
      PROVE  NoLostWriteWakeup'
  <2>1. CASE WriteDown(p)
    BY <2>1 DEF WriteDown
  <2>2. CASE WriteInterrupted(p)
    BY <2>2 DEF WriteInterrupted
  <2>3. CASE WriteHasSpace(p)
    BY <2>3 DEF WriteHasSpace
  <2>4. CASE WriteAgain(p)
    BY <2>4 DEF WriteAgain
  <2>5. CASE WriteFull(p)
    BY <2>5 DEF WriteFull
  <2>6. CASE WritePrepare(p)
    <3>1. SUFFICES ASSUME NEW r \in (outq \ missed)', SleepsFor(r, "out")', NotFull'
                PROVE  \E q \in Procs : pc'[q] \in {"read_wrap", "read_wake"}
      OBVIOUS
    <3>2. r \in (outq \ missed) /\ r # p /\ SleepsFor(r, "out") /\ NotFull
      BY <2>6, <3>1 DEF WritePrepare
    <3>3. PICK q \in Procs : pc[q] \in {"read_wrap", "read_wake"}
      BY <3>2
    <3> QED BY <2>6, <3>3 DEF WritePrepare
  <2>7. CASE WriteCondition(p)
    <3>1. SUFFICES ASSUME NEW r \in (outq \ missed)', SleepsFor(r, "out")', NotFull'
                PROVE  \E q \in Procs : pc'[q] \in {"read_wrap", "read_wake"}
      OBVIOUS
    <3>2. r \in (outq \ missed) /\ r # p /\ SleepsFor(r, "out") /\ NotFull
      BY <2>7, <3>1, FullForUser DEF WriteCondition, Users
    <3>3. PICK q \in Procs : pc[q] \in {"read_wrap", "read_wake"}
      BY <3>2
    <3> QED BY <2>7, <3>3 DEF WriteCondition
  <2>8. CASE WriteAwake(p)
    BY <2>8 DEF WriteAwake
  <2>9. CASE WriteFinishWait(p)
    BY <2>9 DEF WriteFinishWait
  <2>10. CASE WriteSignalled(p)
    BY <2>10 DEF WriteSignalled
  <2>11. CASE WriteCopy(p)
    <3>1. SUFFICES ASSUME NEW r \in (outq \ missed)', SleepsFor(r, "out")', NotFull'
                PROVE  \E q \in Procs : pc'[q] \in {"read_wrap", "read_wake"}
      OBVIOUS
    <3>2. r \in (outq \ missed) /\ r # p /\ SleepsFor(r, "out") /\ NotFull
      BY <2>11, <3>1, WriteRange DEF WriteCopy
    <3>3. PICK q \in Procs : pc[q] \in {"read_wrap", "read_wake"}
      BY <3>2
    <3> QED BY <2>11, <3>3 DEF WriteCopy
  <2>12. CASE WriteFault(p)
    BY <2>12 DEF WriteFault
  <2>13. CASE WriteWrap(p)
    BY <2>13 DEF WriteWrap
  <2>14. CASE WriteWakeReaders(p)
    BY <2>14 DEF WriteWakeReaders
  <2>15. CASE WriteSignalAsync(p)
    BY <2>15 DEF WriteSignalAsync
  <2> QED BY <1>5, <2>1, <2>2, <2>3, <2>4, <2>5, <2>6, <2>7, <2>8, <2>9, <2>10,
             <2>11, <2>12, <2>13, <2>14, <2>15 DEF WriteStep
<1>6. ASSUME NEW p \in Procs, PollStep(p)
      PROVE  NoLostWriteWakeup'
  <2>1. CASE PollDown(p)
    BY <2>1 DEF PollDown
  <2>2. CASE PollReady(p)
    BY <2>2 DEF PollReady
  <2>3. CASE PollSleep(p)
    <3>0. "out" \in events[p] => spacefree = 0
      BY <2>3 DEF PollSleep, Mask
    <3>4. "out" \in events[p] => ~NotFull
      BY <2>3, <3>0, FullForUser DEF PollSleep, Users
    <3>1. SUFFICES ASSUME NEW r \in (outq \ missed)', SleepsFor(r, "out")', NotFull'
                PROVE  \E q \in Procs : pc'[q] \in {"read_wrap", "read_wake"}
      OBVIOUS
    <3>2. r \in (outq \ missed) /\ r # p /\ SleepsFor(r, "out") /\ NotFull
      BY <2>3, <3>1, <3>4 DEF PollSleep
    <3>3. PICK q \in Procs : pc[q] \in {"read_wrap", "read_wake"}
      BY <3>2
    <3> QED BY <2>3, <3>3 DEF PollSleep
  <2>4. CASE PollAwake(p)
    BY <2>4 DEF PollAwake
  <2>5. CASE PollSignalled(p)
    BY <2>5 DEF PollSignalled
  <2> QED BY <1>6, <2>1, <2>2, <2>3, <2>4, <2>5 DEF PollStep
<1>7. ASSUME NEW p \in Procs, Signal(p)
      PROVE  NoLostWriteWakeup'
  BY <1>7 DEF Signal
<1>8. ASSUME NEW n \in BufSizes, ResizeIoctl(n)
      PROVE  NoLostWriteWakeup'
  BY <1>8 DEF ResizeIoctl
<1>9. CASE UNCHANGED vars
  BY <1>9 DEF vars
<1> QED BY <1>1, <1>2, <1>3, <1>4, <1>5, <1>6, <1>7, <1>8, <1>9 DEF Next, Step

(* release() takes the file off the notification list before all else. *)
LEMMA AsyncStep ==
  ASSUME TypeOK, AsyncOnlyOpen, [Next]_vars
  PROVE  AsyncOnlyOpen'
<1> USE DEF TypeOK, Goto, Down, Return, Interrupted, shared, queues, locals, AsyncOnlyOpen,
       Users
<1>1. ASSUME NEW p \in Procs, Call(p)
      PROVE  AsyncOnlyOpen'
  <2>1. ASSUME NEW m \in Modes[p], OpenCall(p, m)
        PROVE  AsyncOnlyOpen'
    BY <2>1 DEF OpenCall
  <2>2. CASE ReleaseCall(p)
    BY <2>2 DEF ReleaseCall
  <2>3. ASSUME NEW n \in Counts, ReadCall(p, n)
        PROVE  AsyncOnlyOpen'
    BY <2>3 DEF ReadCall
  <2>4. ASSUME NEW d \in Payloads, WriteCall(p, d)
        PROVE  AsyncOnlyOpen'
    BY <2>4 DEF WriteCall
  <2>5. ASSUME NEW e \in Polls, PollCall(p, e)
        PROVE  AsyncOnlyOpen'
    BY <2>5 DEF PollCall
  <2>6. CASE Fasync(p)
    BY <2>6 DEF Fasync
  <2> QED BY <1>1, <2>1, <2>2, <2>3, <2>4, <2>5, <2>6 DEF Call
<1>2. ASSUME NEW p \in Procs, OpenStep(p)
      PROVE  AsyncOnlyOpen'
  <2>1. CASE OpenDown(p)
    BY <2>1 DEF OpenDown
  <2>2. CASE OpenInterrupted(p)
    BY <2>2 DEF OpenInterrupted
  <2>3. CASE OpenAlloc(p)
    BY <2>3 DEF OpenAlloc
  <2>4. CASE OpenNoMemory(p)
    BY <2>4 DEF OpenNoMemory
  <2>5. CASE OpenInit(p)
    BY <2>5 DEF OpenInit
  <2> QED BY <1>2, <2>1, <2>2, <2>3, <2>4, <2>5 DEF OpenStep
<1>3. ASSUME NEW p \in Procs, ReleaseStep(p)
      PROVE  AsyncOnlyOpen'
  <2>1. CASE ReleaseDown(p)
    BY <2>1 DEF ReleaseDown
  <2>2. CASE ReleaseBody(p)
    BY <2>2 DEF ReleaseBody
  <2> QED BY <1>3, <2>1, <2>2 DEF ReleaseStep
<1>4. ASSUME NEW p \in Procs, ReadStep(p)
      PROVE  AsyncOnlyOpen'
  <2>1. CASE ReadDown(p)
    BY <2>1 DEF ReadDown
  <2>2. CASE ReadInterrupted(p)
    BY <2>2 DEF ReadInterrupted
  <2>3. CASE ReadHasData(p)
    BY <2>3 DEF ReadHasData
  <2>4. CASE ReadAgain(p)
    BY <2>4 DEF ReadAgain
  <2>5. CASE ReadEmpty(p)
    BY <2>5 DEF ReadEmpty
  <2>6. CASE ReadPrepare(p)
    BY <2>6 DEF ReadPrepare
  <2>7. CASE ReadResume(p)
    BY <2>7 DEF ReadResume
  <2>8. CASE ReadSignalled(p)
    BY <2>8 DEF ReadSignalled
  <2>9. CASE ReadSleep(p)
    BY <2>9 DEF ReadSleep
  <2>10. CASE ReadAwake(p)
    BY <2>10 DEF ReadAwake
  <2>11. CASE ReadCopy(p)
    BY <2>11 DEF ReadCopy
  <2>12. CASE ReadFault(p)
    BY <2>12 DEF ReadFault
  <2>13. CASE ReadWrap(p)
    BY <2>13 DEF ReadWrap
  <2>14. CASE ReadWakeWriters(p)
    BY <2>14 DEF ReadWakeWriters
  <2> QED BY <1>4, <2>1, <2>2, <2>3, <2>4, <2>5, <2>6, <2>7, <2>8, <2>9, <2>10,
             <2>11, <2>12, <2>13, <2>14 DEF ReadStep
<1>5. ASSUME NEW p \in Procs, WriteStep(p)
      PROVE  AsyncOnlyOpen'
  <2>1. CASE WriteDown(p)
    BY <2>1 DEF WriteDown
  <2>2. CASE WriteInterrupted(p)
    BY <2>2 DEF WriteInterrupted
  <2>3. CASE WriteHasSpace(p)
    BY <2>3 DEF WriteHasSpace
  <2>4. CASE WriteAgain(p)
    BY <2>4 DEF WriteAgain
  <2>5. CASE WriteFull(p)
    BY <2>5 DEF WriteFull
  <2>6. CASE WritePrepare(p)
    BY <2>6 DEF WritePrepare
  <2>7. CASE WriteCondition(p)
    BY <2>7 DEF WriteCondition
  <2>8. CASE WriteAwake(p)
    BY <2>8 DEF WriteAwake
  <2>9. CASE WriteFinishWait(p)
    BY <2>9 DEF WriteFinishWait
  <2>10. CASE WriteSignalled(p)
    BY <2>10 DEF WriteSignalled
  <2>11. CASE WriteCopy(p)
    BY <2>11 DEF WriteCopy
  <2>12. CASE WriteFault(p)
    BY <2>12 DEF WriteFault
  <2>13. CASE WriteWrap(p)
    BY <2>13 DEF WriteWrap
  <2>14. CASE WriteWakeReaders(p)
    BY <2>14 DEF WriteWakeReaders
  <2>15. CASE WriteSignalAsync(p)
    BY <2>15 DEF WriteSignalAsync
  <2> QED BY <1>5, <2>1, <2>2, <2>3, <2>4, <2>5, <2>6, <2>7, <2>8, <2>9, <2>10,
             <2>11, <2>12, <2>13, <2>14, <2>15 DEF WriteStep
<1>6. ASSUME NEW p \in Procs, PollStep(p)
      PROVE  AsyncOnlyOpen'
  <2>1. CASE PollDown(p)
    BY <2>1 DEF PollDown
  <2>2. CASE PollReady(p)
    BY <2>2 DEF PollReady
  <2>3. CASE PollSleep(p)
    BY <2>3 DEF PollSleep
  <2>4. CASE PollAwake(p)
    BY <2>4 DEF PollAwake
  <2>5. CASE PollSignalled(p)
    BY <2>5 DEF PollSignalled
  <2> QED BY <1>6, <2>1, <2>2, <2>3, <2>4, <2>5 DEF PollStep
<1>7. ASSUME NEW p \in Procs, Signal(p)
      PROVE  AsyncOnlyOpen'
  BY <1>7 DEF Signal
<1>8. ASSUME NEW n \in BufSizes, ResizeIoctl(n)
      PROVE  AsyncOnlyOpen'
  BY <1>8 DEF ResizeIoctl
<1>9. CASE UNCHANGED vars
  BY <1>9 DEF vars
<1> QED BY <1>1, <1>2, <1>3, <1>4, <1>5, <1>6, <1>7, <1>8, <1>9 DEF Next, Step

----------------------------------------------------------------------------
\* The buffer: allocated once, kept while a file is open.

Opening == {"closed", "open_down", "open_alloc", "open_init"}

(* BufferKept, and what open() establishes on the way to it. *)
Allocation ==
  /\ BufferKept
  /\ alloc # 0 => \E p \in Procs : pc[p] # "closed"
  /\ alloc # 0 /\ ~ResizeInUse => alloc = pbuf
  /\ \A p \in Procs : /\ pc[p] = "open_init" => alloc # 0
                      /\ pc[p] # "closed" => file[p].access # {}

(* What a step of a read() leaves alone. *)
LEMMA ReadFrame ==
  ASSUME TypeOK, NEW p \in Procs, ReadStep(p)
  PROVE  /\ UNCHANGED <<pbuf, alloc, bufsize, nreaders, nwriters, file>>
         /\ pc[p] \notin Opening /\ pc'[p] \notin Opening
         /\ \A q \in Procs \ {p} : pc'[q] = pc[q]
BY DEF ReadStep, ReadDown, ReadInterrupted, ReadHasData, ReadAgain, ReadEmpty,
       ReadPrepare, ReadResume, ReadSignalled, ReadSleep, ReadAwake, ReadCopy,
       ReadFault, ReadWrap, ReadWakeWriters, Goto, Down, Return, Interrupted,
       shared, queues, TypeOK, Opening

(* What a step of a write() leaves alone. *)
LEMMA WriteFrame ==
  ASSUME TypeOK, NEW p \in Procs, WriteStep(p)
  PROVE  /\ UNCHANGED <<pbuf, alloc, bufsize, nreaders, nwriters, file>>
         /\ pc[p] \notin Opening /\ pc'[p] \notin Opening
         /\ \A q \in Procs \ {p} : pc'[q] = pc[q]
BY DEF WriteStep, WriteDown, WriteInterrupted, WriteHasSpace, WriteAgain,
       WriteFull, WritePrepare, WriteCondition, WriteAwake, WriteFinishWait,
       WriteSignalled, WriteCopy, WriteFault, WriteWrap, WriteWakeReaders,
       WriteSignalAsync, Goto, Down, Return, Interrupted, shared, queues,
       TypeOK, Opening

(* What a step of a poll() leaves alone. *)
LEMMA PollFrame ==
  ASSUME TypeOK, NEW p \in Procs, PollStep(p)
  PROVE  /\ UNCHANGED <<pbuf, alloc, bufsize, nreaders, nwriters, file>>
         /\ pc[p] \notin Opening /\ pc'[p] \notin Opening
         /\ \A q \in Procs \ {p} : pc'[q] = pc[q]
BY DEF PollStep, PollDown, PollReady, PollSleep, PollAwake, PollSignalled,
       Goto, Down, Return, shared, queues, TypeOK, Opening

(* A step of a process that has the device open, and keeps it open. *)
LEMMA AllocationFrame ==
  ASSUME TypeOK, Allocation, NEW p \in Procs,
         UNCHANGED <<pbuf, alloc, bufsize, nreaders, nwriters, file>>,
         pc[p] \notin Opening, pc'[p] \notin Opening,
         \A q \in Procs \ {p} : pc'[q] = pc[q]
  PROVE  Allocation'
<1>1. Users' = Users
  BY DEF Users, Opening
<1>2. Files("r")' = Files("r") /\ Files("w")' = Files("w")
  BY <1>1 DEF Files
<1>3. BufferKept'
  BY <1>1, <1>2 DEF BufferKept, Allocation
<1> QED BY <1>3 DEF Allocation, Opening

(* A step of a process on its way through open(). *)
LEMMA AllocationOpening ==
  ASSUME TypeOK, Allocation, NEW p \in Procs,
         UNCHANGED <<bufsize, nreaders, nwriters>>,
         Users # {} => alloc' = alloc,
         pc[p] \in Opening, pc'[p] \in Opening, 
         \A q \in Procs \ {p} : pc'[q] = pc[q] /\ file'[q] = file[q]
  PROVE  BufferKept'
<1>1. Users' = Users
  BY DEF Users, Opening
<1>2. \A q \in Users : file'[q] = file[q]
  BY DEF Users, Opening
<1>3. Files("r")' = Files("r") /\ Files("w")' = Files("w")
  BY <1>1, <1>2 DEF Files
<1> QED BY <1>1, <1>3 DEF BufferKept, Allocation

(* Every step keeps the counts of open files exact and, as long as one is
   left, the buffer allocated. *)
LEMMA AllocationStep ==
  ASSUME TypeOK, SemaphoreDiscipline, Allocation, [Next]_vars
  PROVE  Allocation'
<1>1. ASSUME NEW p \in Procs, Call(p)
      PROVE  Allocation'
  <2>1. ASSUME NEW m \in Modes[p], OpenCall(p, m)
        PROVE  Allocation'
    <3>0. m \in [access : {{"r"}, {"w"}, {"r", "w"}}, nonblock : BOOLEAN]
      BY PipeAssumption
    <3>1. m.access # {}
      BY <3>0
    <3>2. /\ pc[p] = "closed" /\ pc' = [pc EXCEPT ![p] = "open_down"]
          /\ file' = [file EXCEPT ![p] = m]
          /\ UNCHANGED <<pbuf, alloc, bufsize, nreaders, nwriters>>
      BY <2>1 DEF OpenCall, Goto, shared
    <3>3. BufferKept'
      BY <3>2, AllocationOpening DEF TypeOK, Opening
    <3> QED BY <3>1, <3>2, <3>3 DEF Allocation, TypeOK
  <2>2. CASE ReleaseCall(p)
    BY <2>2, AllocationFrame DEF ReleaseCall, Goto, shared, TypeOK, Opening
  <2>3. ASSUME NEW n \in Counts, ReadCall(p, n)
        PROVE  Allocation'
    BY <2>3, AllocationFrame DEF ReadCall, Goto, shared, TypeOK, Opening
  <2>4. ASSUME NEW d \in Payloads, WriteCall(p, d)
        PROVE  Allocation'
    BY <2>4, AllocationFrame DEF WriteCall, Goto, shared, TypeOK, Opening
  <2>5. ASSUME NEW e \in Polls, PollCall(p, e)
        PROVE  Allocation'
    BY <2>5, AllocationFrame DEF PollCall, Goto, shared, TypeOK, Opening
  <2>6. CASE Fasync(p)
    BY <2>6, AllocationFrame DEF Fasync, shared, locals, TypeOK, Opening
  <2> QED BY <1>1, <2>1, <2>2, <2>3, <2>4, <2>5, <2>6 DEF Call
<1>2. ASSUME NEW p \in Procs, OpenStep(p)
      PROVE  Allocation'
  <2>1. CASE OpenDown(p)
    <3>1. /\ pc[p] = "open_down" /\ pc' = [pc EXCEPT ![p] = "open_alloc"]
          /\ UNCHANGED <<pbuf, alloc, bufsize, nreaders, nwriters, file>>
      BY <2>1 DEF OpenDown, Down, Goto
    <3>2. BufferKept'
      BY <3>1, AllocationOpening DEF TypeOK, Opening
    <3> QED BY <3>1, <3>2 DEF Allocation, TypeOK
  <2>2. CASE OpenInterrupted(p)
    <3>1. /\ pc[p] = "open_down" /\ pc' = [pc EXCEPT ![p] = "closed"]
          /\ file' = [file EXCEPT ![p] = NoFile]
          /\ UNCHANGED <<pbuf, alloc, bufsize, nreaders, nwriters>>
          /\ sem \in Procs /\ pc[sem] # "closed" /\ sem # p
      BY <2>2 DEF OpenInterrupted, Interrupted, Return, Goto, shared, TypeOK,
                  SemaphoreDiscipline, Critical
    <3>2. BufferKept'
      BY <3>1, AllocationOpening DEF TypeOK, Opening
    <3> QED BY <3>1, <3>2 DEF Allocation, TypeOK
  <2>3. CASE OpenAlloc(p)
    <3>1. /\ pc[p] = "open_alloc" /\ pc' = [pc EXCEPT ![p] = "open_init"]
          /\ alloc' = IF alloc = 0 THEN pbuf ELSE alloc
          /\ UNCHANGED <<pbuf, bufsize, nreaders, nwriters, file>>
      BY <2>3 DEF OpenAlloc, Goto
    <3>2. Users # {} => alloc' = alloc
      BY <3>1 DEF Allocation, BufferKept
    <3>3. BufferKept'
      BY <3>1, <3>2, AllocationOpening DEF TypeOK, Opening
    <3>4. pbuf # 0
      BY PipeAssumption DEF TypeOK
    <3> QED BY <3>1, <3>3, <3>4 DEF Allocation, TypeOK
  <2>4. CASE OpenNoMemory(p)
    <3>1. /\ pc[p] = "open_alloc" /\ pc' = [pc EXCEPT ![p] = "closed"]
          /\ file' = [file EXCEPT ![p] = NoFile]
          /\ alloc = 0
          /\ UNCHANGED <<pbuf, alloc, bufsize, nreaders, nwriters>>
      BY <2>4 DEF OpenNoMemory, Return, Goto
    <3>2. BufferKept'
      BY <3>1, AllocationOpening DEF TypeOK, Opening
    <3> QED BY <3>1, <3>2 DEF Allocation, TypeOK
  <2>5. CASE OpenInit(p)
    <3>1. /\ pc[p] = "open_init" /\ pc' = [pc EXCEPT ![p] = "idle"]
          /\ nreaders' = IF "r" \in file[p].access THEN nreaders + 1 ELSE nreaders
          /\ nwriters' = IF "w" \in file[p].access THEN nwriters + 1 ELSE nwriters
          /\ bufsize' = pbuf
          /\ UNCHANGED <<pbuf, alloc, file>>
      BY <2>5 DEF OpenInit, Return, Goto
    <3>2. p \notin Users /\ Users' = Users \cup {p}
      BY <3>1 DEF Users, TypeOK
    <3>3. ASSUME NEW e
          PROVE  /\ Files(e)' = IF e \in file[p].access THEN Files(e) \cup {p}
                                                         ELSE Files(e)
                 /\ p \notin Files(e)
                 /\ IsFiniteSet(Files(e))
      <4>1. Files(e) \subseteq Procs
        BY DEF Files, Users
      <4>2. IsFiniteSet(Files(e))
        BY <4>1, FS_Subset, PipeAssumption
      <4> QED BY <3>1, <3>2, <4>2 DEF Files
    <3>4. nreaders' = Cardinality(Files("r")')
      <4>1. Cardinality(Files("r") \cup {p}) = Cardinality(Files("r")) + 1
        BY <3>3, FS_AddElement
      <4> QED BY <3>1, <3>3, <4>1 DEF Allocation, BufferKept
    <3>5. nwriters' = Cardinality(Files("w")')
      <4>1. Cardinality(Files("w") \cup {p}) = Cardinality(Files("w")) + 1
        BY <3>3, FS_AddElement
      <4> QED BY <3>1, <3>3, <4>1 DEF Allocation, BufferKept
    <3>6. BufferKept'
      BY <3>1, <3>4, <3>5 DEF Allocation, BufferKept
    <3> QED BY <3>1, <3>6 DEF Allocation, TypeOK
  <2> QED BY <1>2, <2>1, <2>2, <2>3, <2>4, <2>5 DEF OpenStep
<1>3. ASSUME NEW p \in Procs, ReleaseStep(p)
      PROVE  Allocation'
  <2>1. CASE ReleaseDown(p)
    BY <2>1, AllocationFrame DEF ReleaseDown, Down, Goto, TypeOK, Opening
  <2>2. CASE ReleaseBody(p)
    <3>1. /\ pc[p] = "rel_body" /\ pc' = [pc EXCEPT ![p] = "closed"]
          /\ nreaders' = IF "r" \in file[p].access THEN nreaders - 1 ELSE nreaders
          /\ nwriters' = IF "w" \in file[p].access THEN nwriters - 1 ELSE nwriters
          /\ alloc' = IF nreaders' + nwriters' = 0 THEN 0 ELSE alloc
          /\ file' = [file EXCEPT ![p] = NoFile]
          /\ UNCHANGED <<pbuf, bufsize>>
      BY <2>2 DEF ReleaseBody, Return, Goto
    <3>2. p \in Users /\ Users' = Users \ {p}
      BY <3>1 DEF Users, TypeOK
    <3>3. ASSUME NEW e
          PROVE  /\ Files(e)' = Files(e) \ {p}
                 /\ p \in Files(e) <=> e \in file[p].access
                 /\ IsFiniteSet(Files(e)) /\ IsFiniteSet(Files(e)')
      <4>1. Files(e) \subseteq Procs
        BY DEF Files, Users
      <4>2. Files(e)' = Files(e) \ {p}
        BY <3>1, <3>2 DEF Files, Users, TypeOK
      <4>3. IsFiniteSet(Files(e)) /\ IsFiniteSet(Files(e)')
        BY <4>1, <4>2, FS_Subset, PipeAssumption
      <4> QED BY <3>2, <4>2, <4>3 DEF Files
    <3>4. nreaders' = Cardinality(Files("r")')
      BY <3>1, <3>3, FS_RemoveElement DEF Allocation, BufferKept
    <3>5. nwriters' = Cardinality(Files("w")')
      BY <3>1, <3>3, FS_RemoveElement DEF Allocation, BufferKept
    <3>6. nreaders' \in Nat /\ nwriters' \in Nat
      BY <3>3, <3>4, <3>5, FS_CardinalityType
    <3>7. ASSUME NEW q \in Users'
          PROVE  nreaders' + nwriters' # 0
      <4>1. q \in Procs /\ q # p /\ pc[q] # "closed" /\ file'[q] = file[q]
        BY <3>1, <3>2 DEF Users, TypeOK
      <4>2. PICK e \in {"r", "w"} : e \in file[q].access
        <5>1. file[q].access # {}
          BY <4>1 DEF Allocation
        <5>2. file[q].access \subseteq {"r", "w"}
          <6>1. file[q] \in [access : SUBSET {"r", "w"}, nonblock : BOOLEAN]
            BY <4>1 DEF TypeOK
          <6> QED BY <6>1
        <5> QED BY <5>1, <5>2, Zenon
      <4>3. Files(e)' # {}
        BY <4>1, <4>2 DEF Files
      <4>4. Cardinality(Files(e)') # 0
        BY <3>3, <4>3, FS_EmptySet
      <4>5. nreaders' # 0 \/ nwriters' # 0
        BY <3>4, <3>5, <4>2, <4>4
      <4>6. \A i, j \in Nat : i # 0 \/ j # 0 => i + j # 0
        OBVIOUS
      <4> QED BY <3>6, <4>5, <4>6
    <3>8. BufferKept'
      BY <3>1, <3>2, <3>4, <3>5, <3>7 DEF Allocation, BufferKept
    <3>9. \A q \in Procs \ {p} : pc[q] # "open_init"
      BY <3>1 DEF SemaphoreDiscipline, Critical
    <3>10. alloc' # 0 => \E q \in Procs : pc'[q] # "closed"
      <4>1. SUFFICES ASSUME Users' = {} PROVE nreaders' + nwriters' = 0
        BY <3>1 DEF Users
      <4>2. Files("r")' = {} /\ Files("w")' = {}
        BY <4>1 DEF Files
      <4> QED BY <3>4, <3>5, <4>2, FS_EmptySet
    <3> QED BY <3>1, <3>8, <3>9, <3>10 DEF Allocation, TypeOK
  <2> QED BY <1>3, <2>1, <2>2 DEF ReleaseStep
<1>4. ASSUME NEW p \in Procs, ReadStep(p)
      PROVE  Allocation'
  BY <1>4, ReadFrame, AllocationFrame
<1>5. ASSUME NEW p \in Procs, WriteStep(p)
      PROVE  Allocation'
  BY <1>5, WriteFrame, AllocationFrame
<1>6. ASSUME NEW p \in Procs, PollStep(p)
      PROVE  Allocation'
  BY <1>6, PollFrame, AllocationFrame
<1>7. ASSUME NEW p \in Procs, Signal(p)
      PROVE  Allocation'
  <2>1. UNCHANGED <<pbuf, alloc, bufsize, nreaders, nwriters, file, pc>>
    BY <1>7 DEF Signal, shared
  <2>2. Users' = Users /\ Files("r")' = Files("r") /\ Files("w")' = Files("w")
    BY <2>1 DEF Users, Files
  <2> QED BY <2>1, <2>2 DEF Allocation, BufferKept
<1>8. ASSUME NEW n \in BufSizes, ResizeIoctl(n)
      PROVE  Allocation'
  <2>1. /\ UNCHANGED <<alloc, bufsize, nreaders, nwriters, file, pc>>
        /\ ResizeInUse \/ \A p \in Procs : pc[p] = "closed"
    BY <1>8 DEF ResizeIoctl, locals
  <2>2. Users' = Users /\ Files("r")' = Files("r") /\ Files("w")' = Files("w")
    BY <2>1 DEF Users, Files
  <2> QED BY <2>1, <2>2 DEF Allocation, BufferKept
<1>9. CASE UNCHANGED vars
  <2>1. UNCHANGED <<pbuf, alloc, bufsize, nreaders, nwriters, file, pc>>
    BY <1>9 DEF vars, shared, locals
  <2>2. Users' = Users /\ Files("r")' = Files("r") /\ Files("w")' = Files("w")
    BY <2>1 DEF Users, Files
  <2> QED BY <2>1, <2>2 DEF Allocation, BufferKept
<1> QED BY <1>1, <1>2, <1>3, <1>4, <1>5, <1>6, <1>7, <1>8, <1>9 DEF Next, Step

----------------------------------------------------------------------------
\* The theorems.

(* The inductive invariant.  The wakeup invariants need the semaphore's: a
   process that copies is the only one whose pointer may stand at dev->end. *)
PipeInv ==
  /\ TypeOK /\ SemaphoreDiscipline /\ PointersOK
  /\ NoLostReadWakeup /\ NoLostWriteWakeup
  /\ Allocation /\ AsyncOnlyOpen

(* The device as scull_p_init() leaves it satisfies the invariant. *)
LEMMA PipeInvInit == Init => PipeInv
<1> SUFFICES ASSUME Init PROVE PipeInv
  OBVIOUS
<1>1. TypeOK
  BY PipeAssumption DEF Init, TypeOK, NoFile, Outside
<1>2. SemaphoreDiscipline
  BY PipeAssumption DEF Init, SemaphoreDiscipline, Critical
<1>3. PointersOK
  BY DEF Init, PointersOK, Users, Offering
<1>4. NoLostReadWakeup /\ NoLostWriteWakeup /\ AsyncOnlyOpen
  BY DEF Init, NoLostReadWakeup, NoLostWriteWakeup, AsyncOnlyOpen
<1>5. Allocation
  <2>1. Users = {}
    BY DEF Init, Users
  <2>2. Files("r") = {} /\ Files("w") = {}
    BY <2>1 DEF Files
  <2> QED BY <2>1, <2>2, FS_EmptySet DEF Init, Allocation, BufferKept
<1> QED BY <1>1, <1>2, <1>3, <1>4, <1>5 DEF PipeInv

(* The invariant holds at every moment of every run of the driver, for any
   set of processes, any buffer sizes and any data. *)
THEOREM PipeInvariant == Spec => []PipeInv
<1>1. PipeInv /\ [Next]_vars => PipeInv'
  BY TypeStep, SemaphoreStep, PointersStep, ReadWakeupStep, WriteWakeupStep,
     AllocationStep, AsyncStep DEF PipeInv
<1> QED BY PipeInvInit, <1>1, PTL DEF Spec

(* Every variable of the driver keeps its type. *)
THEOREM PipeTypes == Spec => []TypeOK
BY PipeInvariant, PTL DEF PipeInv

(* Exactly the processes inside a critical section hold dev->sem, whatever
   return path they take. *)
THEOREM PipeSemaphore == Spec => []SemaphoreDiscipline
BY PipeInvariant, PTL DEF PipeInv

(* No read() or write() moves a pointer out of the buffer. *)
THEOREM PipePointers == Spec => []PointersOK
BY PipeInvariant, PTL DEF PipeInv

(* nreaders and nwriters are right, and an open pipe has its buffer. *)
THEOREM PipeBuffer == Spec => []BufferKept
BY PipeInvariant, PTL DEF PipeInv, Allocation

(* A reader never sleeps through the arrival of data. *)
THEOREM PipeReadWakeup == Spec => []NoLostReadWakeup
BY PipeInvariant, PTL DEF PipeInv

(* A writer never sleeps through a read() that makes room. *)
THEOREM PipeWriteWakeup == Spec => []NoLostWriteWakeup
BY PipeInvariant, PTL DEF PipeInv

(* A released file is never notified. *)
THEOREM PipeAsync == Spec => []AsyncOnlyOpen
BY PipeInvariant, PTL DEF PipeInv

----------------------------------------------------------------------------
(* ScullPipe implements Pipe: for any number of processes, any buffer sizes and
   any payloads, and with the size changed in use, what the processes see of the
   circular buffer is one bounded stream of bytes.                          *)

(* The calls of read() that have copied and not returned. *)
Getting  == {"read_wrap", "read_wake"}
Unopened == {"closed", "open_down", "open_alloc", "open_init"}

(* What stands for the variables of Pipe. *)
Stream == IF Users = {} THEN <<>> ELSE Contents
Cap    == IF Users = {} THEN 0 ELSE bufsize - 1
Given  == [p \in Procs |-> IF pc[p] \in Offering THEN ubuf[p] ELSE <<>>]
Got    == [p \in Procs |-> IF pc[p] \in Getting THEN ubuf[p] ELSE <<>>]

(* A write that ends at the buffer's end leaves a byte free at its start. *)
WrapInv == bufsize # 0 /\ wp = bufsize => rp # 0

-----------------------------------------------------------------------------
\* The steps of Pipe.

(* Nothing changes. *)
LEMMA Stutters ==
  ASSUME UNCHANGED <<Stream, Cap, Users, Given, Got>>
  PROVE  UNCHANGED Abstract!vars
BY DEF Abstract!vars, Stream, Cap, Given, Got, Getting

(* A process opens the device, and the stream starts again. *)
LEMMA Opens ==
  ASSUME NEW p \in Procs, p \notin Users, Users' = Users \cup {p},
         Stream' = <<>>, Cap' \in Nat, UNCHANGED <<Given, Got>>
  PROVE  Abstract!Next
<1>1. Abstract!Open(p)
  BY DEF Abstract!Open, Stream, Cap, Given, Got, Getting
<1> QED BY <1>1 DEF Abstract!Next

(* A process closes it; the stream goes with the last one. *)
LEMMA Closes ==
  ASSUME NEW p \in Procs, p \in Users, Users' = Users \ {p},
         Users' = {} => Stream' = <<>> /\ Cap' = 0,
         Users' # {} => UNCHANGED <<Stream, Cap>>,
         UNCHANGED <<Given, Got>>
  PROVE  Abstract!Next
<1>1. Abstract!Close(p)
  BY DEF Abstract!Close, Stream, Cap, Given, Got, Getting
<1> QED BY <1>1 DEF Abstract!Next

(* A write() begins, *)
LEMMA Gives ==
  ASSUME NEW p \in Procs, p \in Users, Given[p] = <<>>, NEW d \in Seq(Byte),
         Given' = [Given EXCEPT ![p] = d], UNCHANGED <<Stream, Cap, Users, Got>>
  PROVE  Abstract!Next
<1>1. Given'[p] = d
  BY DEF Given
<1>2. Abstract!Give(p)
  BY <1>1 DEF Abstract!Give, Stream, Cap, Given, Got, Getting
<1> QED BY <1>2 DEF Abstract!Next

(* appends some of what it was given, *)
LEMMA Puts ==
  ASSUME NEW p \in Procs, p \in Users, NEW k \in 1 .. Len(Given[p]),
         Stream' = Stream \o SubSeq(Given[p], 1, k), Len(Stream') <= Cap,
         Given' = [Given EXCEPT ![p] = <<>>], UNCHANGED <<Cap, Users, Got>>
  PROVE  Abstract!Next
<1>1. Abstract!Put(p)
  BY DEF Abstract!Put, Abstract!Take, Stream, Cap, Given, Got, Getting
<1> QED BY <1>1 DEF Abstract!Next

(* or gives up. *)
LEMMA Withdraws ==
  ASSUME NEW p \in Procs, Given' = [Given EXCEPT ![p] = <<>>],
         UNCHANGED <<Stream, Cap, Users, Got>>
  PROVE  Abstract!Next
<1>1. Abstract!Withdraw(p)
  BY DEF Abstract!Withdraw, Stream, Cap, Given, Got, Getting
<1> QED BY <1>1 DEF Abstract!Next

(* A read() takes the front of the stream *)
LEMMA Gets ==
  ASSUME NEW p \in Procs, p \in Users, Got[p] = <<>>, NEW k \in 1 .. Len(Stream),
         Got' = [Got EXCEPT ![p] = SubSeq(Stream, 1, k)],
         Stream' = SubSeq(Stream, k + 1, Len(Stream)),
         UNCHANGED <<Cap, Users, Given>>
  PROVE  Abstract!Next
<1>1. Abstract!Get(p)
  BY DEF Abstract!Get, Abstract!Take, Abstract!Drop, Stream, Cap, Given, Got, Getting
<1> QED BY <1>1 DEF Abstract!Next

(* and returns it. *)
LEMMA Delivers ==
  ASSUME NEW p \in Procs, Got' = [Got EXCEPT ![p] = <<>>],
         UNCHANGED <<Stream, Cap, Users, Given>>
  PROVE  Abstract!Next
<1>1. Abstract!Deliver(p)
  BY DEF Abstract!Deliver, Stream, Cap, Given, Got, Getting
<1> QED BY <1>1 DEF Abstract!Next

-----------------------------------------------------------------------------
\* The stream in the buffer.

(* The place of the byte i places on from place r of n. *)
At(r, n, i) == IF r + i < n THEN r + i ELSE r + i - n

(* How many bytes lie between r and w. *)
Held(r, w, n) == IF w >= r THEN w - r ELSE n - r + w

(* What Contents says of them. *)
Laid(m, n, r, w) ==
  IF w >= r THEN [i \in 1 .. (w - r) |-> m[r + i - 1]]
  ELSE [i \in 1 .. (n - r) |-> m[r + i - 1]] \o [i \in 1 .. (w - 0) |-> m[0 + i - 1]]

(* They are Held bytes, the byte i of them at place At. *)
LEMMA Ring ==
  ASSUME NEW m \in [Addr -> Byte \cup {Junk}], NEW n \in 0 .. MaxSize, NEW r \in 0 .. n, NEW w \in 0 .. n
  PROVE  /\ Laid(m, n, r, w) \in Seq(Byte \cup {Junk})
         /\ Len(Laid(m, n, r, w)) = Held(r, w, n) /\ Held(r, w, n) \in Nat
         /\ \A i \in 1 .. Held(r, w, n) : Laid(m, n, r, w)[i] = m[At(r, n, i - 1)]
<1> DEFINE s == Laid(m, n, r, w)
           S == Byte \cup {Junk}
<1>n. MaxSize \in Nat
  BY PipeAssumption
<1>1. CASE w >= r
  <2>1. s = [i \in 1 .. (w - r) |-> m[r + i - 1]] /\ w - r \in Nat
    BY <1>n, <1>1 DEF Laid
  <2>2. \A i \in 1 .. w - r : r + i - 1 \in Addr /\ r + (i - 1) < n /\ r + (i - 1) = r + i - 1
    BY <1>n, <1>1 DEF Addr
  <2>3. \A i \in 1 .. w - r : m[r + i - 1] \in S
    BY <2>2
  <2>4. s \in Seq(S) /\ Len(s) = w - r
    BY <2>1, <2>3
  <2>5. Held(r, w, n) = w - r
    BY <1>1 DEF Held
  <2>6. ASSUME NEW i \in 1 .. w - r
        PROVE  s[i] = m[At(r, n, i - 1)]
    <3>1. At(r, n, i - 1) = r + i - 1
      BY <2>2 DEF At
    <3> QED BY <2>1, <3>1
  <2> QED BY <2>1, <2>4, <2>5, <2>6
<1>2. CASE w < r
  <2> DEFINE a == [i \in 1 .. (n - r) |-> m[r + i - 1]]
             b == [i \in 1 .. (w - 0) |-> m[0 + i - 1]]
  <2>1. s = a \o b /\ n - r \in Nat /\ w \in Nat
    BY <1>n, <1>2 DEF Laid
  <2>2. \A i \in 1 .. n - r : r + i - 1 \in Addr /\ At(r, n, i - 1) = r + i - 1
    BY <1>n, <1>2 DEF Addr, At
  <2>3. w - 0 = w /\ \A i \in 1 .. w : i - 1 \in Addr /\ 0 + i - 1 = i - 1
    BY <1>n, <1>2 DEF Addr
  <2>4. a \in Seq(S) /\ Len(a) = n - r
    <3>1. \A i \in 1 .. n - r : m[r + i - 1] \in S
      BY <2>2
    <3> QED BY <2>1, <3>1
  <2>5. \A i \in 1 .. n - r : a[i] = m[At(r, n, i - 1)]
    BY <2>2
  <2>6. b \in Seq(S) /\ Len(b) = w
    <3>1. \A i \in 1 .. w - 0 : m[0 + i - 1] \in S
      BY <2>1, <2>3
    <3> QED BY <2>1, <3>1
  <2>7. \A i \in 1 .. w : b[i] = m[i - 1]
    BY <2>1
  <2> HIDE DEF a, b, s, S
  <2>8. /\ s \in Seq(S) /\ Len(s) = n - r + w
         /\ \A i \in 1 .. n - r + w : s[i] = IF i <= n - r THEN a[i] ELSE b[i - (n - r)]
    <3>1. /\ a \o b \in Seq(S) /\ Len(a \o b) = Len(a) + Len(b)
          /\ \A i \in 1 .. Len(a) + Len(b) :
               (a \o b)[i] = IF i <= Len(a) THEN a[i] ELSE b[i - Len(a)]
      BY <2>4, <2>6, ConcatProperties
    <3> QED BY <2>1, <2>4, <2>6, <3>1, Zenon
  <2>9. Held(r, w, n) = n - r + w /\ n - r + w \in Nat
    BY <1>n, <1>2 DEF Held
  <2>10. ASSUME NEW i \in 1 .. n - r + w
        PROVE  s[i] = m[At(r, n, i - 1)]
    <3>1. CASE i <= n - r
      <4>1. i \in 1 .. n - r
        BY <3>1
      <4> QED BY <2>5, <2>8, <3>1, <4>1
    <3>2. CASE i > n - r
      <4>1. i - (n - r) \in 1 .. w
        BY <2>1, <3>2
      <4>2. At(r, n, i - 1) = i - (n - r) - 1
        BY <2>1, <3>2 DEF At
      <4>3. b[i - (n - r)] = m[i - (n - r) - 1]
        BY <2>7, <4>1
      <4>4. s[i] = b[i - (n - r)]
        <5>1. i \in 1 .. n - r + w /\ ~(i <= n - r)
          BY <2>1, <3>2
        <5> QED BY <2>8, <5>1, Zenon
      <4> QED BY <4>2, <4>3, <4>4, Zenon
    <3>3. i <= n - r \/ i > n - r
      BY <2>1
    <3> QED BY <3>1, <3>2, <3>3, Zenon
  <2>11. /\ s \in Seq(S) /\ Len(s) = Held(r, w, n) /\ Held(r, w, n) \in Nat
         /\ \A i \in 1 .. Held(r, w, n) : s[i] = m[At(r, n, i - 1)]
    BY <2>9, <2>10, <2>8, Zenon
  <2> QED BY <2>11 DEF s, S
<1>3. w >= r \/ w < r
  BY <1>n
<1> QED BY <1>1, <1>2, <1>3, Zenon

(* The bytes that a device holds. *)
LEMMA ContentsAt ==
  ASSUME TypeOK, rp <= bufsize, wp <= bufsize
  PROVE  /\ Contents \in Seq(Byte \cup {Junk})
         /\ Len(Contents) = Held(rp, wp, bufsize) /\ Held(rp, wp, bufsize) \in Nat
         /\ \A i \in 1 .. Held(rp, wp, bufsize) : Contents[i] = mem[At(rp, bufsize, i - 1)]
<1>1. /\ mem \in [Addr -> Byte \cup {Junk}] /\ bufsize \in 0 .. MaxSize
      /\ rp \in 0 .. bufsize /\ wp \in 0 .. bufsize
  BY PipeAssumption DEF TypeOK
<1>2. Contents = Laid(mem, bufsize, rp, wp)
  BY DEF Contents, Bytes, Laid
<1> QED BY <1>1, <1>2, Ring

-----------------------------------------------------------------------------
\* What a step of one process changes.

(* What the new control point and user buffer of p mean for Pipe. *)
LEMMA Moves ==
  ASSUME TypeOK, NEW p \in Procs, NEW there, NEW u,
         pc' = [pc EXCEPT ![p] = there], ubuf' = [ubuf EXCEPT ![p] = u]
  PROVE  /\ Users' = IF there \in Unopened THEN Users \ {p} ELSE Users \cup {p}
         /\ Given' = [Given EXCEPT ![p] = IF there \in Offering THEN u ELSE <<>>]
         /\ Got' = [Got EXCEPT ![p] = IF there \in Getting THEN u ELSE <<>>]
<1>1. /\ pc' \in [Procs -> {there} \cup Critical \cup Outside] /\ pc'[p] = there /\ ubuf'[p] = u
      /\ \A q \in Procs \ {p} : pc'[q] = pc[q] /\ ubuf'[q] = ubuf[q]
  BY DEF TypeOK
<1>2. Users' = IF there \in Unopened THEN Users \ {p} ELSE Users \cup {p}
  BY <1>1 DEF Users, Unopened
<1>3. Given' = [Given EXCEPT ![p] = IF there \in Offering THEN u ELSE <<>>]
  BY <1>1 DEF Given
<1>4. Got' = [Got EXCEPT ![p] = IF there \in Getting THEN u ELSE <<>>]
  BY <1>1 DEF Got
<1> QED BY <1>2, <1>3, <1>4

(* The stream is where it was, and so are the calls of the others. *)
LEMMA Keeps ==
  ASSUME TypeOK, NEW p \in Procs, NEW there, NEW u,
         pc' = [pc EXCEPT ![p] = there], ubuf' = [ubuf EXCEPT ![p] = u],
         pc[p] \in Unopened <=> there \in Unopened
  PROVE  /\ Users' = Users
         /\ UNCHANGED <<mem, bufsize, rp, wp>> => UNCHANGED <<Stream, Cap>>
         /\ (pc[p] \in Offering <=> there \in Offering) /\ (there \in Offering => u = ubuf[p])
              => Given' = Given
         /\ (pc[p] \in Getting <=> there \in Getting) /\ (there \in Getting => u = ubuf[p])
              => Got' = Got
<1>1. /\ Users' = IF there \in Unopened THEN Users \ {p} ELSE Users \cup {p}
      /\ Given' = [Given EXCEPT ![p] = IF there \in Offering THEN u ELSE <<>>]
      /\ Got' = [Got EXCEPT ![p] = IF there \in Getting THEN u ELSE <<>>]
  BY Moves
<1>2. p \in Users <=> pc[p] \notin Unopened
  BY DEF Users, Unopened
<1>3. Users' = Users
  BY <1>1, <1>2
<1>4. UNCHANGED <<mem, bufsize, rp, wp>> => UNCHANGED <<Stream, Cap>>
  BY <1>3 DEF Stream, Cap, Contents, Bytes
<1>5. ASSUME pc[p] \in Offering <=> there \in Offering, there \in Offering => u = ubuf[p]
      PROVE  Given' = Given
  <2>1. Given[p] = IF there \in Offering THEN u ELSE <<>>
    BY <1>5 DEF Given
  <2> QED BY <1>1, <2>1 DEF Given
<1>6. ASSUME pc[p] \in Getting <=> there \in Getting, there \in Getting => u = ubuf[p]
      PROVE  Got' = Got
  <2>1. Got[p] = IF there \in Getting THEN u ELSE <<>>
    BY <1>6 DEF Got
  <2> QED BY <1>1, <2>1 DEF Got
<1> QED BY <1>3, <1>4, <1>5, <1>6

-----------------------------------------------------------------------------
\* The steps that only the caller notices, or nobody.

SafeInv == PipeInv /\ WrapInv

(* What the lemmas below need of the invariant. *)
LEMMA Facts ==
  ASSUME SafeInv
  PROVE  /\ TypeOK /\ SemaphoreDiscipline /\ PointersOK /\ BufferKept /\ WrapInv
         /\ bufsize \in 0 .. MaxSize /\ rp \in 0 .. bufsize /\ wp \in 0 .. bufsize
         /\ pc \in [Procs -> Critical \cup Outside] /\ ubuf \in [Procs -> Seq(Byte \cup {Junk})]
<1>1. TypeOK /\ SemaphoreDiscipline /\ PointersOK /\ BufferKept /\ WrapInv
  BY DEF SafeInv, PipeInv, Allocation
<1> QED BY <1>1, PipeAssumption DEF TypeOK, PointersOK

(* A write() that fails has appended nothing (pipe.c:159-176, 194-200,
   209-212). *)
LEMMA WithdrawStep ==
  ASSUME SafeInv, NEW p \in Procs,
         WriteInterrupted(p) \/ WriteAgain(p) \/ WriteSignalled(p) \/ WriteFault(p)
  PROVE  Abstract!Next
<1>t. TypeOK
  BY Facts
<1>1. /\ pc[p] \in {"write_down", "write_test", "write_fin", "write_copy"}
      /\ pc' = [pc EXCEPT ![p] = "idle"] /\ ubuf' = [ubuf EXCEPT ![p] = <<>>]
      /\ UNCHANGED <<mem, bufsize, rp, wp>>
  BY DEF WriteInterrupted, WriteAgain, WriteSignalled, WriteFault, Interrupted, Return, Goto,
         shared
<1>k. /\ pc[p] \in Unopened <=> "idle" \in Unopened
      /\ pc[p] \in Getting <=> "idle" \in Getting
      /\ "idle" \notin Getting
  BY <1>1 DEF Unopened, Getting
<1>2. UNCHANGED <<Stream, Cap, Users, Got>>
  BY <1>t, <1>1, <1>k, Keeps
<1>3. Given' = [Given EXCEPT ![p] = <<>>]
  BY <1>t, <1>1, Moves DEF Offering
<1> QED BY <1>2, <1>3, Withdraws

(* A write() starts with the bytes of its caller. *)
LEMMA GiveStep ==
  ASSUME SafeInv, NEW p \in Procs, NEW d \in Payloads, WriteCall(p, d)
  PROVE  Abstract!Next
<1>t. TypeOK
  BY Facts
<1>1. /\ pc[p] = "idle"
      /\ pc' = [pc EXCEPT ![p] = "write_down"] /\ ubuf' = [ubuf EXCEPT ![p] = d]
      /\ UNCHANGED <<mem, bufsize, rp, wp>>
  BY DEF WriteCall, Goto, shared
<1>k. /\ pc[p] \in Unopened <=> "write_down" \in Unopened
      /\ pc[p] \in Getting <=> "write_down" \in Getting
      /\ "write_down" \notin Getting
  BY <1>1 DEF Unopened, Getting
<1>2. UNCHANGED <<Stream, Cap, Users, Got>>
  BY <1>t, <1>1, <1>k, Keeps
<1>3. Given' = [Given EXCEPT ![p] = d]
  BY <1>t, <1>1, Moves DEF Offering
<1>4. p \in Users /\ Given[p] = <<>>
  BY <1>1 DEF Users, Given, Offering
<1>5. d \in Seq(Byte)
  BY PipeAssumption
<1> QED BY <1>2, <1>3, <1>4, <1>5, Gives

(* A read() ends with the bytes it copied (pipe.c:152-154). *)
LEMMA DeliverStep ==
  ASSUME SafeInv, NEW p \in Procs, ReadWakeWriters(p)
  PROVE  Abstract!Next
<1>t. TypeOK
  BY Facts
<1>1. /\ pc[p] = "read_wake"
      /\ pc' = [pc EXCEPT ![p] = "idle"] /\ ubuf' = [ubuf EXCEPT ![p] = <<>>]
      /\ UNCHANGED <<mem, bufsize, rp, wp>>
  BY DEF ReadWakeWriters, Return, Goto, shared
<1>k. /\ pc[p] \in Unopened <=> "idle" \in Unopened
      /\ pc[p] \in Offering <=> "idle" \in Offering
      /\ "idle" \notin Offering
  BY <1>1 DEF Unopened, Offering
<1>2. UNCHANGED <<Stream, Cap, Users, Given>>
  BY <1>t, <1>1, <1>k, Keeps
<1>3. Got' = [Got EXCEPT ![p] = <<>>]
  BY <1>t, <1>1, Moves DEF Getting
<1> QED BY <1>2, <1>3, Delivers

(* A move that no variable of Pipe shows. *)
LEMMA QuietMove ==
  ASSUME SafeInv, NEW p \in Procs, NEW there, NEW u,
         pc' = [pc EXCEPT ![p] = there], ubuf' = [ubuf EXCEPT ![p] = u],
         UNCHANGED <<mem, bufsize, rp, wp>>,
         pc[p] \in Unopened <=> there \in Unopened,
         pc[p] \in Offering <=> there \in Offering,
         there \in Offering => u = ubuf[p],
         pc[p] \notin Getting, there \notin Getting
  PROVE  UNCHANGED Abstract!vars
BY Facts, Keeps, Stutters

(* Taking and dropping the semaphore, waiting, failing to open and polling
   leave no trace in the stream. *)
LEMMA QuietStep ==
  ASSUME SafeInv, NEW p \in Procs,
         \/ \E m \in Modes[p] : OpenCall(p, m)
         \/ ReleaseCall(p)
         \/ \E n \in Counts : ReadCall(p, n)
         \/ \E e \in Polls : PollCall(p, e)
         \/ OpenDown(p) \/ OpenInterrupted(p) \/ OpenNoMemory(p) \/ ReleaseDown(p)
         \/ ReadDown(p) \/ ReadInterrupted(p) \/ ReadHasData(p) \/ ReadAgain(p)
         \/ ReadEmpty(p) \/ ReadPrepare(p) \/ ReadResume(p) \/ ReadSignalled(p)
         \/ ReadSleep(p) \/ ReadAwake(p) \/ ReadFault(p)
         \/ WriteDown(p) \/ WriteHasSpace(p) \/ WriteFull(p) \/ WritePrepare(p)
         \/ WriteCondition(p) \/ WriteAwake(p) \/ WriteFinishWait(p)
         \/ WriteWakeReaders(p) \/ WriteSignalAsync(p)
         \/ PollStep(p)
  PROVE  UNCHANGED Abstract!vars
<1>t. ubuf \in [Procs -> Seq(Byte \cup {Junk})]
  BY Facts
<1>u. ASSUME ubuf' = ubuf PROVE ubuf' = [ubuf EXCEPT ![p] = ubuf[p]]
  BY <1>t, <1>u
<1> USE DEF Goto, Down, Return, Interrupted, shared
<1>1. ASSUME NEW here, NEW there, Goto(p, here, there), ubuf' = ubuf \/ ubuf' = [ubuf EXCEPT ![p] = <<>>],
             UNCHANGED <<mem, bufsize, rp, wp>>,
             \/ {here, there} \subseteq Unopened
             \/ /\ {here, there} \subseteq Offering
                /\ ubuf' = ubuf
             \/ {here, there} \cap (Unopened \cup Offering \cup Getting) = {}
      PROVE  UNCHANGED Abstract!vars
  <2>1. PICK u : ubuf' = [ubuf EXCEPT ![p] = u] /\ (there \in Offering => u = ubuf[p])
    <3>1. CASE ubuf' = ubuf
      BY <1>u, <3>1
    <3>2. CASE ubuf' = [ubuf EXCEPT ![p] = <<>>] /\ ubuf' # ubuf
      BY <1>1, <3>2 DEF Unopened, Offering
    <3> QED BY <1>1, <3>1, <3>2
  <2> QED BY <1>1, <2>1, QuietMove DEF Unopened, Offering, Getting
<1> USE DEF Unopened, Offering, Getting
<1>2. CASE \E m \in Modes[p] : OpenCall(p, m)
  BY <1>1, <1>2 DEF OpenCall
<1>3. ASSUME NEW n \in Counts, ReadCall(p, n)
      PROVE  UNCHANGED Abstract!vars
  <2>1. /\ Goto(p, "idle", "read_down") /\ ubuf' = ubuf
        /\ UNCHANGED <<mem, bufsize, rp, wp>>
    BY <1>3 DEF ReadCall
  <2>2. {"idle", "read_down"} \cap (Unopened \cup Offering \cup Getting) = {}
    OBVIOUS
  <2> QED BY <1>1, <2>1, <2>2
<1>4. ASSUME NEW e \in Polls, PollCall(p, e)
      PROVE  UNCHANGED Abstract!vars
  <2>1. /\ Goto(p, "idle", "poll_down") /\ ubuf' = ubuf
        /\ UNCHANGED <<mem, bufsize, rp, wp>>
    BY <1>4 DEF PollCall
  <2>2. {"idle", "poll_down"} \cap (Unopened \cup Offering \cup Getting) = {}
    OBVIOUS
  <2> QED BY <1>1, <2>1, <2>2
<1>5. CASE ReleaseCall(p) \/ ReleaseDown(p)
  BY <1>1, <1>5 DEF ReleaseCall, ReleaseDown
<1>6. CASE OpenDown(p) \/ OpenInterrupted(p) \/ OpenNoMemory(p)
  BY <1>1, <1>6 DEF OpenDown, OpenInterrupted, OpenNoMemory
<1>7. CASE ReadDown(p) \/ ReadInterrupted(p) \/ ReadHasData(p) \/ ReadAgain(p) \/ ReadEmpty(p)
  BY <1>1, <1>7 DEF ReadDown, ReadInterrupted, ReadHasData, ReadAgain, ReadEmpty
<1>8. CASE \/ ReadPrepare(p) \/ ReadResume(p) \/ ReadSignalled(p) \/ ReadSleep(p)
           \/ ReadAwake(p) \/ ReadFault(p)
  BY <1>1, <1>8 DEF ReadPrepare, ReadResume, ReadSignalled, ReadSleep, ReadAwake, ReadFault
<1>9. CASE WriteDown(p) \/ WriteHasSpace(p) \/ WriteFull(p) \/ WritePrepare(p)
  BY <1>1, <1>9 DEF WriteDown, WriteHasSpace, WriteFull, WritePrepare
<1>10. CASE WriteCondition(p)
  <2>1. CASE spacefree = 0
    <3>1. /\ Goto(p, "write_cond", "write_sleep") /\ ubuf' = ubuf
          /\ UNCHANGED <<mem, bufsize, rp, wp>>
      BY <1>10, <2>1 DEF WriteCondition
    <3>2. {"write_cond", "write_sleep"} \subseteq Offering
      OBVIOUS
    <3> QED BY <1>1, <3>1, <3>2
  <2>2. CASE spacefree # 0
    <3>1. /\ Goto(p, "write_cond", "write_fin") /\ ubuf' = ubuf
          /\ UNCHANGED <<mem, bufsize, rp, wp>>
      BY <1>10, <2>2 DEF WriteCondition
    <3>2. {"write_cond", "write_fin"} \subseteq Offering
      OBVIOUS
    <3> QED BY <1>1, <3>1, <3>2
  <2> QED BY <2>1, <2>2
<1>11. CASE WriteAwake(p) \/ WriteFinishWait(p)
  BY <1>1, <1>11 DEF WriteAwake, WriteFinishWait
<1>12. CASE WriteWakeReaders(p)
  <2>1. /\ Goto(p, "write_wake", "write_sigio") /\ ubuf' = ubuf
        /\ UNCHANGED <<mem, bufsize, rp, wp>>
    BY <1>12 DEF WriteWakeReaders
  <2>2. {"write_wake", "write_sigio"} \cap (Unopened \cup Offering \cup Getting) = {}
    OBVIOUS
  <2> QED BY <1>1, <2>1, <2>2
<1>13. CASE WriteSignalAsync(p)
  <2>1. /\ Goto(p, "write_sigio", "idle") /\ ubuf' = [ubuf EXCEPT ![p] = <<>>]
        /\ UNCHANGED <<mem, bufsize, rp, wp>>
    BY <1>13 DEF WriteSignalAsync
  <2>2. {"write_sigio", "idle"} \cap (Unopened \cup Offering \cup Getting) = {}
    OBVIOUS
  <2> QED BY <1>1, <2>1, <2>2
<1>14. CASE PollStep(p)
  BY <1>1, <1>14 DEF PollStep, PollDown, PollReady, PollSleep, PollAwake, PollSignalled
<1> QED BY <1>2, <1>3, <1>4, <1>5, <1>6, <1>7, <1>8, <1>9, <1>10, <1>11, <1>14, <1>12, <1>13

-----------------------------------------------------------------------------
\* WrapInv is inductive.

(* The five steps that move a pointer. *)
LEMMA Movers ==
  ASSUME NEW p \in Procs, Call(p) \/ Step(p) \/ Signal(p)
  PROVE  \/ UNCHANGED <<bufsize, rp, wp>>
         \/ OpenInit(p) \/ ReadCopy(p) \/ ReadWrap(p) \/ WriteCopy(p) \/ WriteWrap(p)
<1> USE DEF Down, Interrupted, Return, shared
<1>1. CASE Call(p)
  BY <1>1 DEF Call, OpenCall, ReleaseCall, ReadCall, WriteCall, PollCall, Fasync
<1>2. CASE OpenStep(p) \/ ReleaseStep(p)
  BY <1>2 DEF OpenStep, OpenDown, OpenInterrupted, OpenAlloc, OpenNoMemory, ReleaseStep,
              ReleaseDown, ReleaseBody
<1>3. CASE ReadStep(p)
  BY <1>3 DEF ReadStep, ReadDown, ReadInterrupted, ReadHasData, ReadAgain, ReadEmpty,
              ReadPrepare, ReadResume, ReadSignalled, ReadSleep, ReadAwake, ReadFault,
              ReadWakeWriters
<1>4. CASE WriteStep(p)
  BY <1>4 DEF WriteStep, WriteDown, WriteInterrupted, WriteHasSpace, WriteAgain, WriteFull,
              WritePrepare, WriteCondition, WriteAwake, WriteFinishWait, WriteSignalled,
              WriteFault, WriteWakeReaders, WriteSignalAsync
<1>5. CASE PollStep(p)
  BY <1>5 DEF PollStep, PollDown, PollReady, PollSleep, PollAwake, PollSignalled
<1>6. CASE Signal(p)
  BY <1>6 DEF Signal
<1> QED BY <1>1, <1>2, <1>3, <1>4, <1>5, <1>6 DEF Step

(* A write() that reaches the end of the buffer has found its start in use. *)
LEMMA WrapStep ==
  ASSUME SafeInv, [Next]_vars
  PROVE  WrapInv'
<1>t. /\ TypeOK /\ SemaphoreDiscipline /\ PointersOK /\ WrapInv
      /\ bufsize \in Nat /\ rp \in 0 .. bufsize /\ wp \in 0 .. bufsize
  BY Facts, PipeAssumption
<1>1. ASSUME NEW p \in Procs, OpenInit(p)
      PROVE  WrapInv'
  BY <1>1 DEF OpenInit, WrapInv
<1>2. ASSUME NEW p \in Procs, ReadCopy(p)
      PROVE  WrapInv'
  <2>1. pc[p] = "read_copy" /\ rp' = rp + ReadCount(p) /\ UNCHANGED <<bufsize, wp>>
    BY <1>2 DEF ReadCopy, Goto
  <2>2. wp < bufsize
    BY <1>t, <2>1, ReadRange
  <2> QED BY <1>t, <2>1, <2>2 DEF WrapInv
<1>3. ASSUME NEW p \in Procs, ReadWrap(p)
      PROVE  WrapInv'
  <2>1. /\ pc[p] = "read_wrap" /\ UNCHANGED <<bufsize, wp>>
        /\ rp' = IF rp = bufsize THEN 0 ELSE rp
    BY <1>3 DEF ReadWrap, Goto
  <2>2. \A q \in Procs : pc[q] # "write_wrap"
    BY <1>t, <2>1 DEF SemaphoreDiscipline, Critical
  <2>3. bufsize # 0 => wp # bufsize
    BY <1>t, <2>2 DEF PointersOK
  <2> QED BY <2>1, <2>3 DEF WrapInv
<1>4. ASSUME NEW p \in Procs, WriteCopy(p)
      PROVE  WrapInv'
  <2>1. pc[p] = "write_copy" /\ wp' = wp + WriteCount(p) /\ UNCHANGED <<bufsize, rp>>
    BY <1>4 DEF WriteCopy, Goto
  <2>2. wp >= rp /\ rp = 0 => wp + WriteCount(p) < bufsize
    BY <1>t, <2>1, WriteRange
  <2>3. rp = 0 => wp >= rp
    BY <1>t
  <2> QED BY <1>t, <2>1, <2>2, <2>3 DEF WrapInv
<1>5. ASSUME NEW p \in Procs, WriteWrap(p)
      PROVE  WrapInv'
  BY <1>5 DEF WriteWrap, WrapInv
<1>6. ASSUME UNCHANGED <<bufsize, rp, wp>>
      PROVE  WrapInv'
  BY <1>t, <1>6 DEF WrapInv
<1>7. ASSUME NEW n \in BufSizes, ResizeIoctl(n)
      PROVE  WrapInv'
  BY <1>6, <1>7 DEF ResizeIoctl
<1>8. CASE UNCHANGED vars
  BY <1>6, <1>8 DEF vars, shared
<1> QED BY <1>1, <1>2, <1>3, <1>4, <1>5, <1>6, <1>7, <1>8, Movers DEF Next

(* The invariant of the refinement holds throughout. *)
THEOREM PipeSafeInvariant == Spec => []SafeInv
<1>1. Init => WrapInv
  BY DEF Init, WrapInv
<1>2. SafeInv /\ [Next]_vars => WrapInv'
  BY WrapStep
<1> QED BY PipeInvariant, <1>1, <1>2, PTL DEF SafeInv, Spec

-----------------------------------------------------------------------------
\* open() and release().

(* An area is only allocated while nobody has the device open. *)
LEMMA AllocStep ==
  ASSUME SafeInv, NEW p \in Procs, OpenAlloc(p)
  PROVE  UNCHANGED Abstract!vars
<1>t. TypeOK /\ BufferKept /\ ubuf \in [Procs -> Seq(Byte \cup {Junk})]
  BY Facts
<1>1. /\ pc[p] = "open_alloc" /\ pc' = [pc EXCEPT ![p] = "open_init"]
      /\ ubuf' = [ubuf EXCEPT ![p] = ubuf[p]] /\ UNCHANGED <<bufsize, rp, wp>>
      /\ alloc # 0 => mem' = mem
  BY <1>t DEF OpenAlloc, Goto
<1>2. /\ pc[p] \in Unopened /\ "open_init" \in Unopened
      /\ pc[p] \notin Offering /\ "open_init" \notin Offering
      /\ pc[p] \notin Getting /\ "open_init" \notin Getting
  BY <1>1 DEF Unopened, Offering, Getting
<1>3. UNCHANGED <<Users, Given, Got>>
  BY <1>t, <1>1, <1>2, Keeps
<1>4. Users # {} => mem' = mem
  BY <1>t, <1>1 DEF BufferKept
<1>5. UNCHANGED <<Stream, Cap>>
  BY <1>1, <1>3, <1>4 DEF Stream, Cap, Contents, Bytes
<1> QED BY <1>3, <1>5, Stutters

(* An open() that gets this far restarts the stream. *)
LEMMA InitStep ==
  ASSUME SafeInv, NEW p \in Procs, OpenInit(p)
  PROVE  Abstract!Next
<1>t. TypeOK
  BY Facts
<1>1. /\ pc[p] = "open_init" /\ pc' = [pc EXCEPT ![p] = "idle"]
      /\ ubuf' = [ubuf EXCEPT ![p] = <<>>]
      /\ rp' = 0 /\ wp' = 0 /\ bufsize' = pbuf
  BY DEF OpenInit, Return, Goto
<1>2. /\ pc[p] \notin Offering /\ "idle" \notin Offering
      /\ pc[p] \notin Getting /\ "idle" \notin Getting
      /\ "idle" \notin Unopened
  BY <1>1 DEF Unopened, Offering, Getting
<1>3. p \notin Users /\ Users' = Users \cup {p}
  BY <1>t, <1>1, <1>2, Moves DEF Users
<1>4. Given[p] = <<>> /\ Got[p] = <<>>
  BY <1>2 DEF Given, Got
<1>5. /\ Given' = [Given EXCEPT ![p] = <<>>]
      /\ Got' = [Got EXCEPT ![p] = <<>>]
  BY <1>t, <1>1, <1>2, Moves
<1>6. UNCHANGED <<Given, Got>>
  <2>1. Given' = Given
    BY <1>4, <1>5 DEF Given
  <2>2. Got' = Got
    BY <1>4, <1>5 DEF Got
  <2> QED BY <2>1, <2>2
<1>7. Stream' = <<>>
  <2>1. Contents' = [i \in 1 .. 0 |-> mem'[0 + i - 1]]
    BY <1>1 DEF Contents, Bytes
  <2>2. Contents' = <<>>
    BY <2>1
  <2> QED BY <2>2 DEF Stream
<1>8. Cap' \in Nat
  BY <1>1, <1>t, PipeAssumption DEF Cap, TypeOK
<1> QED BY <1>3, <1>6, <1>7, <1>8, Opens

(* The last release() empties the stream, an earlier one leaves it alone. *)
LEMMA CloseStep ==
  ASSUME SafeInv, BufferKept', NEW p \in Procs, ReleaseBody(p)
  PROVE  Abstract!Next
<1>t. TypeOK
  BY Facts
<1>1. /\ pc[p] = "rel_body" /\ pc' = [pc EXCEPT ![p] = "closed"]
      /\ ubuf' = [ubuf EXCEPT ![p] = <<>>]
      /\ UNCHANGED <<bufsize, rp, wp>> /\ (alloc' # 0 => mem' = mem)
  BY DEF ReleaseBody, Return, Goto
<1>2. /\ pc[p] \notin Offering /\ "closed" \notin Offering
      /\ pc[p] \notin Getting /\ "closed" \notin Getting
      /\ "closed" \in Unopened
  BY <1>1 DEF Unopened, Offering, Getting
<1>3. p \in Users /\ Users' = Users \ {p}
  BY <1>t, <1>1, <1>2, Moves DEF Users
<1>4. Given[p] = <<>> /\ Got[p] = <<>>
  BY <1>2 DEF Given, Got
<1>5. /\ Given' = [Given EXCEPT ![p] = <<>>]
      /\ Got' = [Got EXCEPT ![p] = <<>>]
  BY <1>t, <1>1, <1>2, Moves
<1>6. UNCHANGED <<Given, Got>>
  <2>1. Given' = Given
    BY <1>4, <1>5 DEF Given
  <2>2. Got' = Got
    BY <1>4, <1>5 DEF Got
  <2> QED BY <2>1, <2>2
<1>7. Users' = {} => Stream' = <<>> /\ Cap' = 0
  BY DEF Stream, Cap
<1>8. ASSUME Users' # {} PROVE UNCHANGED <<Stream, Cap>>
  <2>1. mem' = mem
    BY <1>1, <1>8 DEF BufferKept
  <2> QED BY <1>1, <1>3, <1>8, <2>1 DEF Stream, Cap, Contents, Bytes
<1> QED BY <1>3, <1>6, <1>7, <1>8, Closes

-----------------------------------------------------------------------------
\* What a copy and a wrap do to a stream of bytes.

(* The k bytes from place r on, and what a copy of k bytes to place w does. *)
Piece(m, r, k) == [i \in 1 .. k |-> m[r + i - 1]]
Laying(l, m, u, w, k) ==
  /\ \A x \in Addr \ (w .. (w + k - 1)) : l[x] = m[x]
  /\ \A j \in 1 .. k : l[w + j - 1] = u[j]

(* A read() that stops at the buffer's end or at the write pointer takes the
   front of the stream. *)
LEMMA TakeRing ==
  ASSUME NEW m \in [Addr -> Byte \cup {Junk}], NEW n \in 0 .. MaxSize,
         NEW r \in 0 .. n, NEW w \in 0 .. n, r # w,
         NEW k \in Nat \ {0}, r + k <= n, r < w => r + k <= w
  PROVE  /\ k \in 1 .. Len(Laid(m, n, r, w))
         /\ Piece(m, r, k) = SubSeq(Laid(m, n, r, w), 1, k)
         /\ Laid(m, n, r + k, w) = SubSeq(Laid(m, n, r, w), k + 1, Len(Laid(m, n, r, w)))
<1> DEFINE S == Byte \cup {Junk}
           s == Laid(m, n, r, w)
           t == Laid(m, n, r + k, w)
           h == Held(r, w, n)
           u == Piece(m, r, k)
<1>n. n \in Nat /\ r \in Nat /\ w \in Nat /\ r + k \in 0 .. n /\ r + k \in Nat
  BY PipeAssumption
<1>1. s \in Seq(S) /\ Len(s) = h /\ h \in Nat /\ \A i \in 1 .. h : s[i] = m[At(r, n, i - 1)]
  BY Ring
<1>2. /\ t \in Seq(S) /\ Len(t) = Held(r + k, w, n)
      /\ \A i \in 1 .. Held(r + k, w, n) : t[i] = m[At(r + k, n, i - 1)]
  BY <1>n, Ring
<1>3. k <= h /\ Held(r + k, w, n) = h - k
  BY <1>n DEF Held
<1>4. \A i \in 1 .. h - k : At(r + k, n, i - 1) = At(r, n, k + i - 1) /\ k + i \in 1 .. h
  BY <1>n, <1>1, <1>3 DEF At
<1>5. \A i \in 1 .. k : At(r, n, i - 1) = r + i - 1 /\ i \in 1 .. h /\ r + i - 1 \in Addr
  BY <1>n, <1>1, <1>3, PipeAssumption DEF At, Addr
<1>6. u \in Seq(S) /\ Len(u) = k /\ \A i \in 1 .. k : u[i] = m[r + i - 1]
  <2>1. \A i \in 1 .. k : m[r + i - 1] \in S
    BY <1>5
  <2> QED BY <2>1 DEF Piece
<1> HIDE DEF S, s, t, h, u
<1>7. /\ SubSeq(s, 1, k) \in Seq(S) /\ Len(SubSeq(s, 1, k)) = k
      /\ \A i \in 1 .. k : SubSeq(s, 1, k)[i] = s[i]
  <2>1. \A i \in 1 .. k : s[i] \in S
    BY <1>1, <1>5, ElementOfSeq
  <2>2. /\ SubSeq(s, 1, k) \in Seq(S)
        /\ Len(SubSeq(s, 1, k)) = IF 1 <= k THEN k - 1 + 1 ELSE 0
        /\ \A i \in 1 .. k - 1 + 1 : SubSeq(s, 1, k)[i] = s[1 + i - 1]
    BY <2>1, SubSeqProperties
  <2> QED BY <2>2
<1>8. /\ SubSeq(s, k + 1, h) \in Seq(S) /\ Len(SubSeq(s, k + 1, h)) = h - k
      /\ \A i \in 1 .. h - k : SubSeq(s, k + 1, h)[i] = s[k + i]
  <2>1. \A i \in k + 1 .. h : s[i] \in S
    BY <1>1, ElementOfSeq
  <2>2. /\ SubSeq(s, k + 1, h) \in Seq(S)
        /\ Len(SubSeq(s, k + 1, h)) = IF k + 1 <= h THEN h - (k + 1) + 1 ELSE 0
        /\ \A i \in 1 .. h - (k + 1) + 1 : SubSeq(s, k + 1, h)[i] = s[k + 1 + i - 1]
    <3>1. k + 1 \in Int /\ h \in Int
      BY <1>1
    <3> QED BY <2>1, <3>1, SubSeqProperties
  <2>3. h - (k + 1) + 1 = h - k /\ \A i \in 1 .. h - k : k + 1 + i - 1 = k + i
    BY <1>1
  <2>4. (IF k + 1 <= h THEN h - (k + 1) + 1 ELSE 0) = h - k
    BY <1>1, <1>3
  <2> QED BY <2>2, <2>3, <2>4
<1>9. u = SubSeq(s, 1, k)
  <2>1. \A i \in 1 .. k : u[i] = SubSeq(s, 1, k)[i]
    BY <1>1, <1>5, <1>6, <1>7
  <2> QED BY <1>6, <1>7, <2>1, SeqEqual
<1>10. t = SubSeq(s, k + 1, h)
  <2>1. \A i \in 1 .. h - k : t[i] = SubSeq(s, k + 1, h)[i]
    <3>1. ASSUME NEW i \in 1 .. h - k
          PROVE  t[i] = SubSeq(s, k + 1, h)[i]
      <4>1. t[i] = m[At(r, n, k + i - 1)]
        BY <1>2, <1>3, <1>4
      <4>2. s[k + i] = m[At(r, n, k + i - 1)]
        BY <1>1, <1>4
      <4> QED BY <1>8, <4>1, <4>2
    <3> QED BY <3>1
  <2> QED BY <1>2, <1>3, <1>8, <2>1, SeqEqual
<1>11. k \in 1 .. h
  BY <1>1, <1>3
<1> QED BY <1>1, <1>9, <1>10, <1>11 DEF s, t, u

(* A write() that stops at the buffer's end or short of the read pointer
   extends the stream, and leaves a byte free. *)
LEMMA PutRing ==
  ASSUME NEW m \in [Addr -> Byte \cup {Junk}], NEW n \in 0 .. MaxSize,
         NEW r \in 0 .. n, NEW w \in 0 .. n, r < n,
         NEW u \in Seq(Byte \cup {Junk}), NEW k \in 1 .. Len(u),
         w + k <= n, w < r => w + k < r, w >= r /\ r = 0 => w + k < n,
         NEW l \in [Addr -> Byte \cup {Junk}],
         Laying(l, m, u, w, k)
  PROVE  /\ Laid(l, n, r, w + k) = Laid(m, n, r, w) \o SubSeq(u, 1, k)
         /\ Len(Laid(l, n, r, w + k)) <= n - 1
<1> DEFINE S == Byte \cup {Junk}
           s == Laid(m, n, r, w)
           t == Laid(l, n, r, w + k)
           h == Held(r, w, n)
           v == SubSeq(u, 1, k)
<1>n. /\ n \in Nat /\ r \in Nat /\ w \in Nat /\ k \in Nat \ {0}
      /\ w + k \in 0 .. n /\ w + k \in Nat
  BY PipeAssumption
<1>1. s \in Seq(S) /\ Len(s) = h /\ h \in Nat /\ \A i \in 1 .. h : s[i] = m[At(r, n, i - 1)]
  BY Ring, ZenonT(60)
<1>2. /\ t \in Seq(S) /\ Len(t) = Held(r, w + k, n)
      /\ \A i \in 1 .. Held(r, w + k, n) : t[i] = l[At(r, n, i - 1)]
  BY <1>n, Ring, ZenonT(60)
<1>3. Held(r, w + k, n) = h + k /\ h + k <= n - 1
  <2>1. CASE w >= r
    BY <1>n, <2>1 DEF Held
  <2>2. CASE w < r
    BY <1>n, <2>2 DEF Held
  <2> QED BY <1>n, <2>1, <2>2
<1>4. \A i \in 1 .. h : At(r, n, i - 1) \in Addr /\ At(r, n, i - 1) \notin w .. (w + k - 1)
  <2>1. n <= MaxSize /\ MaxSize \in Nat
    BY PipeAssumption
  <2>2. CASE w >= r
    BY <1>n, <2>1, <2>2 DEF At, Held, Addr
  <2>3. CASE w < r
    BY <1>n, <2>1, <2>3 DEF At, Held, Addr
  <2> QED BY <1>n, <2>2, <2>3
<1>5. \A j \in 1 .. k : At(r, n, h + j - 1) = w + j - 1
  BY <1>n, <1>1 DEF At, Held
<1>6. v \in Seq(S) /\ Len(v) = k /\ \A j \in 1 .. k : v[j] = u[j]
  <2>1. Len(u) \in Nat /\ \A i \in 1 .. k : i \in 1 .. Len(u)
    BY LenProperties
  <2>2. \A i \in 1 .. k : u[i] \in S
    BY <2>1, ElementOfSeq
  <2>3. /\ v \in Seq(S)
        /\ Len(v) = IF 1 <= k THEN k - 1 + 1 ELSE 0
        /\ \A i \in 1 .. k - 1 + 1 : v[i] = u[1 + i - 1]
    BY <1>n, <2>2, SubSeqProperties
  <2> QED BY <1>n, <2>3
<1>7. \A i \in 1 .. h : l[At(r, n, i - 1)] = m[At(r, n, i - 1)]
  BY <1>4 DEF Laying
<1> HIDE DEF S, s, t, h, v
<1>8. /\ s \o v \in Seq(S) /\ Len(s \o v) = h + k
       /\ \A i \in 1 .. h + k : (s \o v)[i] = IF i <= h THEN s[i] ELSE v[i - h]
  <2>1. /\ s \o v \in Seq(S) /\ Len(s \o v) = Len(s) + Len(v)
        /\ \A i \in 1 .. Len(s) + Len(v) : (s \o v)[i] = IF i <= Len(s) THEN s[i] ELSE v[i - Len(s)]
    BY <1>1, <1>6, ConcatProperties, Zenon
  <2> QED BY <1>1, <1>6, <2>1, Zenon
<1>9. ASSUME NEW i \in 1 .. h + k
       PROVE  t[i] = (s \o v)[i]
  <2>1. CASE i <= h
    <3>1. i \in 1 .. h
      BY <1>1, <2>1
    <3>2. t[i] = m[At(r, n, i - 1)]
      BY <1>2, <1>3, <1>7, <3>1
    <3>3. (s \o v)[i] = s[i]
      BY <1>8, <2>1
    <3> QED BY <1>1, <3>1, <3>2, <3>3
  <2>2. CASE ~(i <= h)
    <3>1. i - h \in 1 .. k /\ h + (i - h) - 1 = i - 1
      BY <1>n, <1>1, <2>2
    <3>2. t[i] = u[i - h]
      <4>1. At(r, n, i - 1) = w + (i - h) - 1
        BY <1>5, <3>1
      <4>2. l[w + (i - h) - 1] = u[i - h]
        BY <3>1 DEF Laying
      <4> QED BY <1>2, <1>3, <4>1, <4>2
    <3>3. (s \o v)[i] = v[i - h]
      BY <1>8, <2>2
    <3> QED BY <1>6, <3>1, <3>2, <3>3
  <2> QED BY <2>1, <2>2
<1>10. t = s \o v
  BY <1>2, <1>3, <1>8, <1>9, SeqEqual
<1> QED BY <1>2, <1>3, <1>10 DEF s, t, v


(* A pointer at the buffer's end and the same pointer at its start delimit the
   same bytes. *)
LEMMA WrapRing ==
  ASSUME NEW m \in [Addr -> Byte \cup {Junk}], NEW n \in 0 .. MaxSize
  PROVE  /\ \A w \in 0 .. n : w # n => Laid(m, n, 0, w) = Laid(m, n, n, w)
         /\ \A r \in 0 .. n : r # 0 /\ r # n => Laid(m, n, r, 0) = Laid(m, n, r, n)
<1>n. n \in Nat /\ 0 \in 0 .. n /\ n \in 0 .. n
  BY PipeAssumption
<1>1. ASSUME NEW a \in 0 .. n, NEW b \in 0 .. n, NEW c \in 0 .. n, NEW d \in 0 .. n,
             Held(a, b, n) = Held(c, d, n),
             \A i \in 1 .. Held(a, b, n) : At(a, n, i - 1) = At(c, n, i - 1)
      PROVE  Laid(m, n, a, b) = Laid(m, n, c, d)
  <2>1. /\ Laid(m, n, a, b) \in Seq(Byte \cup {Junk}) /\ Len(Laid(m, n, a, b)) = Held(a, b, n)
        /\ \A i \in 1 .. Held(a, b, n) : Laid(m, n, a, b)[i] = m[At(a, n, i - 1)]
    BY Ring, ZenonT(60)
  <2>2. /\ Laid(m, n, c, d) \in Seq(Byte \cup {Junk}) /\ Len(Laid(m, n, c, d)) = Held(c, d, n)
        /\ \A i \in 1 .. Held(c, d, n) : Laid(m, n, c, d)[i] = m[At(c, n, i - 1)]
    BY Ring, ZenonT(60)
  <2>3. \A i \in 1 .. Held(a, b, n) : Laid(m, n, a, b)[i] = Laid(m, n, c, d)[i]
    BY <1>1, <2>1, <2>2
  <2> QED BY <1>1, <2>1, <2>2, <2>3, SeqEqual
<1>2. ASSUME NEW w \in 0 .. n, w # n
      PROVE  Laid(m, n, 0, w) = Laid(m, n, n, w)
  <2>1. Held(0, w, n) = w /\ Held(n, w, n) = w
    BY <1>n, <1>2 DEF Held
  <2>2. \A i \in 1 .. w : At(0, n, i - 1) = At(n, n, i - 1)
    BY <1>n, <1>2 DEF At
  <2> QED BY <1>n, <1>1, <2>1, <2>2
<1>3. ASSUME NEW r \in 0 .. n, r # 0, r # n
      PROVE  Laid(m, n, r, 0) = Laid(m, n, r, n)
  <2>1. Held(r, 0, n) = Held(r, n, n)
    BY <1>n, <1>3 DEF Held
  <2> QED BY <1>n, <1>1, <2>1
<1> QED BY <1>2, <1>3

-----------------------------------------------------------------------------
\* The copies of read() and write().

(* The stream while somebody has the device open. *)
LEMMA StreamLaid ==
  ASSUME Users # {}
  PROVE  Stream = Laid(mem, bufsize, rp, wp) /\ Cap = bufsize - 1
BY DEF Stream, Cap, Contents, Bytes, Laid

(* Moving dev->rp back to the start changes nothing (pipe.c:147-149). *)
LEMMA ReadWrapStep ==
  ASSUME SafeInv, NEW p \in Procs, ReadWrap(p)
  PROVE  UNCHANGED Abstract!vars
<1>t. /\ TypeOK /\ SemaphoreDiscipline /\ PointersOK
      /\ mem \in [Addr -> Byte \cup {Junk}] /\ ubuf \in [Procs -> Seq(Byte \cup {Junk})]
      /\ bufsize \in 0 .. MaxSize /\ wp \in 0 .. bufsize
  BY Facts DEF TypeOK
<1>1. /\ pc[p] = "read_wrap" /\ pc' = [pc EXCEPT ![p] = "read_wake"]
      /\ ubuf' = [ubuf EXCEPT ![p] = ubuf[p]] /\ UNCHANGED <<mem, bufsize, wp>>
      /\ rp' = IF rp = bufsize THEN 0 ELSE rp
  BY <1>t DEF ReadWrap, Goto
<1>2. /\ pc[p] \notin Unopened /\ "read_wake" \notin Unopened
      /\ pc[p] \notin Offering /\ "read_wake" \notin Offering
      /\ pc[p] \in Getting /\ "read_wake" \in Getting
  BY <1>1 DEF Unopened, Offering, Getting
<1>3. UNCHANGED <<Users, Given, Got>>
  BY <1>t, <1>1, <1>2, Keeps
<1>4. p \in Users
  BY <1>2 DEF Users, Unopened
<1>5. wp # bufsize
  <2>1. \A q \in Procs : pc[q] # "write_wrap"
    BY <1>t, <1>1 DEF SemaphoreDiscipline, Critical
  <2> QED BY <1>4, <2>1, <1>t DEF PointersOK
<1>6. Laid(mem, bufsize, rp', wp) = Laid(mem, bufsize, rp, wp)
  BY <1>t, <1>1, <1>5, WrapRing
<1>7. Stream' = Laid(mem, bufsize, rp', wp) /\ Cap' = bufsize - 1
  BY <1>1, <1>3, <1>4 DEF Stream, Cap, Contents, Bytes, Laid
<1>8. UNCHANGED <<Stream, Cap>>
  BY <1>4, <1>6, <1>7, StreamLaid
<1> QED BY <1>3, <1>8, Stutters

(* Moving dev->wp back changes nothing, because the byte kept free keeps it
   off dev->rp (pipe.c:214-216). *)
LEMMA WriteWrapStep ==
  ASSUME SafeInv, NEW p \in Procs, WriteWrap(p)
  PROVE  UNCHANGED Abstract!vars
<1>t. /\ TypeOK /\ SemaphoreDiscipline /\ PointersOK /\ WrapInv
      /\ mem \in [Addr -> Byte \cup {Junk}] /\ ubuf \in [Procs -> Seq(Byte \cup {Junk})]
      /\ bufsize \in 0 .. MaxSize /\ rp \in 0 .. bufsize
  BY Facts DEF TypeOK
<1>1. /\ pc[p] = "write_wrap" /\ pc' = [pc EXCEPT ![p] = "write_wake"]
      /\ ubuf' = [ubuf EXCEPT ![p] = ubuf[p]] /\ UNCHANGED <<mem, bufsize, rp>>
      /\ wp' = IF wp = bufsize THEN 0 ELSE wp
  BY <1>t DEF WriteWrap, Goto
<1>2. /\ pc[p] \notin Unopened /\ "write_wake" \notin Unopened
      /\ pc[p] \notin Offering /\ "write_wake" \notin Offering
      /\ pc[p] \notin Getting /\ "write_wake" \notin Getting
  BY <1>1 DEF Unopened, Offering, Getting
<1>3. UNCHANGED <<Users, Given, Got>>
  BY <1>t, <1>1, <1>2, Keeps
<1>4. p \in Users
  BY <1>2 DEF Users, Unopened
<1>5. rp # bufsize /\ (wp = bufsize => rp # 0)
  <2>1. \A q \in Procs : pc[q] # "read_wrap"
    BY <1>t, <1>1 DEF SemaphoreDiscipline, Critical
  <2>2. bufsize # 0
    BY <1>4, <1>t DEF PointersOK
  <2> QED BY <2>1, <2>2, <1>t DEF PointersOK, WrapInv
<1>6. Laid(mem, bufsize, rp, wp') = Laid(mem, bufsize, rp, wp)
  BY <1>t, <1>1, <1>5, WrapRing
<1>7. Stream' = Laid(mem, bufsize, rp, wp') /\ Cap' = bufsize - 1
  BY <1>1, <1>3, <1>4 DEF Stream, Cap, Contents, Bytes, Laid
<1>8. UNCHANGED <<Stream, Cap>>
  BY <1>4, <1>6, <1>7, StreamLaid
<1> QED BY <1>3, <1>8, Stutters

(* A read() takes the front of the stream (pipe.c:137-146). *)
LEMMA ReadCopyStep ==
  ASSUME SafeInv, NEW p \in Procs, ReadCopy(p)
  PROVE  Abstract!Next \/ UNCHANGED Abstract!vars
<1> DEFINE n == ReadCount(p)
           u == [i \in 1 .. n |-> mem[rp + i - 1]]
<1>t. /\ TypeOK /\ SemaphoreDiscipline /\ PointersOK
      /\ mem \in [Addr -> Byte \cup {Junk}]
      /\ bufsize \in 0 .. MaxSize /\ rp \in 0 .. bufsize /\ wp \in 0 .. bufsize
  BY Facts DEF TypeOK
<1>1. /\ pc[p] = "read_copy" /\ pc' = [pc EXCEPT ![p] = "read_wrap"]
      /\ ubuf' = [ubuf EXCEPT ![p] = u] /\ UNCHANGED <<mem, bufsize, wp>>
      /\ rp' = rp + n
  BY DEF ReadCopy, Goto
<1>2. /\ pc[p] \notin Unopened /\ "read_wrap" \notin Unopened
      /\ pc[p] \notin Offering /\ "read_wrap" \notin Offering
      /\ pc[p] \notin Getting /\ "read_wrap" \in Getting
  BY <1>1 DEF Unopened, Offering, Getting
<1>3. n \in Nat /\ rp # wp /\ rp + n <= bufsize /\ (rp < wp => rp + n <= wp)
  BY <1>t, <1>1, ReadRange
<1> HIDE DEF n, u
<1>4. /\ UNCHANGED <<Users, Given>> /\ Got' = [Got EXCEPT ![p] = u]
      /\ p \in Users /\ Got[p] = <<>>
  <2>1. UNCHANGED <<Users, Given>>
    BY <1>t, <1>1, <1>2, Keeps
  <2>2. Got' = [Got EXCEPT ![p] = u]
    BY <1>t, <1>1, <1>2, Moves
  <2> QED BY <1>2, <2>1, <2>2 DEF Users, Unopened, Got
<1>5. /\ Stream' = Laid(mem, bufsize, rp + n, wp) /\ Cap' = bufsize - 1
      /\ Stream = Laid(mem, bufsize, rp, wp) /\ Cap = bufsize - 1
  <2>1. Users # {} /\ Users' # {}
    BY <1>4
  <2> QED BY <1>1, <2>1 DEF Stream, Cap, Contents, Bytes, Laid
<1>6. CASE n = 0
  <2>1. u = <<>>
    BY <1>6 DEF u
  <2>2. Got' = Got
    BY <1>4, <2>1 DEF Got
  <2>3. rp + n = rp
    BY <1>t, <1>6
  <2> QED BY <1>4, <1>5, <2>2, <2>3, Stutters
<1>7. CASE n # 0
  <2>1. /\ n \in 1 .. Len(Stream) /\ u = SubSeq(Stream, 1, n)
        /\ Stream' = SubSeq(Stream, n + 1, Len(Stream))
    <3>1. n \in Nat \ {0}
      BY <1>3, <1>7
    <3>2. /\ n \in 1 .. Len(Laid(mem, bufsize, rp, wp))
          /\ Piece(mem, rp, n) = SubSeq(Laid(mem, bufsize, rp, wp), 1, n)
          /\ Laid(mem, bufsize, rp + n, wp)
               = SubSeq(Laid(mem, bufsize, rp, wp), n + 1, Len(Laid(mem, bufsize, rp, wp)))
      BY <1>t, <1>3, <3>1, TakeRing, ZenonT(60)
    <3> QED BY <1>5, <3>2, Zenon DEF u, Piece
  <2> QED BY <1>4, <1>5, <2>1, Gets
<1> QED BY <1>6, <1>7

(* A write() appends to it (pipe.c:202-213). *)
LEMMA WriteCopyStep ==
  ASSUME SafeInv, NEW p \in Procs, WriteCopy(p)
  PROVE  Abstract!Next \/ UNCHANGED Abstract!vars
<1> DEFINE n == WriteCount(p)
           u == ubuf[p]
<1>t. /\ TypeOK /\ SemaphoreDiscipline /\ PointersOK
      /\ mem \in [Addr -> Byte \cup {Junk}] /\ u \in Seq(Byte \cup {Junk})
      /\ ubuf \in [Procs -> Seq(Byte \cup {Junk})]
      /\ bufsize \in 0 .. MaxSize /\ rp \in 0 .. bufsize /\ wp \in 0 .. bufsize
  BY Facts DEF TypeOK
<1>1. /\ pc[p] = "write_copy" /\ pc' = [pc EXCEPT ![p] = "write_wrap"]
      /\ ubuf' = [ubuf EXCEPT ![p] = u] /\ UNCHANGED <<bufsize, rp>>
      /\ mem' = [x \in Addr |-> IF x \in wp .. (wp + n - 1) THEN u[x - wp + 1] ELSE mem[x]]
      /\ wp' = wp + n
  BY <1>t DEF WriteCopy, Goto
<1>2. /\ pc[p] \notin Unopened /\ "write_wrap" \notin Unopened
      /\ pc[p] \in Offering /\ "write_wrap" \notin Offering
      /\ pc[p] \notin Getting /\ "write_wrap" \notin Getting
  BY <1>1 DEF Unopened, Offering, Getting
<1>3. /\ n \in 0 .. Len(u) /\ rp < bufsize /\ wp + n <= bufsize
      /\ (wp < rp => wp + n < rp) /\ (wp >= rp /\ rp = 0 => wp + n < bufsize)
  BY <1>t, <1>1, WriteRange
<1>m. mem' \in [Addr -> Byte \cup {Junk}]
  BY <1>t, <1>1, WriteBytes
<1> HIDE DEF n
<1>4. /\ UNCHANGED <<Users, Got>> /\ Given' = [Given EXCEPT ![p] = <<>>]
      /\ p \in Users /\ Given[p] = u
  <2>1. UNCHANGED <<Users, Got>>
    BY <1>t, <1>1, <1>2, Keeps
  <2>2. Given' = [Given EXCEPT ![p] = <<>>]
    BY <1>t, <1>1, <1>2, Moves
  <2> QED BY <1>2, <2>1, <2>2 DEF Users, Unopened, Given
<1> HIDE DEF u
<1>5. /\ Stream' = Laid(mem', bufsize, rp, wp + n) /\ Cap' = bufsize - 1
      /\ Stream = Laid(mem, bufsize, rp, wp) /\ Cap = bufsize - 1
  <2>1. Users # {} /\ Users' # {}
    BY <1>4
  <2> QED BY <1>1, <2>1 DEF Stream, Cap, Contents, Bytes, Laid
<1>6. CASE n = 0
  <2>1. wp + n = wp /\ \A x \in Addr : x \notin wp .. (wp + n - 1)
    BY <1>t, <1>6
  <2>2. mem' = mem
    BY <1>t, <1>1, <2>1
  <2>3. UNCHANGED <<Stream, Cap, Users, Got>>
    BY <1>4, <1>5, <2>1, <2>2
  <2> QED BY <1>4, <2>3, Withdraws
<1>7. CASE n # 0
  <2>1. n \in 1 .. Len(u)
    BY <1>3, <1>7
  <2>2. Laying(mem', mem, u, wp, n)
    <3>1. ASSUME NEW j \in 1 .. n
          PROVE  mem'[wp + j - 1] = u[j]
      <4>1. PICK x : x = wp + j - 1
        OBVIOUS
      <4>2. x \in Addr /\ x \in wp .. (wp + n - 1) /\ x - wp + 1 = j
        BY <1>t, <1>3, <4>1, PipeAssumption DEF Addr
      <4>3. mem'[x] = u[x - wp + 1]
        BY <1>1, <4>2
      <4> QED BY <4>1, <4>2, <4>3, Zenon
    <3>2. \A x \in Addr \ (wp .. (wp + n - 1)) : mem'[x] = mem[x]
      BY <1>1
    <3> QED BY <3>1, <3>2 DEF Laying
  <2>3. Stream' = Stream \o SubSeq(u, 1, n) /\ Len(Stream') <= Cap
    <3>1. /\ Laid(mem', bufsize, rp, wp + n) = Laid(mem, bufsize, rp, wp) \o SubSeq(u, 1, n)
          /\ Len(Laid(mem', bufsize, rp, wp + n)) <= bufsize - 1
      BY <1>t, <1>m, <1>3, <2>1, <2>2, PutRing
    <3> QED BY <1>5, <3>1, Zenon
  <2> QED BY <1>4, <1>5, <2>1, <2>3, Puts
<1> QED BY <1>6, <1>7

-----------------------------------------------------------------------------
\* The refinement.

(* Nobody has the device open at first, and no stream exists. *)
LEMMA InitRefines == Init => Abstract!Init
<1> SUFFICES ASSUME Init PROVE Abstract!Init
  OBVIOUS
<1>1. Users = {}
  BY DEF Init, Users
<1>2. /\ Given = [p \in Procs |-> <<>>]
      /\ Got = [p \in Procs |-> <<>>]
  BY DEF Init, Given, Got, Offering, Getting
<1> QED BY <1>1, <1>2 DEF Abstract!Init, Given, Got, Getting

(* Every step of the driver is a step of the stream, or none. *)
LEMMA StepRefines ==
  ASSUME SafeInv, SafeInv', [Next]_vars
  PROVE  [Abstract!Next]_(Abstract!vars)
<1> DEFINE Maps == Abstract!Next \/ UNCHANGED Abstract!vars
<1>b. BufferKept'
  BY DEF SafeInv, PipeInv, Allocation
<1>1. ASSUME NEW p \in Procs, Call(p) \/ Step(p) \/ Signal(p)
      PROVE  Maps
  <2>1. ASSUME NEW d \in Payloads, WriteCall(p, d)
        PROVE  Maps
    BY <2>1, GiveStep
  <2>2. CASE WriteInterrupted(p) \/ WriteAgain(p) \/ WriteSignalled(p) \/ WriteFault(p)
    BY <2>2, WithdrawStep
  <2>3. CASE ReadWakeWriters(p)
    BY <2>3, DeliverStep
  <2>4. CASE OpenAlloc(p)
    BY <2>4, AllocStep
  <2>5. CASE OpenInit(p)
    BY <2>5, InitStep
  <2>6. CASE ReleaseBody(p)
    BY <1>b, <2>6, CloseStep
  <2>7. CASE ReadCopy(p)
    BY <2>7, ReadCopyStep
  <2>8. CASE ReadWrap(p)
    BY <2>8, ReadWrapStep
  <2>9. CASE WriteCopy(p)
    BY <2>9, WriteCopyStep
  <2>10. CASE WriteWrap(p)
    BY <2>10, WriteWrapStep
  <2>11. CASE Fasync(p) \/ Signal(p)
    <3>1. UNCHANGED <<mem, bufsize, rp, wp, pc, ubuf>>
      BY <2>11 DEF Fasync, Signal, shared, locals
    <3>2. UNCHANGED <<Stream, Cap, Users, Given, Got>>
      BY <3>1 DEF Stream, Cap, Users, Given, Got, Contents, Bytes
    <3> QED BY <3>2, Stutters
  <2> HIDE DEF Maps
  <2>12. CASE Call(p)
    <3>1. ASSUME \/ \E m \in Modes[p] : OpenCall(p, m)
                 \/ ReleaseCall(p)
                 \/ \E n \in Counts : ReadCall(p, n)
                 \/ \E e \in Polls : PollCall(p, e)
          PROVE  Maps
      BY <3>1, QuietStep DEF Maps
    <3> QED BY <2>1, <2>11, <2>12, <3>1 DEF Call
  <2>13. CASE OpenStep(p) \/ ReleaseStep(p)
    <3>1. ASSUME OpenDown(p) \/ OpenInterrupted(p) \/ OpenNoMemory(p) \/ ReleaseDown(p)
          PROVE  Maps
      BY <3>1, QuietStep DEF Maps
    <3> QED BY <2>4, <2>5, <2>6, <2>13, <3>1 DEF OpenStep, ReleaseStep
  <2>14. CASE ReadStep(p)
    <3>1. ASSUME \/ ReadDown(p) \/ ReadInterrupted(p) \/ ReadHasData(p) \/ ReadAgain(p)
                 \/ ReadEmpty(p) \/ ReadPrepare(p) \/ ReadResume(p) \/ ReadSignalled(p)
                 \/ ReadSleep(p) \/ ReadAwake(p) \/ ReadFault(p)
          PROVE  Maps
      BY <3>1, QuietStep DEF Maps
    <3> QED BY <2>3, <2>7, <2>8, <2>14, <3>1 DEF ReadStep
  <2>15. CASE WriteStep(p)
    <3>1. ASSUME \/ WriteDown(p) \/ WriteHasSpace(p) \/ WriteFull(p) \/ WritePrepare(p)
                 \/ WriteCondition(p) \/ WriteAwake(p) \/ WriteFinishWait(p)
                 \/ WriteWakeReaders(p) \/ WriteSignalAsync(p)
          PROVE  Maps
      BY <3>1, QuietStep DEF Maps
    <3> QED BY <2>2, <2>9, <2>10, <2>15, <3>1 DEF WriteStep
  <2>16. CASE PollStep(p)
    BY <2>16, QuietStep DEF Maps
  <2> QED BY <1>1, <2>11, <2>12, <2>13, <2>14, <2>15, <2>16 DEF Step
<1>2. ASSUME NEW n \in BufSizes, ResizeIoctl(n)
      PROVE  Maps
  <2>1. UNCHANGED <<mem, bufsize, rp, wp, pc, ubuf>>
    BY <1>2 DEF ResizeIoctl, locals
  <2>2. UNCHANGED <<Stream, Cap, Users, Given, Got>>
    BY <2>1 DEF Stream, Cap, Users, Given, Got, Contents, Bytes
  <2> QED BY <2>2, Stutters
<1>3. ASSUME UNCHANGED vars
      PROVE  Maps
  <2>1. UNCHANGED <<mem, bufsize, rp, wp, pc, ubuf>>
    BY <1>3 DEF vars, shared, locals
  <2>2. UNCHANGED <<Stream, Cap, Users, Given, Got>>
    BY <2>1 DEF Stream, Cap, Users, Given, Got, Contents, Bytes
  <2> QED BY <2>2, Stutters
<1>4. Maps
  <2> HIDE DEF Maps
  <2>1. CASE Next
    <3>1. (\E p \in Procs : Call(p) \/ Step(p) \/ Signal(p)) => Maps
      BY <1>1, Zenon
    <3>2. (\E n \in BufSizes : ResizeIoctl(n)) => Maps
      BY <1>2, Zenon
    <3> QED BY <2>1, <3>1, <3>2, Zenon DEF Next
  <2> QED BY <1>3, <2>1
<1> QED BY <1>4

(* The driver implements the byte stream: whatever the processes do, in any
   order, with signals, interrupted calls, faults and changes of the buffer
   size, a read() returns the bytes that write() calls appended, in their
   order and each once, and the stream never exceeds buffersize - 1
   (pipe.c:61-234). *)
THEOREM PipeRefinement == Spec => ImplementsPipe
<1>1. SafeInv /\ SafeInv' /\ [Next]_vars => [Abstract!Next]_(Abstract!vars)
  BY StepRefines
<1> QED BY PipeSafeInvariant, InitRefines, <1>1, PTL DEF Spec, ImplementsPipe, Abstract!Spec
=============================================================================
