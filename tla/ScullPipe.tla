------------------------------ MODULE ScullPipe ------------------------------
(***************************************************************************)
(* The scullpipe device (scull/pipe.c): a circular buffer guarded by one   *)
(* semaphore, with a wait queue for readers and one for writers.           *)
(*                                                                         *)
(* Every process has at most one open file on the device and is at one     *)
(* point of one file operation, pc[p].  A step is a stretch of code between*)
(* two points another process can observe: a semaphore operation, a        *)
(* wait-queue operation, an access to rp or wp that is made, or seen,      *)
(* without the semaphore.  Pointers into the buffer are offsets from       *)
(* dev->buffer.                                                            *)
(***************************************************************************)
EXTENDS Integers, Sequences, FiniteSets

CONSTANTS
  Procs,       \* the processes
  NoProc,      \* the semaphore's holder when nobody holds it
  Byte,        \* the bytes a program writes
  Junk,        \* what a byte of a fresh kmalloc() area holds
  MaxSize,     \* the largest scull_p_buffer ever set
  BufSizes,    \* the values scull_p_buffer is given
  Payloads,    \* the user buffers given to write()
  Counts,      \* the counts given to read()
  Modes,       \* f_mode and O_NONBLOCK of the files each process opens
  Polls,       \* the sets of events given to poll()
  AsyncProcs,  \* the processes that ask for SIGIO
  Signalled,   \* the processes that get other signals
  ResizeInUse  \* does SCULL_P_IOCTSIZE come while the pipe is open?

ASSUME PipeAssumption ==
  /\ IsFiniteSet(Procs)
  /\ NoProc \notin Procs
  /\ Junk \notin Byte
  /\ MaxSize \in Nat
  /\ BufSizes \subseteq 1 .. MaxSize
  /\ Payloads \subseteq Seq(Byte)
  /\ Counts \subseteq Nat
  /\ Modes \in [Procs -> SUBSET [access : {{"r"}, {"w"}, {"r", "w"}},
                                nonblock : BOOLEAN]]
  /\ Polls \subseteq {{"in"}, {"out"}}
  /\ AsyncProcs \subseteq Procs
  /\ Signalled \subseteq Procs
  /\ ResizeInUse \in BOOLEAN

VARIABLES
  sem,       \* holder of dev->sem, or NoProc
  pbuf,      \* scull_p_buffer
  alloc,     \* bytes behind dev->buffer, 0 when it is NULL
  mem,       \* the bytes behind dev->buffer
  bufsize,   \* dev->buffersize, which is also dev->end - dev->buffer
  rp, wp,    \* dev->rp, dev->wp
  nreaders, nwriters,
  inq, outq, \* the processes queued on dev->inq and dev->outq, not yet woken
  asyncq,    \* the files (by process) in dev->async_queue
  pc,        \* where each process is
  file,      \* f_mode and f_flags of each process's open file
  count,     \* the count argument of the call in progress
  ubuf,      \* the user buffer of the call in progress
  events,    \* what poll() is asked to wait for
  sig,       \* signal_pending(current)
  missed     \* history: queued on outq when an open emptied the buffer

shared == <<sem, pbuf, alloc, mem, bufsize, rp, wp, nreaders, nwriters>>
queues == <<inq, outq, asyncq, missed>>
locals == <<pc, file, count, ubuf, events, sig>>
vars   == <<shared, queues, locals>>

NoFile   == [access |-> {}, nonblock |-> FALSE]
Addr     == 0 .. (MaxSize - 1)
Critical == {"open_alloc", "open_init", "rel_body", "read_test", "read_copy",
             "read_wrap", "write_test", "write_copy", "write_wrap", "poll_body"}
Outside  == {"closed", "idle", "open_down", "rel_down", "read_down",
             "read_prep", "read_cond", "read_sleep", "read_wake", "write_down",
             "write_prep", "write_cond", "write_sleep", "write_fin",
             "write_wake", "write_sigio", "poll_down", "poll_sleep"}

Min2(a, b) == IF a <= b THEN a ELSE b

----------------------------------------------------------------------------
\* Control points and the semaphore.

Goto(p, here, there) ==
  /\ pc[p] = here
  /\ pc' = [pc EXCEPT ![p] = there]

(* down() and the successful down_interruptible(). *)
Down(p, here, there) ==
  /\ Goto(p, here, there)
  /\ sem = NoProc
  /\ sem' = p

Up == sem' = NoProc

(* Back to user space: pending signals are delivered, arguments forgotten. *)
Return(p, here, there) ==
  /\ Goto(p, here, there)
  /\ sig'    = [sig EXCEPT ![p] = FALSE]
  /\ count'  = [count EXCEPT ![p] = 0]
  /\ ubuf'   = [ubuf EXCEPT ![p] = <<>>]
  /\ events' = [events EXCEPT ![p] = {}]

(* The failing down_interruptible(): a signal ends the wait for a holder. *)
Interrupted(p, here, there) ==
  /\ sem # NoProc
  /\ sig[p]
  /\ Return(p, here, there)
  /\ UNCHANGED <<shared, queues>>

----------------------------------------------------------------------------
\* The circular buffer.

(* Broken: no byte is kept free, so a full buffer looks empty. *)
SpacefreeNoGap ==
  IF rp = wp THEN bufsize ELSE (rp + bufsize - wp) % bufsize

(* spacefree(dev) *)
spacefree ==
  IF rp = wp THEN bufsize - 1 ELSE ((rp + bufsize - wp) % bufsize) - 1

(* How much one read, and one write, moves before the buffer's end. *)
ReadCount(p) ==
  Min2(count[p], IF wp > rp THEN wp - rp ELSE bufsize - rp)

(* Broken: a write() runs past the buffer's end. *)
WriteCountNoEnd(p) == Min2(count[p], spacefree)

WriteCount(p) ==
  Min2(Min2(count[p], spacefree),
       IF wp >= rp THEN bufsize - wp ELSE rp - wp - 1)

Mask == {e \in {"in", "out"} : IF e = "in" THEN rp # wp ELSE spacefree # 0}

----------------------------------------------------------------------------
\* open and release

OpenCall(p, m) ==
  /\ Goto(p, "closed", "open_down")
  /\ file' = [file EXCEPT ![p] = m]
  /\ UNCHANGED <<shared, queues, count, ubuf, events, sig>>

OpenDown(p) ==
  /\ Down(p, "open_down", "open_alloc")
  /\ UNCHANGED <<pbuf, alloc, mem, bufsize, rp, wp, nreaders, nwriters,
                 queues, file, count, ubuf, events, sig>>

OpenInterrupted(p) ==
  /\ Interrupted(p, "open_down", "closed")
  /\ file' = [file EXCEPT ![p] = NoFile]

(* The buffer is allocated unless an earlier open has. *)
OpenAlloc(p) ==
  /\ Goto(p, "open_alloc", "open_init")
  /\ alloc' = IF alloc = 0 THEN pbuf ELSE alloc
  /\ mem'   = IF alloc = 0 THEN [x \in Addr |-> Junk] ELSE mem
  /\ UNCHANGED <<sem, pbuf, bufsize, rp, wp, nreaders, nwriters,
                 queues, file, count, ubuf, events, sig>>

OpenNoMemory(p) ==
  /\ alloc = 0
  /\ Return(p, "open_alloc", "closed")
  /\ Up
  /\ file' = [file EXCEPT ![p] = NoFile]
  /\ UNCHANGED <<pbuf, alloc, mem, bufsize, rp, wp, nreaders, nwriters, queues>>

(* Every open restarts the buffer, whoever else uses it; nobody is woken. *)
OpenInit(p) ==
  /\ Return(p, "open_init", "idle")
  /\ bufsize'  = pbuf
  /\ rp'       = 0
  /\ wp'       = 0
  /\ nreaders' = IF "r" \in file[p].access THEN nreaders + 1 ELSE nreaders
  /\ nwriters' = IF "w" \in file[p].access THEN nwriters + 1 ELSE nwriters
  /\ Up
  /\ missed'   = outq
  /\ UNCHANGED <<pbuf, alloc, mem, inq, outq, asyncq, file>>

(* Broken: the file stays on the notification list. *)
ReleaseCallKeepAsync(p) ==
  /\ Goto(p, "idle", "rel_down")
  /\ UNCHANGED <<shared, queues, file, count, ubuf, events, sig>>

(* release starts by leaving the asynchronous-notification list. *)
ReleaseCall(p) ==
  /\ Goto(p, "idle", "rel_down")
  /\ asyncq' = asyncq \ {p}
  /\ UNCHANGED <<shared, inq, outq, missed, file, count, ubuf, events, sig>>

ReleaseDown(p) ==
  /\ Down(p, "rel_down", "rel_body")
  /\ UNCHANGED <<pbuf, alloc, mem, bufsize, rp, wp, nreaders, nwriters,
                 queues, file, count, ubuf, events, sig>>

(* Broken: the last reader frees the buffer, writers or not. *)
ReleaseBodyReaders(p) ==
  /\ Return(p, "rel_body", "closed")
  /\ nreaders' = IF "r" \in file[p].access THEN nreaders - 1 ELSE nreaders
  /\ nwriters' = IF "w" \in file[p].access THEN nwriters - 1 ELSE nwriters
  /\ IF nreaders' = 0
       THEN alloc' = 0 /\ mem' = [x \in Addr |-> Junk]
       ELSE UNCHANGED <<alloc, mem>>
  /\ Up
  /\ file'     = [file EXCEPT ![p] = NoFile]
  /\ UNCHANGED <<pbuf, bufsize, rp, wp, queues>>

ReleaseBody(p) ==
  /\ Return(p, "rel_body", "closed")
  /\ nreaders' = IF "r" \in file[p].access THEN nreaders - 1 ELSE nreaders
  /\ nwriters' = IF "w" \in file[p].access THEN nwriters - 1 ELSE nwriters
  /\ IF nreaders' + nwriters' = 0
       THEN alloc' = 0 /\ mem' = [x \in Addr |-> Junk]
       ELSE UNCHANGED <<alloc, mem>>
  /\ Up
  /\ file'     = [file EXCEPT ![p] = NoFile]
  /\ UNCHANGED <<pbuf, bufsize, rp, wp, queues>>

----------------------------------------------------------------------------
\* read

ReadCall(p, n) ==
  /\ "r" \in file[p].access
  /\ Goto(p, "idle", "read_down")
  /\ count' = [count EXCEPT ![p] = n]
  /\ UNCHANGED <<shared, queues, file, ubuf, events, sig>>

ReadDown(p) ==
  /\ Down(p, "read_down", "read_test")
  /\ UNCHANGED <<pbuf, alloc, mem, bufsize, rp, wp, nreaders, nwriters,
                 queues, file, count, ubuf, events, sig>>

ReadInterrupted(p) ==
  /\ Interrupted(p, "read_down", "idle")
  /\ UNCHANGED file

ReadHasData(p) ==
  /\ rp # wp
  /\ Goto(p, "read_test", "read_copy")
  /\ UNCHANGED <<shared, queues, file, count, ubuf, events, sig>>

(* Nothing to read: -EAGAIN, or drop the semaphore and go to sleep. *)
ReadAgain(p) ==
  /\ rp = wp
  /\ file[p].nonblock
  /\ Return(p, "read_test", "idle")
  /\ Up
  /\ UNCHANGED <<pbuf, alloc, mem, bufsize, rp, wp, nreaders, nwriters,
                 queues, file>>

ReadEmpty(p) ==
  /\ rp = wp
  /\ ~file[p].nonblock
  /\ Goto(p, "read_test", "read_prep")
  /\ Up
  /\ UNCHANGED <<pbuf, alloc, mem, bufsize, rp, wp, nreaders, nwriters,
                 queues, file, count, ubuf, events, sig>>

(* wait_event_interruptible(dev->inq, dev->rp != dev->wp): queue, look at the
   condition, leave or sleep; after a wakeup, queue again. *)
ReadPrepare(p) ==
  /\ Goto(p, "read_prep", "read_cond")
  /\ inq' = inq \cup {p}
  /\ UNCHANGED <<shared, outq, asyncq, missed, file, count, ubuf, events, sig>>

ReadResume(p) ==
  /\ rp # wp
  /\ Goto(p, "read_cond", "read_down")
  /\ inq' = inq \ {p}
  /\ UNCHANGED <<shared, outq, asyncq, missed, file, count, ubuf, events, sig>>

ReadSignalled(p) ==
  /\ rp = wp
  /\ sig[p]
  /\ Return(p, "read_cond", "idle")
  /\ inq' = inq \ {p}
  /\ UNCHANGED <<shared, outq, asyncq, missed, file>>

(* Broken: the condition is not tested again once queued. *)
ReadSleepUntested(p) ==
  /\ ~sig[p]
  /\ Goto(p, "read_cond", "read_sleep")
  /\ UNCHANGED <<shared, queues, file, count, ubuf, events, sig>>

ReadSleep(p) ==
  /\ rp = wp
  /\ ~sig[p]
  /\ Goto(p, "read_cond", "read_sleep")
  /\ UNCHANGED <<shared, queues, file, count, ubuf, events, sig>>

(* schedule() returns once the process is woken or has a signal. *)
ReadAwake(p) ==
  /\ p \notin inq \/ sig[p]
  /\ Goto(p, "read_sleep", "read_prep")
  /\ UNCHANGED <<shared, queues, file, count, ubuf, events, sig>>

(* copy_to_user() and dev->rp += count: rp may stand at dev->end for a
   moment, where the lockless conditions can see it. *)
ReadCopy(p) ==
  /\ Goto(p, "read_copy", "read_wrap")
  /\ LET n == ReadCount(p)
     IN  /\ ubuf' = [ubuf EXCEPT ![p] = [i \in 1 .. n |-> mem[rp + i - 1]]]
         /\ rp'   = rp + n
  /\ UNCHANGED <<sem, pbuf, alloc, mem, bufsize, wp, nreaders, nwriters,
                 queues, file, count, events, sig>>

ReadFault(p) ==
  /\ ReadCount(p) # 0
  /\ Return(p, "read_copy", "idle")
  /\ Up
  /\ UNCHANGED <<pbuf, alloc, mem, bufsize, rp, wp, nreaders, nwriters,
                 queues, file>>

ReadWrap(p) ==
  /\ Goto(p, "read_wrap", "read_wake")
  /\ rp' = IF rp = bufsize THEN 0 ELSE rp
  /\ Up
  /\ UNCHANGED <<pbuf, alloc, mem, bufsize, wp, nreaders, nwriters,
                 queues, file, count, ubuf, events, sig>>

(* wake_up_interruptible(&dev->outq) *)
ReadWakeWriters(p) ==
  /\ Return(p, "read_wake", "idle")
  /\ outq'   = {}
  /\ missed' = {}
  /\ UNCHANGED <<shared, inq, asyncq, file>>

----------------------------------------------------------------------------
\* write

WriteCall(p, d) ==
  /\ "w" \in file[p].access
  /\ Goto(p, "idle", "write_down")
  /\ count' = [count EXCEPT ![p] = Len(d)]
  /\ ubuf'  = [ubuf EXCEPT ![p] = d]
  /\ UNCHANGED <<shared, queues, file, events, sig>>

WriteDown(p) ==
  /\ Down(p, "write_down", "write_test")
  /\ UNCHANGED <<pbuf, alloc, mem, bufsize, rp, wp, nreaders, nwriters,
                 queues, file, count, ubuf, events, sig>>

WriteInterrupted(p) ==
  /\ Interrupted(p, "write_down", "idle")
  /\ UNCHANGED file

WriteHasSpace(p) ==
  /\ spacefree # 0
  /\ Goto(p, "write_test", "write_copy")
  /\ UNCHANGED <<shared, queues, file, count, ubuf, events, sig>>

(* Broken: -EAGAIN leaves the semaphore held. *)
WriteAgainNoUp(p) ==
  /\ spacefree = 0
  /\ file[p].nonblock
  /\ Return(p, "write_test", "idle")
  /\ UNCHANGED <<shared, queues, file>>

(* scull_getwritespace() on a full buffer: -EAGAIN, or drop the semaphore. *)
WriteAgain(p) ==
  /\ spacefree = 0
  /\ file[p].nonblock
  /\ Return(p, "write_test", "idle")
  /\ Up
  /\ UNCHANGED <<pbuf, alloc, mem, bufsize, rp, wp, nreaders, nwriters,
                 queues, file>>

WriteFull(p) ==
  /\ spacefree = 0
  /\ ~file[p].nonblock
  /\ Goto(p, "write_test", "write_prep")
  /\ Up
  /\ UNCHANGED <<pbuf, alloc, mem, bufsize, rp, wp, nreaders, nwriters,
                 queues, file, count, ubuf, events, sig>>

(* prepare_to_wait(); the lockless test; schedule(); finish_wait(). *)
WritePrepare(p) ==
  /\ Goto(p, "write_prep", "write_cond")
  /\ outq' = outq \cup {p}
  /\ UNCHANGED <<shared, inq, asyncq, missed, file, count, ubuf, events, sig>>

(* Broken: schedule() without looking at the buffer again. *)
WriteConditionUntested(p) ==
  /\ Goto(p, "write_cond", "write_sleep")
  /\ UNCHANGED <<shared, queues, file, count, ubuf, events, sig>>

WriteCondition(p) ==
  /\ Goto(p, "write_cond", IF spacefree = 0 THEN "write_sleep" ELSE "write_fin")
  /\ UNCHANGED <<shared, queues, file, count, ubuf, events, sig>>

WriteAwake(p) ==
  /\ p \notin outq \/ sig[p]
  /\ Goto(p, "write_sleep", "write_fin")
  /\ UNCHANGED <<shared, queues, file, count, ubuf, events, sig>>

WriteFinishWait(p) ==
  /\ ~sig[p]
  /\ Goto(p, "write_fin", "write_down")
  /\ outq'   = outq \ {p}
  /\ missed' = missed \ {p}
  /\ UNCHANGED <<shared, inq, asyncq, file, count, ubuf, events, sig>>

WriteSignalled(p) ==
  /\ sig[p]
  /\ Return(p, "write_fin", "idle")
  /\ outq'   = outq \ {p}
  /\ missed' = missed \ {p}
  /\ UNCHANGED <<shared, inq, asyncq, file>>

WriteCopy(p) ==
  /\ Goto(p, "write_copy", "write_wrap")
  /\ LET n == WriteCount(p)
     IN  /\ mem' = [x \in Addr |-> IF x \in wp .. (wp + n - 1)
                                     THEN ubuf[p][x - wp + 1]
                                     ELSE mem[x]]
         /\ wp'  = wp + n
  /\ UNCHANGED <<sem, pbuf, alloc, bufsize, rp, nreaders, nwriters,
                 queues, file, count, ubuf, events, sig>>

WriteFault(p) ==
  /\ WriteCount(p) # 0
  /\ Return(p, "write_copy", "idle")
  /\ Up
  /\ UNCHANGED <<pbuf, alloc, mem, bufsize, rp, wp, nreaders, nwriters,
                 queues, file>>

WriteWrap(p) ==
  /\ Goto(p, "write_wrap", "write_wake")
  /\ wp' = IF wp = bufsize THEN 0 ELSE wp
  /\ Up
  /\ UNCHANGED <<pbuf, alloc, mem, bufsize, rp, nreaders, nwriters,
                 queues, file, count, ubuf, events, sig>>

(* wake_up_interruptible(&dev->inq) *)
WriteWakeReaders(p) ==
  /\ Goto(p, "write_wake", "write_sigio")
  /\ inq' = {}
  /\ UNCHANGED <<shared, outq, asyncq, missed, file, count, ubuf, events, sig>>

(* kill_fasync(): SIGIO to the asynchronous readers that are in a call; the
   others, and the writer itself on its way out, take it in user space. *)
WriteSignalAsync(p) ==
  /\ Goto(p, "write_sigio", "idle")
  /\ sig'   = [q \in Procs |-> IF q = p THEN FALSE
                                 ELSE sig[q] \/ (q \in asyncq /\ pc[q] # "idle")]
  /\ count' = [count EXCEPT ![p] = 0]
  /\ ubuf'  = [ubuf EXCEPT ![p] = <<>>]
  /\ UNCHANGED <<shared, queues, file, events>>

----------------------------------------------------------------------------
\* poll, fasync, ioctl and signals

PollCall(p, e) ==
  /\ Goto(p, "idle", "poll_down")
  /\ events' = [events EXCEPT ![p] = e]
  /\ UNCHANGED <<shared, queues, file, count, ubuf, sig>>

PollDown(p) ==
  /\ Down(p, "poll_down", "poll_body")
  /\ UNCHANGED <<pbuf, alloc, mem, bufsize, rp, wp, nreaders, nwriters,
                 queues, file, count, ubuf, events, sig>>

(* scull_p_poll() queues the caller on both queues and reports; the caller
   sleeps when nothing it asked for is reported. *)
PollReady(p) ==
  /\ Mask \cap events[p] # {}
  /\ Return(p, "poll_body", "idle")
  /\ Up
  /\ UNCHANGED <<pbuf, alloc, mem, bufsize, rp, wp, nreaders, nwriters,
                 queues, file>>

PollSleep(p) ==
  /\ Mask \cap events[p] = {}
  /\ Goto(p, "poll_body", "poll_sleep")
  /\ Up
  /\ inq'  = inq \cup {p}
  /\ outq' = outq \cup {p}
  /\ UNCHANGED <<pbuf, alloc, mem, bufsize, rp, wp, nreaders, nwriters,
                 asyncq, missed, file, count, ubuf, events, sig>>

(* Woken through either queue: ask the driver again. *)
PollAwake(p) ==
  /\ p \notin inq \/ p \notin outq
  /\ ~sig[p]
  /\ Goto(p, "poll_sleep", "poll_down")
  /\ inq'    = inq \ {p}
  /\ outq'   = outq \ {p}
  /\ missed' = missed \ {p}
  /\ UNCHANGED <<shared, asyncq, file, count, ubuf, events, sig>>

PollSignalled(p) ==
  /\ sig[p]
  /\ Return(p, "poll_sleep", "idle")
  /\ inq'    = inq \ {p}
  /\ outq'   = outq \ {p}
  /\ missed' = missed \ {p}
  /\ UNCHANGED <<shared, asyncq, file>>

(* fcntl(F_SETFL) with and without FASYNC. *)
Fasync(p) ==
  /\ p \in AsyncProcs
  /\ pc[p] = "idle"
  /\ asyncq' = IF p \in asyncq THEN asyncq \ {p} ELSE asyncq \cup {p}
  /\ UNCHANGED <<shared, inq, outq, missed, locals>>

(* SCULL_P_IOCTSIZE, from an open file of any scull device. *)
ResizeIoctl(n) ==
  /\ ResizeInUse \/ \A p \in Procs : pc[p] = "closed"
  /\ pbuf' = n
  /\ UNCHANGED <<sem, alloc, mem, bufsize, rp, wp, nreaders, nwriters,
                 queues, locals>>

Signal(p) ==
  /\ p \in Signalled
  /\ pc[p] \notin {"idle", "closed"}
  /\ sig' = [sig EXCEPT ![p] = TRUE]
  /\ UNCHANGED <<shared, queues, pc, file, count, ubuf, events>>

----------------------------------------------------------------------------

Init ==
  /\ sem = NoProc
  /\ pbuf \in BufSizes
  /\ alloc = 0
  /\ mem = [x \in Addr |-> Junk]
  /\ bufsize = 0 /\ rp = 0 /\ wp = 0
  /\ nreaders = 0 /\ nwriters = 0
  /\ inq = {} /\ outq = {} /\ asyncq = {} /\ missed = {}
  /\ pc     = [p \in Procs |-> "closed"]
  /\ file   = [p \in Procs |-> NoFile]
  /\ count  = [p \in Procs |-> 0]
  /\ ubuf   = [p \in Procs |-> <<>>]
  /\ events = [p \in Procs |-> {}]
  /\ sig    = [p \in Procs |-> FALSE]

(* What a program decides to do next. *)
Call(p) ==
  \/ \E m \in Modes[p] : OpenCall(p, m)
  \/ ReleaseCall(p)
  \/ \E n \in Counts : ReadCall(p, n)
  \/ \E d \in Payloads : WriteCall(p, d)
  \/ \E e \in Polls : PollCall(p, e)
  \/ Fasync(p)

(* What the driver does once it has been called. *)
OpenStep(p) ==
  OpenDown(p) \/ OpenInterrupted(p) \/ OpenAlloc(p) \/ OpenNoMemory(p) \/ OpenInit(p)

ReleaseStep(p) == ReleaseDown(p) \/ ReleaseBody(p)

ReadStep(p) ==
  \/ ReadDown(p) \/ ReadInterrupted(p) \/ ReadHasData(p) \/ ReadAgain(p)
  \/ ReadEmpty(p) \/ ReadPrepare(p) \/ ReadResume(p) \/ ReadSignalled(p)
  \/ ReadSleep(p) \/ ReadAwake(p)
  \/ ReadCopy(p) \/ ReadFault(p) \/ ReadWrap(p) \/ ReadWakeWriters(p)

WriteStep(p) ==
  \/ WriteDown(p) \/ WriteInterrupted(p) \/ WriteHasSpace(p) \/ WriteAgain(p)
  \/ WriteFull(p) \/ WritePrepare(p) \/ WriteCondition(p) \/ WriteAwake(p)
  \/ WriteFinishWait(p) \/ WriteSignalled(p)
  \/ WriteCopy(p) \/ WriteFault(p) \/ WriteWrap(p)
  \/ WriteWakeReaders(p) \/ WriteSignalAsync(p)

PollStep(p) ==
  PollDown(p) \/ PollReady(p) \/ PollSleep(p) \/ PollAwake(p) \/ PollSignalled(p)

Step(p) ==
  OpenStep(p) \/ ReleaseStep(p) \/ ReadStep(p) \/ WriteStep(p) \/ PollStep(p)

Next ==
  \/ \E p \in Procs : Call(p) \/ Step(p) \/ Signal(p)
  \/ \E n \in BufSizes : ResizeIoctl(n)

Spec == Init /\ [][Next]_vars

(* The scheduler runs every process that can run; nothing says which of the
   processes waiting for the semaphore gets it. *)
FairSpec == Spec /\ \A p \in Procs : WF_vars(Step(p))

----------------------------------------------------------------------------
\* Properties

(* Every variable holds a value of its kind; in particular no copy takes rp or
   wp beyond the largest buffer (pipe.c:146, pipe.c:213). *)
TypeOK ==
  /\ sem \in Procs \cup {NoProc}
  /\ pbuf \in BufSizes
  /\ alloc \in {0} \cup BufSizes
  /\ mem \in [Addr -> Byte \cup {Junk}]
  /\ bufsize \in {0} \cup BufSizes
  /\ rp \in 0 .. MaxSize /\ wp \in 0 .. MaxSize
  /\ nreaders \in Int /\ nwriters \in Int
  /\ inq \subseteq Procs /\ outq \subseteq Procs /\ asyncq \subseteq Procs
  /\ missed \subseteq outq
  /\ pc \in [Procs -> Critical \cup Outside]
  /\ file \in [Procs -> [access : SUBSET {"r", "w"}, nonblock : BOOLEAN]]
  /\ count \in [Procs -> Nat]
  /\ ubuf \in [Procs -> Seq(Byte \cup {Junk})]
  /\ events \in [Procs -> Polls \cup {{}}]
  /\ sig \in [Procs -> BOOLEAN]

(* Exactly the processes between a down() and its up() hold dev->sem: no
   return path leaves it held, none releases it twice.  (scull_getwritespace:
   "caller must hold device semaphore".) *)
SemaphoreDiscipline == \A p \in Procs : (pc[p] \in Critical) <=> (sem = p)

Users ==
  {p \in Procs :
     pc[p] \notin {"closed", "open_down", "open_alloc", "open_init"}}

(* The calls of write() that have not copied yet. *)
Offering == {"write_down", "write_test", "write_prep", "write_cond",
             "write_sleep", "write_fin", "write_copy"}

(* rp and wp stay inside the buffer; one of them stands at dev->end only
   between a copy and its wrap, under the semaphore; a copy finds the data or
   the space that made its process leave the wait loop. *)
PointersOK ==
  /\ rp <= bufsize /\ wp <= bufsize
  /\ rp = bufsize /\ bufsize # 0 => \E p \in Procs : pc[p] = "read_wrap"
  /\ wp = bufsize /\ bufsize # 0 => \E p \in Procs : pc[p] = "write_wrap"
  /\ \A p \in Procs :
       /\ p \in Users => bufsize # 0
       /\ pc[p] = "read_copy" => rp # wp
       /\ pc[p] = "write_copy" => spacefree # 0
       /\ pc[p] \in Offering => count[p] = Len(ubuf[p])

(* The open files that can read, or write. *)
Files(e) == {p \in Users : e \in file[p].access}

(* nreaders and nwriters count the open files, and as long as there is one the
   buffer that rp, wp and end point into is the one that was allocated (of the
   same size, unless SCULL_P_IOCTSIZE came in between). *)
BufferKept ==
  /\ nreaders = Cardinality(Files("r"))
  /\ nwriters = Cardinality(Files("w"))
  /\ Users # {} => alloc # 0
  /\ Users # {} /\ ~ResizeInUse => alloc = bufsize

(* rp and wp as they will be once a copy in progress has wrapped them. *)
Wrapped(a) == IF a = bufsize THEN 0 ELSE a
NotEmpty   == Wrapped(rp) # Wrapped(wp)
NotFull    == Wrapped(Wrapped(wp) + 1) # Wrapped(rp)

SleepsFor(p, e) ==
  \/ pc[p] = (IF e = "in" THEN "read_sleep" ELSE "write_sleep")
  \/ pc[p] = "poll_sleep" /\ e \in events[p]

(* The reader's lockless test loses no wakeup: a reader (or poller) asleep on
   dev->inq while there is data is about to be woken by the writer that put
   the data there. *)
NoLostReadWakeup ==
  \A p \in inq : SleepsFor(p, "in") /\ NotEmpty
                   => \E q \in Procs : pc[q] \in {"write_wrap", "write_wake"}

(* The same for a writer asleep on dev->outq while there is room, except for
   one that was queued there when an open() emptied the buffer. *)
NoLostWriteWakeup ==
  \A p \in outq \ missed : SleepsFor(p, "out") /\ NotFull
                   => \E q \in Procs : pc[q] \in {"read_wrap", "read_wake"}

(* Only an open file that nobody has started to release is notified. *)
AsyncOnlyOpen ==
  \A p \in asyncq : p \in Users /\ pc[p] \notin {"rel_down", "rel_body"}

(* The bytes between the read and the write pointer, in reading order. *)
Bytes(from, to) == [i \in 1 .. (to - from) |-> mem[from + i - 1]]
Contents ==
  IF wp >= rp THEN Bytes(rp, wp) ELSE Bytes(rp, bufsize) \o Bytes(0, wp)

Abstract == INSTANCE Pipe WITH
  stream <- IF Users = {} THEN <<>> ELSE Contents,
  cap    <- IF Users = {} THEN 0 ELSE bufsize - 1,
  users  <- Users,
  given  <- [p \in Procs |-> IF pc[p] \in Offering THEN ubuf[p] ELSE <<>>],
  got    <- [p \in Procs |->
               IF pc[p] \in {"read_wrap", "read_wake"} THEN ubuf[p] ELSE <<>>]

(* The circular buffer, its two lockless wait loops and its early returns
   implement the byte stream of module Pipe. *)
ImplementsPipe == Abstract!Spec

(* A process blocked in read() or in poll() for input does not sleep for ever
   beside data: it leaves the queue or somebody else takes the data. *)
ReadersWake ==
  \A p \in Procs : (p \in inq /\ SleepsFor(p, "in") /\ NotEmpty)
                     ~> (p \notin inq \/ ~NotEmpty)
=============================================================================
