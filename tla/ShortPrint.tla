----------------------------- MODULE ShortPrint -----------------------------
(***************************************************************************)
(* The printer driver of shortprint/shortprint.c.  Writers fill a circular *)
(* buffer under a semaphore; a work queue takes one byte at a time out of  *)
(* it under a spin lock that the writers' side of the buffer does not use. *)
(* What queues the work is the printer's interrupt, which may get lost, or *)
(* a timer that stands in for it.  What holds the spin lock is one action. *)
(*                                                                         *)
(* The kernel's timers, wait queues and work queue are external, and so is *)
(* the printer: it is busy with a byte, acknowledges it, and is ready, and *)
(* its status shows the three as shortp_timeout() and shortp_wait() read   *)
(* them.  Time is left out: a pending timer may expire at any moment.      *)
(***************************************************************************)
EXTENDS Integers, FiniteSets

CONSTANTS
  Writers, Readers,   \* processes that write() and close(), and that read()
  PageSize,           \* bytes in the output buffer
  InSize,             \* 16-byte records in the input buffer
  Counts,             \* byte counts of write()
  Signalled,          \* processes that signals may interrupt
  None                \* no process

(* A write() of no bytes copies none and starts nothing; the loop is not entered. *)
ASSUME PrintAssumption ==
  /\ PageSize \in Nat \ {0} /\ InSize \in Nat \ {0}
  /\ Counts \subseteq Nat \ {0}
  /\ Writers \cap Readers = {} /\ None \notin Writers

VARIABLES
  out_buffer, out_head, out_tail, out_sem, output_active,
  timer,              \* the missed-interrupt timer is pending
  work,               \* shortp_work is queued
  worker,             \* where the work queue's thread is in shortp_do_work()
  printer, data,      \* external: the printer's state and the last byte strobed
  isr, tmr,           \* where shortp_interrupt() and shortp_timeout() are
  in_head, in_tail,
  pc, space, left,    \* of each process: its place, shortp_write()'s space, count - written
  outq,               \* the writers that the next wakeup of shortp_out_queue wakes
  waiting,            \* the writers inside its wait_event_interruptible()
  accepted            \* history: the number of the last byte put in the buffer

device == <<timer, work, worker, printer, data, isr, tmr>>
buffer == <<out_buffer, out_head, out_tail, out_sem, output_active, accepted>>
procs  == <<pc, space, left, outq, waiting>>
input  == <<in_head, in_tail>>
printVars == <<device, buffer, procs, input>>

(* Bytes are told apart by their number in the order of write(), modulo twice
   the buffer. *)
Byte == 0 .. 2 * PageSize - 1
Nth(n) == n % (2 * PageSize)

Go(p, l) == pc' = [pc EXCEPT ![p] = l]

Init ==
  /\ out_buffer = [i \in 0 .. PageSize - 1 |-> 0]
  /\ out_head = 0 /\ out_tail = 0 /\ out_sem = None /\ output_active = FALSE
  /\ timer = FALSE /\ work = FALSE /\ worker = "idle"
  /\ printer = "ready" /\ data = 0 /\ isr = "idle" /\ tmr = "idle"
  /\ in_head = 0 /\ in_tail = 0
  /\ pc = [p \in Writers \cup Readers |-> "idle"]
  /\ space = [p \in Writers \cup Readers |-> 0]
  /\ left = [w \in Writers |-> 0]
  /\ outq = {} /\ waiting = {}
  /\ accepted = 0

-----------------------------------------------------------------------------
\* shortp_write()

Write(w, n) ==
  /\ pc[w] = "idle"
  /\ Go(w, "down")
  /\ left' = [left EXCEPT ![w] = n]
  /\ UNCHANGED <<device, buffer, input, space, outq, waiting>>

Down(w) ==
  /\ pc[w] = "down"
  /\ out_sem = None
  /\ out_sem' = w
  /\ Go(w, "test")
  /\ UNCHANGED <<device, input, out_buffer, out_head, out_tail, output_active,
                 accepted, space, left, outq, waiting>>

DownInterrupted(w) ==
  /\ pc[w] = "down"
  /\ w \in Signalled
  /\ Go(w, "idle")
  /\ left' = [left EXCEPT ![w] = 0]
  /\ UNCHANGED <<device, buffer, input, space, outq, waiting>>

(* shortp_out_space() reads the volatile tail twice; the worker may move it in
   between. *)
SpaceTest(w) ==
  /\ pc[w] = "test"
  /\ Go(w, IF out_head >= out_tail THEN "above" ELSE "below")
  /\ UNCHANGED <<device, buffer, input, space, left, outq, waiting>>

(* Broken: the byte that tells a full buffer from an empty one is given away. *)
OutSpaceFull(w) ==
  IF pc[w] = "above" THEN PageSize - out_head ELSE out_tail - out_head - 1

OutSpace(w) ==
  CASE pc[w] = "below"                 -> out_tail - out_head - 1
    [] pc[w] = "above" /\ out_tail = 0 -> PageSize - out_head - 1
    [] OTHER                           -> PageSize - out_head

HasSpace(w) ==
  /\ pc[w] \in {"above", "below"}
  /\ OutSpace(w) > 0
  /\ space' = [space EXCEPT ![w] = IF OutSpace(w) > left[w] THEN left[w] ELSE OutSpace(w)]
  /\ Go(w, "copy")
  /\ outq' = outq \ {w}
  /\ waiting' = waiting \ {w}
  /\ UNCHANGED <<device, buffer, input, left>>

(* The first time the writer enters the wait queue and looks again. *)
NoSpace(w) ==
  /\ pc[w] \in {"above", "below"}
  /\ OutSpace(w) <= 0
  /\ IF w \in waiting
     THEN Go(w, "asleep") /\ UNCHANGED <<outq, waiting>>
     ELSE Go(w, "test") /\ outq' = outq \cup {w} /\ waiting' = waiting \cup {w}
  /\ UNCHANGED <<device, buffer, input, space, left>>

Resume(w) ==
  /\ pc[w] = "asleep"
  /\ w \notin outq
  /\ outq' = outq \cup {w}
  /\ Go(w, "test")
  /\ UNCHANGED <<device, buffer, input, space, left, waiting>>

(* A signal wakes the writer too, ... *)
Interrupted(w) ==
  /\ pc[w] = "asleep"
  /\ w \in Signalled
  /\ outq' = outq \cup {w}
  /\ Go(w, "test")
  /\ UNCHANGED <<device, buffer, input, space, left, waiting>>

(* ... which gives up if there is still no room; if another thread of the process
   has taken the signal, it sleeps again. *)
WaitInterrupted(w) ==
  /\ pc[w] \in {"above", "below"}
  /\ OutSpace(w) <= 0
  /\ w \in waiting \cap Signalled
  /\ outq' = outq \ {w}
  /\ waiting' = waiting \ {w}
  /\ Go(w, "out")
  /\ left' = [left EXCEPT ![w] = 0]
  /\ UNCHANGED <<device, buffer, input, space>>

Copy(w) ==
  /\ pc[w] = "copy"
  /\ out_buffer' = [i \in DOMAIN out_buffer |->
                      IF i \in out_head .. out_head + space[w] - 1
                      THEN Nth(accepted + 1 + i - out_head) ELSE out_buffer[i]]
  /\ Go(w, "advance")
  /\ UNCHANGED <<device, input, out_head, out_tail, out_sem, output_active,
                 accepted, space, left, outq, waiting>>

(* copy_from_user() fails before it has changed the buffer. *)
CopyFault(w) ==
  /\ pc[w] = "copy"
  /\ out_sem' = None
  /\ Go(w, "idle")
  /\ space' = [space EXCEPT ![w] = 0]
  /\ left' = [left EXCEPT ![w] = 0]
  /\ UNCHANGED <<device, input, out_buffer, out_head, out_tail, output_active,
                 accepted, outq, waiting>>

(* shortp_incr_out_bp() *)
Advance(w) ==
  /\ pc[w] = "advance"
  /\ out_head' = (out_head + space[w]) % PageSize
  /\ accepted' = Nth(accepted + space[w])
  /\ left' = [left EXCEPT ![w] = @ - space[w]]
  /\ space' = [space EXCEPT ![w] = 0]
  /\ Go(w, "kick")
  /\ UNCHANGED <<device, input, out_buffer, out_tail, out_sem, output_active,
                 outq, waiting>>

(* Broken: the work is left to the interrupt. *)
StartOutputLazy ==
  IF output_active
  THEN UNCHANGED <<output_active, timer, work>>
  ELSE output_active' = TRUE /\ UNCHANGED <<timer, work>>

(* shortp_start_output() under the lock *)
StartOutput ==
  IF output_active
  THEN UNCHANGED <<output_active, timer, work>>
  ELSE output_active' = TRUE /\ timer' = TRUE /\ work' = TRUE

Kick(w) ==
  /\ pc[w] = "kick"
  /\ StartOutput
  /\ Go(w, IF left[w] = 0 THEN "out" ELSE "test")
  /\ UNCHANGED <<worker, printer, data, isr, tmr, input, out_buffer, out_head,
                 out_tail, out_sem, accepted, space, left, outq, waiting>>

Out(w) ==
  /\ pc[w] = "out"
  /\ out_sem' = None
  /\ Go(w, "idle")
  /\ UNCHANGED <<device, input, out_buffer, out_head, out_tail, output_active,
                 accepted, space, left, outq, waiting>>

-----------------------------------------------------------------------------
\* shortp_release()

Close(w) ==
  /\ pc[w] = "idle"
  /\ Go(w, "closing")
  /\ UNCHANGED <<device, buffer, input, space, left, outq, waiting>>

Drained(w) ==
  /\ pc[w] = "closing"
  /\ Go(w, IF output_active THEN "draining" ELSE "idle")
  /\ UNCHANGED <<device, buffer, input, space, left, outq, waiting>>

CloseInterrupted(w) ==
  /\ pc[w] = "draining"
  /\ w \in Signalled
  /\ Go(w, "idle")
  /\ UNCHANGED <<device, buffer, input, space, left, outq, waiting>>

-----------------------------------------------------------------------------
\* The output side

WorkBegin ==
  /\ worker = "idle"
  /\ work
  /\ work' = FALSE
  /\ worker' = "wait"
  /\ UNCHANGED <<timer, printer, data, isr, tmr, buffer, procs, input>>

(* The printer's state does not go back to busy by itself, so the end of
   shortp_wait() and the section under the lock are one step. *)
WorkEmpty ==
  /\ worker = "wait"
  /\ printer # "busy"
  /\ out_head = out_tail
  /\ output_active' = FALSE
  /\ timer' = FALSE
  /\ pc' = [p \in DOMAIN pc |-> IF pc[p] = "draining" THEN "closing" ELSE pc[p]]
  /\ worker' = "record"
  /\ UNCHANGED <<work, printer, data, isr, tmr, out_buffer, out_head, out_tail,
                 out_sem, accepted, space, left, outq, waiting, input>>

(* More than SP_MIN_SPACE bytes are free; of an empty buffer this says none. *)
Enough(tail) == (PageSize + tail - out_head) % PageSize > PageSize \div 2

(* shortp_do_write() *)
WorkByte ==
  /\ worker = "wait"
  /\ printer # "busy"
  /\ out_head # out_tail
  /\ timer' = TRUE
  /\ data' = out_buffer[out_tail]
  /\ printer' = "busy"
  /\ out_tail' = (out_tail + 1) % PageSize
  /\ outq' = IF Enough(out_tail') THEN {} ELSE outq
  /\ worker' = "record"
  /\ UNCHANGED <<work, isr, tmr, out_buffer, out_head, out_sem, output_active,
                 accepted, pc, space, left, waiting, input>>

(* Broken: only the writing side wraps. *)
IncrInOpen(i, n) == i + n

(* shortp_incr_bp() *)
IncrIn(i, n) == IF i + n >= InSize THEN 0 ELSE i + n

(* The record of the last interrupt's time, for read(). *)
Record ==
  /\ worker = "record"
  /\ in_head' = IncrIn(in_head, 1)
  /\ pc' = [p \in DOMAIN pc |-> IF pc[p] = "unread" THEN "look" ELSE pc[p]]
  /\ worker' = "idle"
  /\ UNCHANGED <<timer, work, printer, data, isr, tmr, buffer, space, left,
                 outq, waiting, in_tail>>

(* The printer is done with a byte; its interrupt may get lost. *)
Acknowledge ==
  /\ printer = "busy"
  /\ printer' = "ack"
  /\ \/ UNCHANGED isr
     \/ isr = "idle" /\ isr' = "test"
  /\ UNCHANGED <<timer, work, worker, data, tmr, buffer, procs, input>>

Ready ==
  /\ printer = "ack"
  /\ printer' = "ready"
  /\ UNCHANGED <<timer, work, worker, data, isr, tmr, buffer, procs, input>>

(* shortp_interrupt(), whose test is outside the lock *)
Interrupt ==
  /\ isr = "test"
  /\ isr' = IF output_active THEN "queue" ELSE "idle"
  /\ UNCHANGED <<timer, work, worker, printer, data, tmr, buffer, procs, input>>

InterruptQueue ==
  /\ isr = "queue"
  /\ isr' = "idle"
  /\ work' = TRUE
  /\ UNCHANGED <<timer, worker, printer, data, tmr, buffer, procs, input>>

(* shortp_timeout(), whose first test is outside the lock *)
Timeout ==
  /\ timer /\ tmr = "idle"
  /\ timer' = FALSE
  /\ tmr' = IF output_active THEN "lock" ELSE "idle"
  /\ UNCHANGED <<work, worker, printer, data, isr, buffer, procs, input>>

(* Broken: a timer that finds the printer busy is not set again. *)
TimeoutBusyForgets ==
  /\ tmr = "lock"
  /\ printer \in {"busy", "ack"}
  /\ tmr' = "idle"
  /\ UNCHANGED <<timer, work, worker, printer, data, isr, buffer, procs, input>>

TimeoutBusy ==
  /\ tmr = "lock"
  /\ printer \in {"busy", "ack"}
  /\ timer' = TRUE
  /\ tmr' = "idle"
  /\ UNCHANGED <<work, worker, printer, data, isr, buffer, procs, input>>

(* It calls shortp_interrupt() once it has dropped the lock; output cannot have
   become active in between without its own call of queue_work(). *)
TimeoutMissed ==
  /\ tmr = "lock"
  /\ printer = "ready"
  /\ tmr' = IF output_active THEN "queue" ELSE "idle"
  /\ UNCHANGED <<timer, work, worker, printer, data, isr, buffer, procs, input>>

TimeoutQueue ==
  /\ tmr = "queue"
  /\ tmr' = "idle"
  /\ work' = TRUE
  /\ UNCHANGED <<timer, worker, printer, data, isr, buffer, procs, input>>

-----------------------------------------------------------------------------
\* shortp_read(): of whole records

Read(r) ==
  /\ pc[r] \in {"idle", "look"}
  /\ \/ in_head = in_tail /\ Go(r, "unread") /\ UNCHANGED space
     \/ /\ in_head # in_tail
        /\ \E n \in 1 .. (IF in_head > in_tail THEN in_head ELSE InSize) - in_tail :
             space' = [space EXCEPT ![r] = n]
        /\ Go(r, "take")
  /\ UNCHANGED <<device, buffer, input, left, outq, waiting>>

ReadInterrupted(r) ==
  /\ pc[r] \in {"unread", "look"}
  /\ r \in Signalled
  /\ Go(r, "idle")
  /\ UNCHANGED <<device, buffer, input, space, left, outq, waiting>>

ReadTake(r) ==
  /\ pc[r] = "take"
  /\ in_tail' = IncrIn(in_tail, space[r])
  /\ space' = [space EXCEPT ![r] = 0]
  /\ Go(r, "idle")
  /\ UNCHANGED <<device, buffer, in_head, left, outq, waiting>>

ReadFault(r) ==
  /\ pc[r] = "take"
  /\ space' = [space EXCEPT ![r] = 0]
  /\ Go(r, "idle")
  /\ UNCHANGED <<device, buffer, input, left, outq, waiting>>

-----------------------------------------------------------------------------
WriterStep(w) ==
  \/ SpaceTest(w) \/ HasSpace(w) \/ NoSpace(w) \/ Resume(w) \/ Copy(w) \/ CopyFault(w)
  \/ Advance(w) \/ Kick(w) \/ Out(w) \/ Drained(w)

Output == WorkBegin \/ WorkEmpty \/ WorkByte \/ Record

TimeoutStep == TimeoutBusy \/ TimeoutMissed \/ TimeoutQueue

Printing ==
  \/ \E w \in Writers :
       \/ \E n \in Counts : Write(w, n)
       \/ Close(w) \/ Down(w) \/ WriterStep(w)
       \/ DownInterrupted(w) \/ Interrupted(w) \/ WaitInterrupted(w)
       \/ CloseInterrupted(w)
  \/ Output
  \/ Acknowledge \/ Ready \/ Interrupt \/ InterruptQueue
  \/ Timeout \/ TimeoutStep

Reading == \E r \in Readers : Read(r) \/ ReadInterrupted(r) \/ ReadTake(r) \/ ReadFault(r)

Next == Printing \/ Reading

Printer == Acknowledge \/ Ready

(* The printer finishes a byte, a pending timer expires, and its handler, the
   work queue's thread and a writer that can run do.  No interrupt is promised. *)
Fairness ==
  /\ WF_printVars(Output) /\ WF_printVars(Printer)
  /\ WF_printVars(Timeout \/ TimeoutStep)
  /\ \A w \in Writers : WF_printVars(WriterStep(w))

Spec == Init /\ [][Next]_printVars /\ Fairness

-----------------------------------------------------------------------------
\* Properties

(* Every variable holds a value of its kind. *)
PrintTypeOK ==
  /\ out_buffer \in [0 .. PageSize - 1 -> Byte]
  /\ {out_head, out_tail} \subseteq 0 .. PageSize - 1
  /\ out_sem \in Writers \cup {None}
  /\ {output_active, timer, work} \subseteq BOOLEAN
  /\ worker \in {"idle", "wait", "record"}
  /\ printer \in {"busy", "ack", "ready"}
  /\ {data, accepted} \subseteq Byte
  /\ isr \in {"idle", "test", "queue"}
  /\ tmr \in {"idle", "lock", "queue"}
  /\ {in_head, in_tail} \subseteq 0 .. InSize - 1
  /\ \A w \in Writers : space[w] \in 0 .. PageSize /\ left[w] \in Nat
  /\ outq \subseteq waiting /\ waiting \subseteq Writers

Used == (out_head - out_tail) % PageSize

(* The buffer holds the bytes that write() took and the printer did not get
   yet, in the order of the writes: none is lost, doubled or overwritten,
   although the worker moves the tail while a writer computes the space. *)
PrintsInOrder ==
  /\ accepted = Nth(data + Used)
  /\ \A i \in 0 .. Used - 1 : out_buffer[(out_tail + i) % PageSize] = Nth(data + 1 + i)

(* While output is active something is bound to look at it: the timer, the
   timer's handler, or the work in the queue or under way ("when output is
   active, the timer is too, in case we miss interrupts", shortprint.c:145). *)
TimerCoversOutput ==
  output_active => timer \/ tmr # "idle" \/ work \/ worker = "wait"

(* The next byte in the buffer is strobed, however many interrupts are lost. *)
OutputProceeds == out_head # out_tail /\ printer # "busy" ~> printer = "busy"

(* "The wait queue will be awakened when space becomes available in the buffer"
   (shortprint.c:98): nobody sleeps on it with the buffer empty, when no byte is
   left to be printed and so no wakeup to come. *)
SleeperIsWoken ==
  \A w \in Writers : pc[w] = "asleep" /\ w \in outq => out_head # out_tail
=============================================================================
