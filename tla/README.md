# LDD-LinuxDeviceDrivers: TLA+ models, checks and proofs

The repository is a collection: device drivers that go with a book, kept in
three ports, kernel sources kept with annotations, and samples and notes. Most
of its 1754 files are documentation, build products or one-page samples. The
code that has state of its own, shared by several processes or threads, is

* the LDD3 example drivers, `src/books/ldd/ldd3-examples-master/` (the other two
  directories under `src/books/ldd/` hold the same drivers ported to other
  kernels), above all **scull** (`scull/main.c`, `scull/pipe.c`,
  `scull/access.c`) and **shortprint**;
* two annotated kernel files under `src/study/kernel/01-process/05-schedule/`:
  `04-stop/stop_machine.c` and `07-cfs/01-cfs/fair.c`;
* a data structure, `src/study/kernel/data_structure/rbtree`.

This directory models scull, shortprint, the cpu stopper, and of `fair.c` the
bandwidth control, the group hierarchy and the timeline with its red-black tree.

## 1. Inventory

| component | state | operations | hard behaviour | correct when | here |
|---|---|---|---|---|---|
| scullpipe, `scull/pipe.c` | circular buffer, `rp`, `wp`, open counts, two wait queues, async list, `sem` | open, release, read, write, poll, fasync, size ioctl | lockless tests while queueing, signals in every wait, `rp`/`wp` at `end` before the wrap, open() resets a buffer in use | bytes arrive once and in order, sleepers are woken, `sem` is released on each path | `ScullPipe`, `Pipe`, `ScullPipeProofs` |
| bare scull, `scull/main.c` | list of quantum sets, size, geometry (`quantum`, `qset`), `sem`, global parameters | open (trims), read, write, lseek, ioctl | geometry noted before the semaphore is taken, allocation and copy failures half way, trim under other readers | a sparse byte array; nothing outside allocated memory | `ScullMem`, `Store`, `ScullMemProofs`, `ScullMemRefines` |
| scull access control, `scull/access.c` | atomic count, owner and count under spinlocks, wait queue, list of clones | four open() and three release() functions | decrement and undo, condition tested without the lock, wakeup after unlock, allocation under a spinlock | one opener, one user, one clone per tty, waiters woken | `ScullAccess`, `ScullAccessProofs` |
| cpu stopper, `stop_machine.c` | per-cpu queue and `enabled`, completion count, `multi_stop_data`, `stop_cpus_lock`, `stop_cpus_mutex` | stop one/two/many cpus, stop_machine, park, unpark, stopper thread | two callers queueing in opposite orders, preemption by the stopper being queued on, hotplug, data on the caller's stack | function runs with every cpu stopped, every caller returns, no use after return | `StopMachine`, `StopMachineProofs` |
| shortprint, `shortprint/shortprint.c` | output page with head and tail, `output_active`, timer, work item, `out_sem`, wait queues, input page | write, close, read, work function, interrupt, timer | interrupts get lost; the buffer's two ends have different locks; a late interrupt beside the timer | bytes are printed once and in order, something always looks at active output, the next byte goes out | `ShortPrint`, `ShortPrintProofs` |
| CFS bandwidth control, `fair.c` 3540-4320 | pool, `idle`, `period_active`, list of throttled cfs_rqs, per-cpu runtime, two timers | charge, assign, throttle, return, refill, distribute, offline, online | the walk runs without the lock of the pool; slack walk across a refill; timer stopping beside a throttle | nobody throttled without a timer, the pool within the quota, throttled groups are served | `CfsBandwidth`, `CfsBandwidthProofs` |
| CFS group hierarchy, `fair.c` | `h_nr_running`, `nr_running`, `throttle_count`, next buddy, list of leaves | enqueue, dequeue, pick, put, wake, requeue, yield, throttle, unthrottle | each call is two loops up the groups, cut short by throttled ones and able to throttle half way | every count is that of the tasks it sees; a group is queued if it can run | `CfsGroups`, `CfsGroupsProofs` |
| CFS timeline, `fair.c` 453-542, and `rbtree.c` | a red-black tree, the cached leftmost | enqueue, dequeue | `vruntime` overflows; erasing a node with two children | a balanced tree; a queue sorted by age of `vruntime`, first come first served | `CfsTimeline`, `RbTree`, `SortedQueue` |
| scullc, scullp, sculld, scullv | as bare scull, other allocators, `vmas` | as scull, mmap, aio | fault against trim | as scull | no (the shared list code is `ScullMem`'s) |
| short | circular buffer filled by an interrupt, bottom halves | read, write | as shortprint's input | as shortprint | no (section 6) |
| snull | packet pool, receive queue, tx state, NAPI | open, tx, interrupt, poll, timeout | interrupt against release, lock-up and timeout | each packet delivered or counted as lost | no (section 6) |
| sbull | sectors, users, media flag, timer | request, open, release, revalidate | timer against reopen | data kept while in use | no (section 6) |
| tiny_tty, tiny_serial | open count, timer | open, close, write, timer | timer against close | no timer after the last close | no (section 6) |
| usb-skeleton | urb, reference count | probe, disconnect, read, write | disconnect against open | no use after free | no (section 6) |
| misc-modules, lddbus, pci_skel, simple, skull, misc-progs | a flag or nothing | | | | no |
| kfifo | none: the file only calls the kernel's kfifo | | | | no |
| the rest of `fair.c` and the other annotated kernel files | loads and averages supplied by other files | | | | no |
| samples under `study/`, code of the other two books | one variable or board hardware; globalfifo is a smaller scullpipe | | | | no |

How the modelled parts interact. All scull devices share `scull_ioctl()`
(`main.c`), so a process can change `scull_p_buffer` through any of them
(`ResizeIoctl` in `ScullPipe`). The devices of `access.c` have their own open()
and release() and take read(), write(), lseek() and ioctl() from `main.c`; they
call `scull_trim()` without the semaphore. So `ScullMem` has a constant
`Locked`: TRUE is the bare device, FALSE is a device of `access.c` that has been
opened, and who may be inside together is what `ScullAccess` decides. shortprint
and the cpu stopper are independent of scull. The three parts of `fair.c` meet at
their edges, and each takes the others' results as a choice: `CfsBandwidth` says
when a cfs_rq is throttled and given runtime, `CfsGroups` takes any set of groups
to be out of runtime at any time and any queued entity to be the leftmost,
`CfsTimeline` says which one is.

## 2. The modules and the code

A *step* is a stretch of code between two points that another process can
observe: a semaphore, spinlock or wait-queue operation, or an access made or seen
without the lock. Where each process stands is `pc`. Data are small: a byte is
one of two model values or `Junk`, pointers are offsets or positions in
sequences. Operators whose comment begins "Broken:" are deliberately wrong
variants of the operator after them; no specification uses them. They serve to
show that a property can fail: with the variant in place of the original, TLC
finds the property violated.

**ScullPipe** (`pipe.c`, and the size ioctl of `main.c:502`). `rp` and `wp` are
offsets from `dev->buffer`. `alloc` is the size of the area behind
`dev->buffer`, `bufsize` is `dev->buffersize` (and `dev->end`). `inq`, `outq` are
the processes on the wait queues that have not been woken yet.
`wait_event_interruptible` is unfolded in queue, test, sleep (`ReadPrepare`,
`ReadResume`/`ReadSignalled`/`ReadSleep`, `ReadAwake`), and
`scull_getwritespace()` in `WritePrepare`, `WriteCondition`, `WriteAwake`,
`WriteFinishWait`/`WriteSignalled`. `rp += count` and the wrap at `dev->end` are two
steps (`ReadCopy`, `ReadWrap`) because the tests of the waiting processes read the
pointers without the semaphore. A faulting copy stores no byte that anyone can
see, so `ReadFault` and `WriteFault` only give up. A signal that arrives in user
space is taken there, so `sig` is set only in a call. `missed` is a history
variable: the writers that were queued when an open() emptied the buffer.

**Pipe** is what a pipe promises: a bounded stream of bytes, a write() that
appends a non-empty prefix of its argument, a read() that takes a non-empty
prefix of the stream, an open() that empties it. `ImplementsPipe` says that
`ScullPipe` implements it, with the stream read off the circular buffer.

**ScullMem** (`main.c`). The list is a sequence of arrays, an array a sequence of
quanta, a quantum a sequence of bytes; `<<>>` is a NULL pointer. `geo` is the
quantum and qset that a call noted before `down_interruptible()`. Finding the
quantum (`ReadFound`, `WriteFind`) and using it (`ReadCopy`, `WriteCopy`) are two
steps, and so are the two halves of `scull_trim()`. `Followed(p)` is every list
`scull_follow()` may leave, cut short when an allocation fails (an item that is
allocated stays). `stale`, `freed` and `wild` keep track of freed memory: `wild`
becomes TRUE when an access leaves what is allocated. `copy_from_user()` may stop
at any byte and clears the rest (`WriteFault`). A write() may be of no bytes: it allocates a
quantum all the same and raises the size to its position. The ioctl sets any numbers:
divisions and comparisons are C's (`Quot`, `Rem`, `UpToQuantum`), a kmalloc() of a negative
size fails, a search for a negative item goes on until an allocation fails, and a division
by zero kills the process where it stands, with the semaphore (`Divide`). `misfit` is a
history variable: it becomes TRUE when a call works by a geometry other than the device's, or
by a negative quantum; what the device promises holds up to that point. Not modelled: the
two /proc dumps, the ioctls that only return a value, and the widths of `int` and
`loff_t`.

**Store** is the abstract device: a sparse byte array with a size. A write takes
effect at its copy; one of no bytes only moves the size. `Spoil` is a write that faulted:
the bytes it covered hold old data, new data or nothing, size and position stay. `asks`
keeps whether a read() asks for anything: if it does, it takes nothing only at the end or
in a hole.

**ScullAccess** (`access.c`). `scullsingle`'s atomic decrement and the increment
that undoes it are two steps. The spinlocks `scull_w_lock` and `scull_c_lock` are
taken and released step by step, because `scull_w_available()` reads the count and
then the owner without the lock, and because `kmalloc()` runs under
`scull_c_lock`; a section under `scull_u_lock` is one step, because nothing looks
at its variables from outside. The data operations of the open devices are
`ScullMem`'s. CAP_DAC_OVERRIDE is the set `Capable`.

**StopMachine** (`stop_machine.c`). A task makes one call at a time and names the
work that it queues; a stopper thread is a state machine of its own. A task
runs only while its cpu's stopper is not executing a work (the stopper is the
highest-priority thread), and a stopper does not start while a task of its
cpu has preemption disabled (`NonPreemptible`: from the `lg_double_lock()` or
`lg_global_lock()` to the unlock; `lglock` is the per-cpu spinlocks of
`stop_cpus_lock`). `AckState`, `Reset` and `SetState` are `ack_state()` and
`set_state()` taken apart at the memory barrier. `nr_todo` counts down in
`Signal`; firing the completion is a later step (`Complete`), for the thread must
not touch the caller's stack after that. Taking a cpu down is modelled from how
the hotplug code uses this file (external): `stop_machine()` with a function that
calls `stop_machine_park()`; it gives up `stop_cpus_mutex` when the completion has fired
(`Unlock`) and then waits for the stopper to have parked (`PutOnlineCpus`). Not modelled: `stop_one_cpu_nowait()`,
`stop_machine_from_inactive_cpu()`, the returned values of the functions and the
boot-time path before the stoppers exist.

**ShortPrint** (`shortprint.c`). A writer goes through `shortp_write()` step by
step: the semaphore, the two reads of the volatile tail in `shortp_out_space()`
(`SpaceTest`, then `HasSpace` or `NoSpace`), the copy, the move of the head, and
`shortp_start_output()` (`Kick`). The work function holds the spin lock from its
look at the buffer to the wakeups (`WorkByte`, `WorkEmpty`) and drops it to record
the time (`Record`). A signal wakes a sleeping writer, which tests the buffer again and
gives up only if there is still no room (`Interrupted`, `WaitInterrupted`). The interrupt handler and the timer's handler test
`output_active` outside the lock and act later. The printer is external: busy with a
byte, acknowledging it, ready; an interrupt may get lost. A byte is its number in
the order of write(), modulo twice the buffer.

**CfsBandwidth** (`fair.c`). Each cpu's group is empty, queued or running; a call
(`Put`, `Leave`, `Enqueue`, ...) charges runtime under `rq->lock`, and what it still
has to do under `cfs_b->lock` is in `pc` (`Assign`, `Throttle`, `Return`). Only those
sections see the pool, so an action is one of them. `distribute_cfs_runtime()` is a
walk (`WalkStart`, `WalkGive`, `WalkNext`) of the period timer or of the slack
timer; it holds the lock of one cfs_rq at a time, and entries come and go under it.
`after` keeps where an entry that has left an RCU list still points to. Of
`runtime_expires` the model keeps whether it equals the group's (`current`) or is later
(`ahead`), as one that a tick has extended may be; `Assign` takes over the group's only
where that is later.

**CfsGroups** (`fair.c`). One cpu under `rq->lock`, so a call is one action on the
record `rq`. A group tree is the function `up`, of any shape and depth
(`GroupsAssumption` says only that it is a tree). The loops of `enqueue_task_fair()`,
`dequeue_task_fair()`, `throttle_cfs_rq()`, `unthrottle_cfs_rq()` and of the picking are
walks along the path to the root: `Walk` goes through it with one operator for the body of the
loop (`RaiseLevel`, `LeaveLevel`, `LowerLevel`, `Check`, `ClearBuddies`) and the
flags of the code (queue further, go on). `X` is the set of groups that are out of
runtime when the call looks. The list of leaves holds the root too; going offline follows it
while `unthrottle_cfs_rq()` adds to it (`OfflineGroups`). `YieldTo` includes the
`clear_buddies()` of the yielding task, unless that runs on another cpu or alone.

**CfsTimeline** and **RbTree** (`fair.c`, `rbtree.c`, `rbtree.h`). A tree is a record
of root, parents, children and the set of red nodes; the mirror-image halves of the
code are one definition with a side as argument, its loops are recursive operators.
`SortedQueue` is the abstract queue, ordered by a comparison (`RanLess`) that does
not go through `entity_before()`.

**MC modules** define the instances that the `.cfg` files choose from. Where one run
checks several instances (`MCFair`, `MCScullMem`, `MCShortPrint`), the variable `part`
is chosen at the start and a behaviour is one part's. `MCFair`'s parts share no
variable at all; `MCScullMem`'s are a device shared by two processes, a device that
one process has alone, and a shared one whose parameters change; `MCShortPrint`'s are the output side with one writer, two
writers, and the input side.

## 3. The runs

| run | instance | what it shows |
|---|---|---|
| `scull_pipe` | a blocking reader, a blocking writer, a third process that opens the pipe as a second reader or both ways with O_NONBLOCK; 3-byte buffer, writes of 2 bytes, reads of 1 and 2 | types, pointers and counts; no reader or writer sleeps beside data or space; the buffer implements `Pipe` |
| `scull_pipe_signals` | a writer and a process that opens the pipe as reader, as writer, or both ways with O_NONBLOCK; poll, SIGIO, signals, buffers of 1 and 2 bytes and a resize in use | every return path releases the semaphore; the async list; blocked readers wake (fairness) |
| `scull_mem` | two processes on a bare device, one emptying it while the other reads and writes; one process on a device whose open() takes no lock, parameters changed at any time; two processes, one emptying the device with new parameters while the other waits with the old ones | until a call works by a wrong geometry: no access outside memory, size never ahead of the data, the list keeps the device's geometry, implements `Store`; a trim runs alone |
| `scull_access` | four processes of three users (one with su) and root, all four devices | exclusion, counts, wakeups, one clone per tty; waiters wake (fairness) |
| `stop_machine` | two cpus, three tasks with all seven kinds of call | lock step, every cpu stopped, no reverse order, no use after return, parked stoppers empty, no deadlock |
| `stop_machine_live` | two cpus, one task stopping one or both, the other stopping the machine or taking a cpu down and up again | every completion fires, disabled and parked stoppers included (fairness) |
| `fair` | two cpus under bandwidth control, one of them hot-pluggable; two nested groups and four tasks; a timeline of nine entities | a timer runs while anyone is throttled, the pool stays within the quota, throttled groups are served (fairness); counts and queues agree after every call; the tree is balanced and implements `SortedQueue` |
| `fair_next_buddy` | the groups | *finding*: a task below a throttled group is picked |
| `fair_tail` | two cpus, a quota of one slice | *finding*: one cfs_rq is never unthrottled (fairness) |
| `fair_forced` | two cpus, running tasks requeued in throttled groups | *finding*: a throttled cfs_rq with runtime left |
| `short_print` | a writer whose write() is longer than the buffer, with lost interrupts; two writers; a reader | bytes are printed once and in order, active output is watched, the next byte goes out (fairness) |
| `short_print_woken` | one writer | *finding*: it sleeps beside an empty buffer |

**Bounds and why they are enough.**
Three pipe processes are the least that has a reader and a writer asleep while
a third changes the buffer. A 3-byte buffer holds 2 bytes: with writes of 2 and
reads of 1 the pointers reach every offset, both meet `end`, and both a full and
an empty buffer occur at each wrap. Buffers of 1 and 2 bytes are the boundary
cases of `spacefree()`: the first holds nothing.

`MaxPos` of 3 with quantum and qset of 1 or 2 gives up to three list items, with
holes in the list, in an array, and at the end. Offsets from -1 to 2 reach
positions beyond the end. The shared device has sets of one quantum of two bytes and fixed
parameters; sets of two quanta, other sizes and negative sets come with the process that is
alone, and a quantum of 0 or -1, and the call that has noted a stale geometry, with the
third part, whose positions stop at 2. `MaxItems` stops the search for a negative item
after two allocations.

In `scull_access` three users, one of them through `su`, are the least with an
owner, one that is let in and one that waits. The devices share no variable and
each property is about one of them, so using two devices at a time would only
multiply their states: `MCNext` lets a call open a device only if no other one is, or
has been, in use (`scullsingle`, which leaves no trace, may come before another).
Only the choice of the device is restricted; the steps of the driver, and the
fairness on them, are those of `FairSpec`.

Two cpus and three tasks make every pair of calls overlap, with a third that
holds the mutex or changes hotplug. For liveness two tasks suffice: one that queues on
two stoppers, and one that queues on both or disables one of them, so that
`stop_two_cpus()` meets a stopper that is disabled, parked, or enabled again.

A quota of 3 with slices of 2 lets one cpu take a full slice and the other find a
part of one; a charge of 1 at a time and a debt of 1 (`MaxDelta`, `MaxDebt`) make
every sign of the remaining runtime occur, and a `MinRuntime` of 1 leaves slack to
return. Two cpus are enough for a list whose head is added to while a walk is at its
tail, and for both timers to walk at once. Groups A above B with two tasks in B, one
in A and one in the root have a group that keeps an entity when another leaves and
one that does not, at two depths, and a throttled group above and below the task
that moves. Nine entities, with vruntimes from 12 to 3 modulo 16 and some of them
equal, reach every case of insertion and erasure, among them the double rotation
and the successor that is not a direct child.

A page of 3 bytes holds 2, so that a write of 4 fills it, waits, and wraps at each
offset. One writer is enough for the race between its look at the tail and the
worker; two take turns at the semaphore. In the two-writer and reader parts the
timer's handler does nothing and, with two writers, no interrupt is lost, which the first part
covers; liveness is checked in the first part.

**Deadlock** is checked in all runs but those of `ScullPipe`: an open() can leave all
processes asleep (section 5), and every process may block in poll().

**Fairness.** `ScullPipe` and `ScullAccess`: weak fairness for each process's next
driver step, which is what a scheduler gives; none for calls, signals or the
choice among those that wait for a semaphore. So `ReadersWake` and
`WaiterIsWoken` promise that a sleeper is woken, not that it wins the race that
follows. `StopMachine`: strong fairness for a stopper thread, which has the
highest priority and is ready to run again and again while tasks of its cpu
disable preemption for short sections; strong fairness for taking a part of
`stop_cpus_lock`, since kernel spinlocks are granted in order; weak fairness for
the other steps of a task. `CfsBandwidth`: weak fairness for the passing of time, for
the timers' handlers, which are interrupts, and for a call that holds `rq->lock`;
strong fairness for a walk's turn at a cfs_rq (`WalkGive`), again because the lock
is granted in order. Tasks need not do anything. `ShortPrint`: weak fairness for the
printer, the work function, the timer with its handler, and each writer's next
step; none for interrupts, all of which may be lost.

## 4. Findings

* `fair.c:4499`: a task that goes to sleep names its group the next buddy, at every
  level, though a group further up is throttled; the next pick follows the mark
  into a group that is not queued and runs a task of a throttled hierarchy.
* `fair.c:3885`: throttled cfs_rqs are added at the head of the list and served from
  its head; with a quota that does not cover the debts the one at the tail is
  never unthrottled.
* `fair.c:3960`: what a throttled cfs_rq needs is computed in a u64 from a debt; a
  running task that is requeued in it gives it runtime instead (`fair.c:8445`), and the
  difference may wrap around and take the whole pool.
* `shortprint.c:124`: `shortp_out_space()` reads the tail twice; if it wraps to 0 in
  between, the space is negative and the writer sleeps beside an empty buffer, with
  the semaphore and with no wakeup to come.

Each is the one property of a run that TLC finds violated, and each is
quoted in `PROJECT.json`.

## 5. Departures

Where the code does what no promise forbids, or where a model must say more than the
code does, the module follows the code or says how it differs.

* `pipe.c:80`: every open() resets `rp` and `wp` and wakes nobody; a writer asleep on the
  full buffer stays asleep beside the empty one. `NoLostWriteWakeup` leaves out the
  writers that such an open() forgot (`missed`).
* `pipe.c:78`: after `SCULL_P_IOCTSIZE` on a pipe in use, the next open() gives `end` and
  `buffersize` a size that the allocated buffer does not have. `BufferKept` says
  that the two agree when no resize comes in between.
* `main.c:297`, `:341`: `quantum` and `qset` are noted before the semaphore is taken; after
  a trim in between, and a change of the parameters, a copy may run past a quantum
  (`wild`) and a write may leave arrays of the old length in the list. `misfit` records that
  a call has worked so. `InBounds` says that nothing else leads out of memory;
  `ListShape`, `SizeBacked` and `ImplementsStore` promise what they say up to that point.
* `main.c:429`, `:464`: the ioctls take zero and negative parameters. With an itemsize of 0 the
  next call divides by zero and dies with the semaphore, so that later calls
  wait; two negative ones make an itemsize that is positive; a negative quantum leads to
  places before the array, and counts as `misfit`.
* `main.c:381`: a write() of no bytes at a position past the end raises the size to it, over
  a hole: the byte below the size need not have a quantum, the one at it does (`SizeBacked`).
* `access.c:64`, `:123`, `:191`, `:294`: these open() functions call `scull_trim()` without the
  semaphore its comment demands. `TrimAlone` holds with the semaphore; without it, it
  fails as soon as two processes have the device, so the instance without the
  semaphore has one process.
* `access.c:57`: a failing open of `scullsingle` makes other opens fail while it has not
  yet undone its decrement; `ScullAccess` has the two steps, and `SingleOpen` says
  nothing of the refusal.
* `fair.c:3751`: a deadline that a tick extends may pass the group's; that it then equals the
  group's next one to the nanosecond, by chance, is left out.
* `fair.c:3749`: `expire_cfs_rq_runtime()` extends the local deadline if the global one has
  *not* advanced, against the comment above it. `Charge` drops runtime as the code does.
  The pool's bound holds either way.
* `shortprint.c:391`: `shortp_timeout()` calls `add_timer()` although the work function may
  have set the timer meanwhile. That is a BUG_ON in the kernel; the model takes it as
  setting the timer. The bits of the printer's status are taken as
  `shortp_timeout()` and `shortp_wait()` test them.

## 6. Not modelled

Of the modelled files: in `main.c` the /proc dumps, module load, an itemsize that overflows
`int`, and a search for a negative list item that runs on after `MaxItems` allocations; in
`stop_machine.c` the call from an inactive cpu, `stop_one_cpu_nowait()` and the returned
values; in `fair.c` the last and skip buddies, a sched_yield() that names nobody, clock values (whether a deadline has
passed is a choice), changes of quota and period (in a file that is not here),
where an entity's vruntime is placed, and load tracking and balancing, which are
arithmetic on loads that other files supply.

Other drivers were read and left out, for the reasons kept with each component in
`PROJECT.json`; in short:

* **short** has the page, `short_incr_bp()` and reader of shortprint. A bottom half that is
  queued while it runs may find nothing new the second time and print the whole array
  of old times (`short.c:401`).
* **snull**: on one cpu each call runs inside the other. On two, an interrupt's status can
  be lost (`snull.c:490`), a held-up transmission is freed twice (`snull.c:546`), and the
  timeout wakes the queue with an empty pool (`snull.c:549`), so that no invariant of
  interest is left to check.
* **scullp** and its relatives: `dev->vmas` is counted without a lock
  (`scullp/mmap.c:37`, `:44`), so the refusal to trim a mapped device can be lost.
* **sbull**: the block layer calls open() and release() one at a time and requests come
  under the queue lock; its timer is stopped and waited for before it is looked at.
* **tiny_tty**: who may call beside whom is up to the tty layer. The last close uses
  `del_timer()`, which does not wait for a handler that sets the timer again
  (`tiny_tty.c:84`, `:158`).
* **usb-skeleton**: the outcome is decided by the USB core; the driver's part is a kref.
* **kfifo** here is a module that calls the kernel's kfifo.

The share of the repository that the modules cover is small because most of its code is
of three kinds: vendor drivers for development boards kept beside the book that
explains them (`src/books/21cnbao`), build products and one-page samples, and three
ports of the same example drivers. Kernel files such as the rest of `fair.c` are kept
without the code they call.

## 7. What is proved

`ScullPipeProofs` proves, for any finite set of processes, any buffer sizes, any
payloads and any open modes, from `PipeAssumption` alone:

| theorem | says |
|---|---|
| `PipeInvariant` | `Spec => []PipeInv`, the inductive invariant |
| `PipeTypes` | `[]TypeOK` |
| `PipeSemaphore` | `[]SemaphoreDiscipline` |
| `PipePointers` | `[]PointersOK` |
| `PipeBuffer` | `[]BufferKept` |
| `PipeReadWakeup`, `PipeWriteWakeup` | `[]NoLostReadWakeup`, `[]NoLostWriteWakeup` |
| `PipeAsync` | `[]AsyncOnlyOpen` |

The argument. `SemaphoreDiscipline` is inductive with the types, and gives mutual
exclusion: when one process copies, no other stands between a copy and its
wrap, so both pointers are before `end` (lemmas `ReadRange`, `WriteRange`), the
arithmetic of `spacefree()` is what it should be (`SpaceFree`), and the copy stays
inside the buffer. That keeps `PointersOK` and, with it, the types of `rp` and `wp`,
so the three are proved together. The wakeup invariants are stated with the
pointers as they will be after the wrap (`NotEmpty`, `NotFull`), so that a pointer
at `end` does not look like data. A process that found no space without the lock
has found none even with a pointer at `end` (`NoSpace`). Then only `ReadCopy`,
`WriteCopy` and `OpenInit` can make the buffer more or less full: the first two
leave their process at the step before its wakeup, and `OpenInit` either empties
the buffer or, for writers, records the ones it forgets in `missed`. `BufferKept`
needs three more facts, collected in `Allocation`: an allocated buffer belongs to
someone, a process about to initialise the buffer has one, and an open file can
read or write. `Cardinality` facts come from `FiniteSetTheorems`.

The second part of `ScullPipeProofs` proves from the same assumption

| theorem | says |
|---|---|
| `PipeSafeInvariant` | `Spec => []SafeInv`, which is `PipeInv` and `WrapInv` |
| `PipeRefinement` | `Spec => ImplementsPipe`: the driver implements `Pipe` |

The argument. The mapping reads the stream off the circular buffer (`Contents`). Lemma
`Ring` says of both of its shapes, wrapped or not, how many bytes it has and at
which address each stands; every equation between streams is then one between addresses.
A read() that stops at the end of the buffer or at `wp` takes the front
of the stream (`TakeRing`), a write() that stops at the end or short of `rp` extends it and
leaves a byte free (`PutRing`), and moving a pointer from the end to the start changes
nothing (`WrapRing`). For `wp` the last needs `WrapInv`: where `wp` stands at the
end, `rp` is not at the start, else the full buffer would become an empty one. The
allocation of a buffer and its release are invisible because `BufferKept` says
when they happen; an open() that initialises the buffer restarts the stream. Every other
step moves one process between control points of the same kind (`Keeps`). One
lemma per step of `Pipe` (`Opens` to `Delivers`) turns these facts into
`Abstract!Next`.

`CfsBandwidthProofs` proves, for any finite set of cpus, any quota, slice, debt and hotplug, from
`BandwidthAssumption`:

| theorem | says |
|---|---|
| `BandwidthInvariant` | `Spec => []BandwidthInv`, the inductive invariant |
| `BandwidthTypes` | `[]BandwidthTypeOK`, with the pool never negative and the list holding exactly the throttled cfs_rqs |
| `BandwidthTimer` | `[]TimerCoversThrottled` |
| `BandwidthDebt` | `[]ThrottledInDebt` if no running task is requeued in a throttled cfs_rq |
| `BandwidthPool` | `[]PoolWithinQuota` if no running task is requeued in a throttled cfs_rq |

The argument. `BandwidthInv` adds to the types and the timer's invariant that a call
that asks for a slice has none left (`CallsInv`), so that what it takes is a natural
number no greater than the pool; that the list holds each throttled cfs_rq once
(`ListInv`), so that taking one out leaves exactly the others (lemma `RemoveOne`); and
that a walk stands at a cfs_rq whenever it is about to look at one (`WalkInv`). The
timer is turned off only by `PeriodBegin`, with an empty list, and `Throttle` starts it when
the list was empty, so the two cannot miss each other. For `BandwidthDebt` the
invariant `DebtInv` says that a throttled group neither runs nor waits to be given a
slice; what a walk gives it either leaves it in debt or unthrottles it. Only
`SetCurr` in a throttled group breaks this, which is the finding of `fair_forced`.
For `BandwidthPool` the sum over the cpus is the number of its units, a cardinality, so that
no induction over the cpus is needed: a sum changes by what its one changed term does
(`TotalSplit`, `TotalChange`). A slice leaves the pool before it can be returned, a return
moves to the pool exactly what was counted as spare, a refill makes all that the cpus hold
runtime of an earlier period, and a walk, which is not paid for until it ends, leaves a group
with one unit at most, since `DebtInv` says that it was in debt. `OfflineInv` covers hotplug: a
cpu that comes back brings nothing that could be returned.

`ScullMemProofs` proves, for any finite set of processes, any quanta and quantum sets, any
payloads, counts, offsets and bound on positions, from `MemAssumption`:

| theorem | says | if |
|---|---|---|
| `MemInvariant` | `Spec => []MemInv` | `Guarded` |
| `MemTypes`, `MemTrimAlone` | `[]TypeOK`, `[]TrimAlone` | `Guarded` |
| `MemShapeInvariant` | `Spec => [](MemInv /\ ShapeInv)` | `Guarded` |
| `MemInBounds` | `[]InBounds` | `Guarded` |
| `MemListShape`, `MemSizeBacked` | `[]ListShape`, `[]SizeBacked` | `Guarded` |
| `MemSteady` | `[]~misfit`: no call works by a wrong geometry | `Guarded`, `Steady`, no negative quantum |
| `MemNeverWild` | `[]~wild`: no access leaves allocated memory | `Guarded`, `Steady`, no negative quantum |

The hypotheses are about the constants, and say where the code is right.
`Guarded`: open() takes the semaphore (`Locked`, the bare device), or one process at most may
open the device (`OneUser`), which is what `AccessSingleOpen` below shows for scullsingle.
`Steady`: nobody changes the parameters by ioctl, or `OneUser`. All instances of `scull_mem`
satisfy the first, two by the semaphore and one by having one process; the third instance
does not satisfy `Steady`, and there `misfit` and `wild` do become TRUE. Without `Guarded`,
TLC finds two processes of one user in sculluid's list.

The argument. `MemInv` says that `sem` is held by exactly who is between down() and
up() (`SemInv`), so that one process at a time is inside the list (lemma `Exclusive`);
hence `dev->data` dangles only while its process is between the two steps of
`scull_trim()`, and nobody holds a pointer into what it freed (`FreedInv`). What read() and write()
do to the list is put in one relation, `Extends`: arrays and quanta stay, with their
lengths, and new ones have the noted lengths. `scull_follow()`, the two
allocations and the copy are each shown to satisfy it (`FollowedExtends`,
`ArrayExtends`, `QuantumExtends`, `StoredExtends`), whichever of them fails, so every other
fact about the list is proved once, of any list that extends another: its
shape (`ExtendsShape`) and which positions have a quantum (`KeptExtends`).
All this is stated for as long as `misfit` is FALSE: then the noted geometry of every call that
has found its place is the device's, so that no position
of it leaves its array or quantum (`ShapedPlaces`), the last byte of a copy is
in the quantum of its first (`SameQuantum`, from the uniqueness of quotient and
remainder), and `write_size` makes the size no larger than what has a quantum, or the
position of a write() that stored nothing. Under `Steady`, `GeometryInv` says that
a call's noted geometry is the device's from the start, whence `MemSteady`; with `InBounds`
that gives `MemNeverWild`.

`ScullMemRefines` proves from the same assumption

| theorem | says | if |
|---|---|---|
| `MemRefInvariant` | `Spec => []RefInv`, the invariants above and `ReadInv` | `Guarded` |
| `MemRefinement` | `Spec => ImplementsStore`: the device implements `Store` until `misfit` | `Guarded` |
| `MemStore` | `Spec => Abstract!Spec`: it implements `Store` for good | `Guarded`, `Steady`, no negative quantum |

The argument. The array of `Store` is read off the list (`ByteIn`), where a position is
an item, a place in its array and an offset in its quantum (`Spot`, `SpotSum`). That this
is one-to-one carries the proof: two positions in the same quantum are as far apart
as their offsets (`Apart`), and what follows a position up to the end of its quantum is in
that quantum (`Ahead`). So a copy to a quantum changes the bytes at the file position
and no others (`StoredAt`), and a copy from it returns those (`ReadCopyStep`), while an item,
an array or a quantum that is only allocated changes none (`FollowedBytes`,
`ArrayBytes`, `QuantumBytes`), whether or not the write() then fails or has nothing to store. A write() takes effect at its copy
although `dev->size` moves later: in between the abstract size counts the writer's position
as well, and since one process at a time is in the critical section (`Alone`) nobody
sees the difference. A read() must not pass that size: `ReadInv` says that the size it
was held against has not shrunk when it copies. `scull_trim()` empties the array when it
frees the list, before the size is 0; of a device without a list it changes nothing,
for `SizeBacked` has left it no size either.

`ScullAccessProofs` proves, for any finite set of processes, any users, ttys, capabilities
and choice of who can be interrupted, from `AccessAssumption`:

| theorem | says |
|---|---|
| `AccessInvariant` | `Spec => []AccessInv` |
| `AccessTypes` | `[]TypeOK` |
| `AccessSingleOpen` | `[]SingleOpen` |
| `AccessOneUser` | `[]OneUser` |
| `AccessOneClone` | `[]OneClonePerTty` |

The argument. The three properties are inductive once `AccessInv` adds that each
spinlock is held by exactly who is in its section (`LocksInv`), that a process is only where
the device it opens can take it (`FilesInv`), and that what was tested under a lock is
still so while the lock is held: the owner allows it, or no clone with its tty is in
the list (`ClaimsInv`). The counts are cardinalities of the sets of openers
(`HoldersCount`, `UndoingCount`), so one step changes both sides by one.

`StopMachineProofs` proves, for any number of cpus, any finite set of tasks, any cpus they
run on and any calls they make, from `StopAssumption`:

| theorem | says |
|---|---|
| `StopInvariant` | `Spec => []StopInv` |
| `StopTypes` | `[]TypeOK` |
| `StopStopped`, `StopLockStep` | `[]Stopped`, `[]LockStep` |
| `StopOrder` | `[]NoReverseOrder` |
| `StopNoUseAfterReturn`, `StopReturns` | `[]NoUseAfterReturn`, `[]ReturnsWhenDone` |
| `StopParkedEmpty` | `[]ParkedEmpty` |

The argument. A call is followed on each of its cpus: its work is yet to be queued
there, listed, executed or over. The two counters are tied to sets of cpus:
`nr_todo` is the number of those where the work has not been signalled (`Left`),
`thread_ack` of those that have not acknowledged the state (`Unacked`). The last to
acknowledge is therefore alone in its section, all others wait in `poll` with the old state, and
the new state finds each of them one behind: `LockStep` and `Stopped` follow, and the
last to signal is the only one left, so nothing of the call is in use when it returns.
For `NoReverseOrder` the invariant says that who queues on more than one cpu holds `stop_cpus_lock` for
all of them, so a second call's works come after the first's in every list they share. That
a work that waits for other cpus is never given to a stopper that is disabled rests on `HotplugInv`: a cpu goes
down only as the work of a call itself, and stop_machine() holds hotplug off.

`ShortPrintProofs` proves, for any writers and readers, any sizes of the two buffers,
any counts, and however many interrupts get lost, from `PrintAssumption`:

| theorem | says |
|---|---|
| `PrintInvariant` | `Spec => []PrintInv` |
| `PrintTypes` | `[]PrintTypeOK` |
| `PrintOrder` | `[]PrintsInOrder` |
| `PrintTimer` | `[]TimerCoversOutput` |
| `PrintExclusive` | two writers are never both between down() and up() |

The argument. `PlacesInv` ties `out_sem` to where the writers are, which gives
`PrintExclusive`. `RoomInv` says that what a writer computed of the buffer without the
lock is still true when it copies: the work function moves the tail meanwhile, but only
towards the head. So a copy overwrites nothing that has not been printed, which with the
arithmetic of the circular buffer (`UsedBytes`, `Place`) keeps `PrintsInOrder`.
`TimerCoversOutput` is inductive with the types.

`CfsGroupsProofs` proves, for any tree of groups of any depth, any tasks, and any groups
found out of runtime at any point of any call, from `GroupsAssumption`:

| theorem | says |
|---|---|
| `GroupsInvariant` | `GroupsSpec => []GroupsInv`, the inductive invariant |
| `GroupsTypes` | `[]GroupsTypeOK`, with no count ever negative |
| `GroupsQueued` | `[]QueuedIffRunnable`, which speaks of queued entities, not of a stale next buddy |
| `GroupsAccounting` | `[]Accounting` |

The argument. `Accounting` is not inductive as it stands: in the middle of a walk the
entity a loop stands at may be queued in a group that is not. `Chain(Q, x, y)` says that
everything from `x` up to what is in queue `y` is in `Q`, and `Count(Q, y)` is the number of
tasks with such a chain. `Sound` says that each queue's `h_nr_running` is its count
(`Balanced`), that a group is queued exactly when it has something to run and is not
throttled (`Settled`), that `throttle_count` is the number of throttled groups above
(`Frozen`), and that a task which a queue names next is queued (`Named`). The one fact of
arithmetic is `CountSplit`: to put an entity with `n` tasks under it on its queue
adds `n` to every queue that it has a chain to and changes no other.

Each call is a walk, and each walk has a loop invariant of its own, stated of what it has
made of `rq` at the entity it stands at: `Lowering` (a throttled group leaves the queues),
`Leaving` (a task does), `Raising` (an entity is queued). They say that every queue is off by
what this walk still owes it (`Due`), which is nothing once the walk has met a throttled
group, and that every group but the next is settled. `LowerStep`, `LeaveStep` and
`RaiseStep` show that one level keeps them; `RaiseStep` contains a whole `ThrottleGroup`, as
`enqueue_entity()` may throttle the group it has just filled. At the root
the walk owes `nr_running` what it owes any queue. Then `Accounting` follows from
`Sound` because a chain is broken exactly by a throttled group (`ReachVisible`).

Nothing in the finding of `fair_next_buddy` contradicts this: a task that is picked below a
throttled group runs, but it is counted as hidden and its group stays off the queue.

These proofs are inductions over paths, and the library's induction theorems, which take a
predicate as parameter, cannot be instantiated. `NatSetInduction` states induction for a
*set* of numbers, from the existence of a least counterexample (`WFMin`); it takes no operator,
so a proof only has to say of which set. On it rest `WalkSolution` and `PathUnfolds` (the
recursions that `Run` and `Path` state have solutions), `TreeInduction` (a set of entities
that has each one whose parent it has, has all), and every loop.

Only model-checked: the timeline and the refinement of `SortedQueue`, since `RbTree` and
`CfsTimeline` use recursive operators, with which the proof system loses its arithmetic
prover; the liveness properties and the absence of deadlock, which are out of its reach.

## 8. Plan

Every safety invariant that a run checks, except that of the timeline, is stated by a
theorem, as are both refinements outside the timeline; the type invariants of `MCFair` and
`MCShortPrint` are put together from those that theorems state. What is left for proofs is the
red-black tree: with its loops written as recursive functions, in the manner of
`CfsGroups`, its balance is a further loop invariant of `rb_insert_color()` and
`__rb_erase_color()`. For the model, what section 6 lists.
