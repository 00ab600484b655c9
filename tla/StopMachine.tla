----------------------------- MODULE StopMachine -----------------------------
(***************************************************************************)
(* The cpu stopper (kernel/stop_machine.c): one highest-priority thread    *)
(* per cpu that takes works off its queue, and the calls that queue works  *)
(* on one cpu, on two or on many and wait for all of them.  A work is      *)
(* named by the task whose call queued it.  Its function is a plain one,   *)
(* or multi_cpu_stop(), which brings the cpus through the states of a      *)
(* multi_stop_data in lock step and runs the caller's function meanwhile.  *)
(*                                                                         *)
(* A section under a stopper's lock is one step.  Tasks run on cpus: a     *)
(* stopper that executes a work keeps the tasks of its cpu from running,   *)
(* and a task with preemption disabled keeps the stopper from starting.    *)
(***************************************************************************)
EXTENDS Integers, Sequences, FiniteSets, FiniteSetsExt

CONSTANTS
  NCpu,   \* cpus are 1 .. NCpu
  Tasks,  \* the tasks that make calls
  None,   \* no task
  home,   \* the cpu that each task runs on
  Calls   \* the kinds of call that each task makes

Cpu == 1 .. NCpu

(* stop_one_cpu(), stop_two_cpus(), stop_cpus() and try_stop_cpus() with a
   plain function, stop_machine(), and taking a cpu down, which runs
   stop_machine() with a function that parks the stopper; bringing one up. *)
Kinds == {"one", "two", "cpus", "try", "machine", "down", "up"}

ASSUME StopAssumption ==
  /\ NCpu \in Nat \ {0}
  /\ IsFiniteSet(Tasks) /\ None \notin Tasks
  /\ home \in [Tasks -> Cpu]
  /\ Calls \in [Tasks -> SUBSET Kinds]

VARIABLES
  enabled,    \* the cpus whose stopper is enabled
  online,     \* cpu_online_mask
  works,      \* each stopper's list of works
  \* each stopper thread: where it is, its work, multi_cpu_stop()'s curstate
  spc, work, curstate,
  irqs,       \* the cpus with interrupts enabled
  state, thread_ack, num_threads,  \* each call's multi_stop_data
  active,     \* the cpus that run the call's function
  nr_todo,    \* each call's cpu_stop_done: what is left,
  completed,  \* ... and the tasks whose completion has fired
  pc,         \* where each task is
  kind,       \* the kind of its call
  mask,       \* the cpus of its call
  todo,       \* of those, the ones it has not yet locked or queued on
  queued,     \* ... and the ones where its work was queued
  lglock,     \* holder of each cpu's part of stop_cpus_lock
  stop_cpus_mutex,
  readers, writer,  \* who holds off cpu hotplug, who does it
  ran         \* history: the cpus that ran the function of the call

stoppers == <<spc, work, curstate, irqs>>
msdata   == <<state, thread_ack, num_threads, active>>
done     == <<nr_todo, completed>>
call     == <<kind, mask, todo, queued>>
locks    == <<lglock, stop_cpus_mutex>>
hotplug  == <<readers, writer>>
vars == <<enabled, online, works, stoppers, msdata, done, pc, call, locks,
          hotplug, ran>>

MULTI_STOP_NONE == 0
MULTI_STOP_PREPARE == 1
MULTI_STOP_DISABLE_IRQ == 2
MULTI_STOP_RUN == 3
MULTI_STOP_EXIT == 4

Multi(t) == kind[t] \in {"two", "machine", "down"}

Goto(t, here, there) ==
  /\ pc[t] = here
  /\ pc' = [pc EXCEPT ![t] = there]

NonPreemptible == {t \in Tasks : pc[t] \in {"lg_lock", "two_queue", "queue"}}

(* The task is not held off by its cpu's stopper.  (A task whose cpu went
   down runs elsewhere.) *)
Runs(t) == t \in NonPreemptible \/ spc[home[t]] \in {"main", "parked"}

----------------------------------------------------------------------------
\* Entering and leaving the calls

Begin(t, k, cpus, there) ==
  /\ Runs(t)
  /\ k \in Calls[t]
  /\ Goto(t, "idle", there)
  /\ kind' = [kind EXCEPT ![t] = k]
  /\ mask' = [mask EXCEPT ![t] = cpus]
  /\ UNCHANGED <<queued, ran, completed>>

(* Back to the caller: what was on the call's stack is gone. *)
Return(t, here) ==
  /\ Goto(t, here, "idle")
  /\ kind'   = [kind EXCEPT ![t] = "none"]
  /\ mask'   = [mask EXCEPT ![t] = {}]
  /\ todo'   = [todo EXCEPT ![t] = {}]
  /\ queued' = [queued EXCEPT ![t] = {}]
  /\ ran'    = [ran EXCEPT ![t] = {}]
  /\ state'       = [state EXCEPT ![t] = MULTI_STOP_NONE]
  /\ thread_ack'  = [thread_ack EXCEPT ![t] = 0]
  /\ num_threads' = [num_threads EXCEPT ![t] = 0]
  /\ active'      = [active EXCEPT ![t] = {}]
  /\ nr_todo'     = [nr_todo EXCEPT ![t] = 0]
  /\ completed'   = completed \ {t}

(* set_state(&msdata, MULTI_STOP_PREPARE) *)
Prepare(t, threads, cpus) ==
  /\ state'       = [state EXCEPT ![t] = MULTI_STOP_PREPARE]
  /\ thread_ack'  = [thread_ack EXCEPT ![t] = threads]
  /\ num_threads' = [num_threads EXCEPT ![t] = threads]
  /\ active'      = [active EXCEPT ![t] = cpus]

StopOneCpu(t, cpu) ==
  /\ Begin(t, "one", {cpu}, "one_queue")
  /\ active'  = [active EXCEPT ![t] = {cpu}]
  /\ nr_todo' = [nr_todo EXCEPT ![t] = 1]
  /\ UNCHANGED <<enabled, online, works, stoppers, state, thread_ack,
                 num_threads, todo, locks, hotplug>>

StopTwoCpus(t, cpu1, cpu2) ==
  /\ cpu1 # cpu2
  /\ Begin(t, "two", {cpu1, cpu2}, "lg_lock")
  /\ Prepare(t, 2, {cpu1})
  /\ nr_todo' = [nr_todo EXCEPT ![t] = 2]
  /\ todo'    = [todo EXCEPT ![t] = {cpu1, cpu2}]
  /\ UNCHANGED <<enabled, online, works, stoppers, locks, hotplug>>

StopCpus(t, k, cpus) ==
  /\ k \in {"cpus", "try"}
  /\ Begin(t, k, cpus, "mutex")
  /\ active' = [active EXCEPT ![t] = cpus]
  /\ UNCHANGED <<enabled, online, works, stoppers, state, thread_ack,
                 num_threads, nr_todo, todo, locks, hotplug>>

(* get_online_cpus() waits for whoever brings a cpu down or up. *)
StopMachine(t, cpus) ==
  /\ writer = None
  /\ Begin(t, "machine", online, "mutex")
  /\ Prepare(t, Cardinality(online), cpus)
  /\ readers' = readers \cup {t}
  /\ UNCHANGED <<enabled, online, works, stoppers, nr_todo, todo, locks,
                 writer>>

(* The hotplug code's use of this file: only with all others held off. *)
CpuDown(t, cpu) ==
  /\ readers = {} /\ writer = None
  /\ cpu \in online /\ online # {cpu}
  /\ Begin(t, "down", online, "mutex")
  /\ Prepare(t, Cardinality(online), {cpu})
  /\ writer' = t
  /\ UNCHANGED <<enabled, online, works, stoppers, nr_todo, todo, locks,
                 readers>>

(* stop_machine_unpark() *)
CpuUp(t, cpu) ==
  /\ Runs(t) /\ pc[t] = "idle" /\ "up" \in Calls[t]
  /\ readers = {} /\ writer = None
  /\ cpu \notin online
  /\ spc[cpu] = "parked"
  /\ online'  = online \cup {cpu}
  /\ enabled' = enabled \cup {cpu}
  /\ spc'     = [spc EXCEPT ![cpu] = "main"]
  /\ UNCHANGED <<works, work, curstate, irqs, msdata, done, pc, call, locks,
                 hotplug, ran>>

----------------------------------------------------------------------------
\* Queueing

(* mutex_lock() or a mutex_trylock() that succeeds; cpu_stop_init_done() *)
Mutex(t) ==
  /\ Runs(t)
  /\ stop_cpus_mutex = None
  /\ Goto(t, "mutex", "lg_lock")
  /\ stop_cpus_mutex' = t
  /\ nr_todo' = [nr_todo EXCEPT ![t] = Cardinality(mask[t])]
  /\ todo'    = [todo EXCEPT ![t] = Cpu]
  /\ UNCHANGED <<enabled, online, works, stoppers, msdata, completed, kind,
                 mask, queued, lglock, hotplug, ran>>

TryFails(t) ==
  /\ Runs(t)
  /\ kind[t] = "try" /\ stop_cpus_mutex # None
  /\ Return(t, "mutex")
  /\ UNCHANGED <<enabled, online, works, stoppers, locks, hotplug>>

(* Broken: no part of stop_cpus_lock is taken. *)
LgLockNone(t) ==
  /\ Runs(t)
  /\ todo[t] # {}
  /\ pc[t] = "lg_lock"
  /\ todo' = [todo EXCEPT ![t] = {}]
  /\ UNCHANGED <<enabled, online, works, stoppers, msdata, done, pc, kind,
                 mask, queued, locks, hotplug, ran>>

(* lg_double_lock() and lg_global_lock() disable preemption and take the
   cpus' spinlocks in the order of the cpus. *)
LgLock(t) ==
  /\ Runs(t)
  /\ pc[t] = "lg_lock" /\ todo[t] # {}
  /\ LET cpu == Min(todo[t])
     IN  /\ lglock[cpu] = None
         /\ lglock' = [lglock EXCEPT ![cpu] = t]
         /\ todo' = [todo EXCEPT ![t] = @ \ {cpu}]
  /\ UNCHANGED <<enabled, online, works, stoppers, msdata, done, pc, kind,
                 mask, queued, stop_cpus_mutex, hotplug, ran>>

LgLocked(t) ==
  /\ Runs(t)
  /\ todo[t] = {}
  /\ Goto(t, "lg_lock", IF kind[t] = "two" THEN "two_queue" ELSE "queue")
  /\ todo' = [todo EXCEPT ![t] = mask[t]]
  /\ UNCHANGED <<enabled, online, works, stoppers, msdata, done, kind, mask,
                 queued, locks, hotplug, ran>>

LgUnlock(t) == lglock' = [cpu \in Cpu |-> IF lglock[cpu] = t THEN None
                                                            ELSE lglock[cpu]]

(* Broken: a disabled stopper is given the work all the same. *)
QueueOnDisabled(t, cpu) ==
  /\ works'  = [works EXCEPT ![cpu] = Append(@, t)]
  /\ queued' = [queued EXCEPT ![t] = @ \cup {cpu}]
  /\ UNCHANGED done

(* cpu_stop_queue_work(): if offline, the work is completed immediately. *)
QueueOn(t, cpu) ==
  \/ /\ cpu \in enabled
     /\ works'  = [works EXCEPT ![cpu] = Append(@, t)]
     /\ queued' = [queued EXCEPT ![t] = @ \cup {cpu}]
     /\ UNCHANGED done
  \/ /\ cpu \notin enabled
     /\ nr_todo'   = [nr_todo EXCEPT ![t] = @ - 1]
     /\ completed' = IF nr_todo[t] = 1 THEN completed \cup {t} ELSE completed
     /\ UNCHANGED <<works, queued>>

OneQueue(t) ==
  /\ Runs(t)
  /\ mask[t] \subseteq enabled
  /\ Goto(t, "one_queue", "wait")
  /\ \E cpu \in mask[t] : QueueOn(t, cpu)
  /\ UNCHANGED <<enabled, online, stoppers, msdata, kind, mask, todo, locks,
                 hotplug, ran>>

(* -ENOENT *)
OneNoEntry(t) ==
  /\ Runs(t)
  /\ ~(mask[t] \subseteq enabled)
  /\ Return(t, "one_queue")
  /\ UNCHANGED <<enabled, online, works, stoppers, locks, hotplug>>

(* for_each_cpu(cpu, cpumask), in the order of the cpus *)
Queue(t) ==
  /\ Runs(t)
  /\ pc[t] = "queue" /\ todo[t] # {}
  /\ QueueOn(t, Min(todo[t]))
  /\ todo' = [todo EXCEPT ![t] = @ \ {Min(@)}]
  /\ UNCHANGED <<enabled, online, stoppers, msdata, pc, kind, mask, locks,
                 hotplug, ran>>

(* -ENOENT when every cpu was offline. *)
QueueDone(t) ==
  /\ Runs(t)
  /\ todo[t] = {}
  /\ Goto(t, "queue", IF queued[t] = {} THEN "unlock" ELSE "wait")
  /\ LgUnlock(t)
  /\ UNCHANGED <<enabled, online, works, stoppers, msdata, done, call,
                 stop_cpus_mutex, hotplug, ran>>

(* Broken: queues on whichever of the stoppers is enabled. *)
TwoQueueEnabled(t) ==
  /\ Runs(t)
  /\ Goto(t, "two_queue", "wait")
  /\ works'  = [cpu \in Cpu |-> IF cpu \in mask[t] \cap enabled
                                  THEN Append(works[cpu], t) ELSE works[cpu]]
  /\ queued' = [queued EXCEPT ![t] = mask[t] \cap enabled]
  /\ LgUnlock(t)
  /\ UNCHANGED <<enabled, online, stoppers, msdata, done, kind, mask, todo,
                 stop_cpus_mutex, hotplug, ran>>

(* cpu_stop_queue_two_works(), under both stoppers' locks *)
TwoQueue(t) ==
  /\ Runs(t)
  /\ mask[t] \subseteq enabled
  /\ Goto(t, "two_queue", "wait")
  /\ works'  = [cpu \in Cpu |-> IF cpu \in mask[t] THEN Append(works[cpu], t)
                                                   ELSE works[cpu]]
  /\ queued' = [queued EXCEPT ![t] = mask[t]]
  /\ LgUnlock(t)
  /\ UNCHANGED <<enabled, online, stoppers, msdata, done, kind, mask, todo,
                 stop_cpus_mutex, hotplug, ran>>

TwoNoEntry(t) ==
  /\ Runs(t)
  /\ ~(mask[t] \subseteq enabled)
  /\ Return(t, "two_queue")
  /\ LgUnlock(t)
  /\ UNCHANGED <<enabled, online, works, stoppers, stop_cpus_mutex, hotplug>>

(* wait_for_completion() *)
Wait(t) ==
  /\ Runs(t)
  /\ t \in completed
  /\ kind[t] \notin {"one", "two"}
  /\ Goto(t, "wait", "unlock")
  /\ UNCHANGED <<enabled, online, works, stoppers, msdata, done, call, locks,
                 hotplug, ran>>

WaitReturn(t) ==
  /\ Runs(t)
  /\ t \in completed
  /\ kind[t] \in {"one", "two"}
  /\ Return(t, "wait")
  /\ UNCHANGED <<enabled, online, works, stoppers, locks, hotplug>>

Unlock(t) ==
  /\ Runs(t)
  /\ Goto(t, "unlock", "put")
  /\ stop_cpus_mutex' = None
  /\ UNCHANGED <<enabled, online, works, stoppers, msdata, done, call, lglock,
                 hotplug, ran>>

(* Hotplug goes on, where it was held off; the hotplug code first waits for the
   stopper of the cpu that went down. *)
PutOnlineCpus(t) ==
  /\ Runs(t)
  /\ kind[t] = "down" => \A cpu \in active[t] : spc[cpu] = "parked"
  /\ Return(t, "put")
  /\ readers' = readers \ {t}
  /\ writer'  = IF writer = t THEN None ELSE writer
  /\ UNCHANGED <<enabled, online, works, stoppers, locks>>

----------------------------------------------------------------------------
\* The stopper threads

Stopper(cpu, here, there) ==
  /\ spc[cpu] = here
  /\ spc' = [spc EXCEPT ![cpu] = there]

Outside(cpu) == \A t \in NonPreemptible : home[t] # cpu

(* The thread's main loop (smpboot): parked if it should, else run if there
   are works. *)
Park(cpu) ==
  /\ Outside(cpu)
  /\ cpu \notin enabled
  /\ Stopper(cpu, "main", "parked")
  /\ UNCHANGED <<enabled, online, works, work, curstate, irqs, msdata, done,
                 pc, call, locks, hotplug, ran>>

ShouldRun(cpu) ==
  /\ Outside(cpu)
  /\ cpu \in enabled /\ works[cpu] # <<>>
  /\ Stopper(cpu, "main", "repeat")
  /\ UNCHANGED <<enabled, online, works, work, curstate, irqs, msdata, done,
                 pc, call, locks, hotplug, ran>>

Take(cpu) ==
  /\ works[cpu] # <<>>
  /\ Stopper(cpu, "repeat",
             IF Multi(Head(works[cpu])) THEN "poll" ELSE "plain")
  /\ works'    = [works EXCEPT ![cpu] = Tail(@)]
  /\ work'     = [work EXCEPT ![cpu] = Head(works[cpu])]
  /\ curstate' = [curstate EXCEPT ![cpu] = MULTI_STOP_NONE]
  /\ UNCHANGED <<enabled, online, irqs, msdata, done, pc, call, locks, hotplug,
                 ran>>

NothingLeft(cpu) ==
  /\ works[cpu] = <<>>
  /\ Stopper(cpu, "repeat", "main")
  /\ UNCHANGED <<enabled, online, works, work, curstate, irqs, msdata, done,
                 pc, call, locks, hotplug, ran>>

(* A plain function. *)
Plain(cpu) ==
  /\ Stopper(cpu, "plain", "signal")
  /\ ran' = [ran EXCEPT ![work[cpu]] = @ \cup {cpu}]
  /\ UNCHANGED <<enabled, online, works, work, curstate, irqs, msdata, done,
                 pc, call, locks, hotplug>>

(* multi_cpu_stop(): a new state is acted upon, then acknowledged. *)
Poll(cpu) ==
  LET new == state[work[cpu]]
  IN  /\ Stopper(cpu, "poll",
                 IF new = MULTI_STOP_RUN /\ cpu \in active[work[cpu]]
                   THEN "run" ELSE "ack")
      /\ curstate[cpu] # new
      /\ curstate' = [curstate EXCEPT ![cpu] = new]
      /\ irqs' = IF new = MULTI_STOP_DISABLE_IRQ THEN irqs \ {cpu} ELSE irqs
      /\ UNCHANGED <<enabled, online, works, work, msdata, done, pc, call,
                     locks, hotplug, ran>>

(* msdata->fn(); the function that takes a cpu down calls
   stop_machine_park(). *)
Run(cpu) ==
  LET t == work[cpu]
  IN  /\ Stopper(cpu, "run", "ack")
      /\ ran'     = [ran EXCEPT ![t] = @ \cup {cpu}]
      /\ enabled' = IF kind[t] = "down" THEN enabled \ {cpu} ELSE enabled
      /\ online'  = IF kind[t] = "down" THEN online \ {cpu} ELSE online
      /\ UNCHANGED <<works, work, curstate, irqs, msdata, done, pc, call, locks,
                     hotplug>>

AfterAck(cpu) == IF curstate[cpu] = MULTI_STOP_EXIT THEN "leave" ELSE "poll"

(* ack_state(): the last one goes on to the next state. *)
AckState(cpu) ==
  LET t == work[cpu]
  IN  /\ Stopper(cpu, "ack",
                 IF thread_ack[t] = 1 THEN "reset" ELSE AfterAck(cpu))
      /\ thread_ack' = [thread_ack EXCEPT ![t] = @ - 1]
      /\ UNCHANGED <<enabled, online, works, work, curstate, irqs, state,
                     num_threads, active, done, pc, call, locks, hotplug, ran>>

(* Broken: one acknowledgement short. *)
ResetOneLess(cpu) ==
  LET t == work[cpu]
  IN  /\ Stopper(cpu, "reset", "set")
      /\ thread_ack' = [thread_ack EXCEPT ![t] = num_threads[t] - 1]
      /\ UNCHANGED <<enabled, online, works, work, curstate, irqs, state,
                     num_threads, active, done, pc, call, locks, hotplug, ran>>

(* set_state(): the count is reset, and after the barrier the state moves. *)
Reset(cpu) ==
  LET t == work[cpu]
  IN  /\ Stopper(cpu, "reset", "set")
      /\ thread_ack' = [thread_ack EXCEPT ![t] = num_threads[t]]
      /\ UNCHANGED <<enabled, online, works, work, curstate, irqs, state,
                     num_threads, active, done, pc, call, locks, hotplug, ran>>

SetState(cpu) ==
  LET t == work[cpu]
  IN  /\ Stopper(cpu, "set", AfterAck(cpu))
      /\ state' = [state EXCEPT ![t] = curstate[cpu] + 1]
      /\ UNCHANGED <<enabled, online, works, work, curstate, irqs, thread_ack,
                     num_threads, active, done, pc, call, locks, hotplug, ran>>

(* Out of the loop, with the interrupts as they were. *)
Leave(cpu) ==
  /\ Stopper(cpu, "leave", "signal")
  /\ irqs' = irqs \cup {cpu}
  /\ UNCHANGED <<enabled, online, works, work, curstate, msdata, done, pc, call,
                 locks, hotplug, ran>>

(* Broken: every work fires the completion. *)
SignalEvery(cpu) ==
  LET t == work[cpu]
  IN  /\ Stopper(cpu, "signal", "complete")
      /\ nr_todo' = [nr_todo EXCEPT ![t] = @ - 1]
      /\ UNCHANGED <<enabled, online, works, work, curstate, irqs, msdata,
                     completed, pc, call, locks, hotplug, ran>>

(* cpu_stop_signal_done(): the last one fires the completion. *)
Signal(cpu) ==
  LET t == work[cpu]
  IN  /\ Stopper(cpu, "signal",
                 IF nr_todo[t] = 1 THEN "complete" ELSE "repeat")
      /\ nr_todo' = [nr_todo EXCEPT ![t] = @ - 1]
      /\ work' = IF nr_todo[t] = 1 THEN work ELSE [work EXCEPT ![cpu] = None]
      /\ UNCHANGED <<enabled, online, works, curstate, irqs, msdata, completed,
                     pc, call, locks, hotplug, ran>>

Complete(cpu) ==
  /\ Stopper(cpu, "complete", "repeat")
  /\ completed' = completed \cup {work[cpu]}
  /\ work' = [work EXCEPT ![cpu] = None]
  /\ UNCHANGED <<enabled, online, works, curstate, irqs, msdata, nr_todo, pc,
                 call, locks, hotplug, ran>>

----------------------------------------------------------------------------

Init ==
  /\ enabled = Cpu /\ online = Cpu
  /\ works    = [cpu \in Cpu |-> <<>>]
  /\ spc      = [cpu \in Cpu |-> "main"]
  /\ work     = [cpu \in Cpu |-> None]
  /\ curstate = [cpu \in Cpu |-> MULTI_STOP_NONE]
  /\ irqs = Cpu
  /\ state       = [t \in Tasks |-> MULTI_STOP_NONE]
  /\ thread_ack  = [t \in Tasks |-> 0]
  /\ num_threads = [t \in Tasks |-> 0]
  /\ active      = [t \in Tasks |-> {}]
  /\ nr_todo = [t \in Tasks |-> 0] /\ completed = {}
  /\ pc     = [t \in Tasks |-> "idle"]
  /\ kind   = [t \in Tasks |-> "none"]
  /\ mask   = [t \in Tasks |-> {}]
  /\ todo   = [t \in Tasks |-> {}]
  /\ queued = [t \in Tasks |-> {}]
  /\ lglock = [cpu \in Cpu |-> None] /\ stop_cpus_mutex = None
  /\ readers = {} /\ writer = None
  /\ ran = [t \in Tasks |-> {}]

Call(t) ==
  \/ \E cpu \in Cpu : StopOneCpu(t, cpu) \/ CpuDown(t, cpu) \/ CpuUp(t, cpu)
  \/ \E cpu1, cpu2 \in Cpu : StopTwoCpus(t, cpu1, cpu2)
  \/ \E k \in Kinds, cpus \in SUBSET Cpu \ {{}} : StopCpus(t, k, cpus)
  \/ StopMachine(t, online)
  \/ StopMachine(t, {Min(online)})  \* what cpus == NULL means

Step(t) ==
  \/ Mutex(t) \/ TryFails(t) \/ LgLock(t) \/ LgLocked(t)
  \/ OneQueue(t) \/ OneNoEntry(t) \/ Queue(t) \/ QueueDone(t)
  \/ TwoQueue(t) \/ TwoNoEntry(t) \/ Wait(t) \/ WaitReturn(t) \/ Unlock(t)
  \/ PutOnlineCpus(t)

StopperStep(cpu) ==
  \/ Park(cpu) \/ ShouldRun(cpu) \/ Take(cpu) \/ NothingLeft(cpu)
  \/ Plain(cpu) \/ Poll(cpu) \/ Run(cpu) \/ AckState(cpu) \/ Reset(cpu)
  \/ SetState(cpu) \/ Leave(cpu) \/ Signal(cpu) \/ Complete(cpu)

Next ==
  \/ \E t \in Tasks : Call(t) \/ Step(t)
  \/ \E cpu \in Cpu : StopperStep(cpu)

Spec == Init /\ [][Next]_vars

(* A stopper thread, which has the highest priority, runs as soon as no task
   disables preemption on its cpu; the parts of stop_cpus_lock are fair
   spinlocks; and a task that can go on with its call does. *)
FairSpec ==
  /\ Spec
  /\ \A cpu \in Cpu : SF_vars(StopperStep(cpu))
  /\ \A t \in Tasks : WF_vars(Step(t)) /\ SF_vars(LgLock(t))

----------------------------------------------------------------------------
\* Properties

(* Every variable holds a value of its kind; in particular nobody acknowledges
   a state once too often, which would take thread_ack below zero
   (stop_machine.c:166-171). *)
TypeOK ==
  /\ enabled \subseteq Cpu /\ online \subseteq Cpu /\ irqs \subseteq Cpu
  /\ works \in [Cpu -> Seq(Tasks)]
  /\ spc \in [Cpu -> {"main", "parked", "repeat", "plain", "poll", "run", "ack",
                      "reset", "set", "leave", "signal", "complete"}]
  /\ work \in [Cpu -> Tasks \cup {None}]
  /\ curstate \in [Cpu -> MULTI_STOP_NONE .. MULTI_STOP_EXIT]
  /\ state \in [Tasks -> MULTI_STOP_NONE .. MULTI_STOP_EXIT + 1]
  /\ thread_ack \in [Tasks -> 0 .. NCpu]
  /\ num_threads \in [Tasks -> 0 .. NCpu]
  /\ nr_todo \in [Tasks -> 0 .. NCpu]
  /\ active \in [Tasks -> SUBSET Cpu]
  /\ completed \subseteq Tasks
  /\ pc \in [Tasks -> {"idle", "one_queue", "mutex", "lg_lock", "two_queue",
                       "queue", "wait", "unlock", "put"}]
  /\ kind \in [Tasks -> Kinds \cup {"none"}]
  /\ mask \in [Tasks -> SUBSET Cpu] /\ todo \in [Tasks -> SUBSET Cpu]
  /\ queued \in [Tasks -> SUBSET Cpu] /\ ran \in [Tasks -> SUBSET Cpu]
  /\ lglock \in [Cpu -> Tasks \cup {None}]
  /\ stop_cpus_mutex \in Tasks \cup {None}
  /\ readers \subseteq Tasks /\ writer \in Tasks \cup {None}

(* While the function of a stop_two_cpus() or stop_machine() call runs, every
   cpu of the call is in it too, with its interrupts disabled
   (stop_machine.c:200-211). *)
Stopped ==
  \A cpu \in Cpu : spc[cpu] = "run" =>
    \A other \in mask[work[cpu]] :
      work[other] = work[cpu] /\ other \notin irqs

(* The cpus of a call are never more than one state apart
   (stop_machine.c:157-171). *)
LockStep ==
  \A c, d \in Cpu :
    /\ work[c] = work[d] /\ work[c] # None
    /\ Multi(work[c])
    /\ {spc[c], spc[d]} \cap {"leave", "signal", "complete"} = {}
    => curstate[c] - curstate[d] \in -1 .. 1

(* "Queued up in reverse order, leading to system deadlock"
   (stop_machine.c:49-52): two works whose functions wait for other cpus are
   never in opposite orders in two stoppers' queues. *)
Before(cpu, t, u) ==
  \/ work[cpu] = t /\ \E i \in 1 .. Len(works[cpu]) : works[cpu][i] = u
  \/ \E i, j \in 1 .. Len(works[cpu]) :
       i < j /\ works[cpu][i] = t /\ works[cpu][j] = u

NoReverseOrder ==
  \A t, u \in Tasks : \A c, d \in Cpu :
    Multi(t) /\ Multi(u) /\ t # u => ~(Before(c, t, u) /\ Before(d, u, t))

(* The work, the cpu_stop_done and the multi_stop_data of a call live on its
   stack: no stopper holds them once the call has returned. *)
NoUseAfterReturn ==
  \A t \in Tasks : pc[t] = "idle" =>
    \A cpu \in Cpu :
      work[cpu] # t /\ \A i \in 1 .. Len(works[cpu]) : works[cpu][i] # t

(* A call goes on only after all that it queued has been executed, and on no
   cpu more or less than that; -ENOENT means that nothing was executed. *)
ReturnsWhenDone ==
  \A t \in Tasks :
    pc[t] \in {"unlock", "put"} \/ (pc[t] = "wait" /\ t \in completed) =>
      ran[t] = active[t] \cap queued[t]

(* A stopper parks with nothing left in its list: the WARN_ON in
   cpu_stop_park() (stop_machine.c:493). *)
ParkedEmpty ==
  \A cpu \in Cpu : spc[cpu] = "parked" => works[cpu] = <<>>

(* What was queued is executed and the caller told so: no two stoppers wait
   for each other, and none for one that was disabled, whose cpu is going down
   and which may have parked (stop_machine.c:219-242). *)
CompletionFires ==
  \A t \in Tasks : pc[t] = "wait" ~> (t \in completed \/ pc[t] # "wait")
=============================================================================
