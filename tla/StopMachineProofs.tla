-------------------------- MODULE StopMachineProofs --------------------------
(***************************************************************************)
(* Theorems about StopMachine for any number of cpus, any finite set of    *)
(* tasks, and any choice of where they run and which calls they make.      *)
(*                                                                         *)
(* A call is followed on each of its cpus: its work is yet to be queued,   *)
(* listed there, executed, or over.  The cpu_stop_done counts the cpus     *)
(* where it has not been signalled, the multi_stop_data those that have    *)
(* not acknowledged its state; everything else follows from the two.       *)
(***************************************************************************)
EXTENDS StopMachine, FiniteSetTheorems, SequenceTheorems, WellFoundedInduction, TLAPS

(* The calls that hold stop_cpus_mutex, and multi_cpu_stop()'s loop. *)
Global == {"cpus", "try", "machine", "down"}
Loop == {"poll", "run", "ack", "reset", "set"}
Past == {"leave", "signal", "complete"}
Early == {"one_queue", "lg_lock", "two_queue"}

Listed(c, t) == \E i \in 1 .. Len(works[c]) : works[c][i] = t

(* Where the work of call t is on cpu c: to be queued, ... *)
Pending(c, t) == pc[t] \in Early \/ (pc[t] = "queue" /\ c \in todo[t])

(* ... or there and not signalled. *)
Left(t) ==
  {c \in mask[t] : Pending(c, t) \/ Listed(c, t) \/ (work[c] = t /\ spc[c] # "complete")}

(* Not yet in multi_cpu_stop(), or in it and behind the call's state. *)
Behind(c, t) == pc[t] = "mutex" \/ Pending(c, t) \/ Listed(c, t)

Unacked(t) ==
  {c \in mask[t] : \/ Behind(c, t)
                   \/ /\ work[c] = t /\ spc[c] \in {"poll", "run", "ack"}
                      /\ ~(spc[c] = "poll" /\ curstate[c] = state[t])}

Executed(c, t) ==
  /\ ~Listed(c, t)
  /\ work[c] = t => IF Multi(t) THEN curstate[c] >= MULTI_STOP_RUN /\ spc[c] # "run"
                                ELSE spc[c] # "plain"

----------------------------------------------------------------------------
\* The invariant

Types ==
  /\ enabled \subseteq Cpu /\ online \subseteq Cpu /\ irqs \subseteq Cpu
  /\ works \in [Cpu -> Seq(Tasks)]
  /\ spc \in [Cpu -> {"main", "parked", "repeat", "plain"} \cup Loop \cup Past]
  /\ work \in [Cpu -> Tasks \cup {None}]
  /\ curstate \in [Cpu -> MULTI_STOP_NONE .. MULTI_STOP_EXIT]
  /\ state \in [Tasks -> MULTI_STOP_NONE .. MULTI_STOP_EXIT + 1]
  /\ thread_ack \in [Tasks -> Int] /\ num_threads \in [Tasks -> Int]
  /\ nr_todo \in [Tasks -> Int]
  /\ active \in [Tasks -> SUBSET Cpu]
  /\ completed \subseteq Tasks
  /\ pc \in [Tasks -> {"idle", "mutex", "queue", "wait", "unlock", "put"} \cup Early]
  /\ kind \in [Tasks -> Kinds \cup {"none"}]
  /\ mask \in [Tasks -> SUBSET Cpu] /\ todo \in [Tasks -> SUBSET Cpu]
  /\ queued \in [Tasks -> SUBSET Cpu] /\ ran \in [Tasks -> SUBSET Cpu]
  /\ lglock \in [Cpu -> Tasks \cup {None}]
  /\ stop_cpus_mutex \in Tasks \cup {None}
  /\ readers \subseteq Tasks /\ writer \in Tasks \cup {None}

(* A stopper executes a work exactly where it should, and no work twice. *)
StopperInv(c) ==
  /\ work[c] = None <=> spc[c] \in {"main", "parked", "repeat"}
  /\ work[c] # None =>
       spc[c] \in IF Multi(work[c]) THEN Loop \cup Past ELSE {"plain", "signal", "complete"}
  /\ spc[c] = "parked" => c \notin enabled
  /\ c \notin enabled /\ spc[c] \in {"main", "parked"} => works[c] = <<>>
  /\ \A i, j \in 1 .. Len(works[c]) : works[c][i] = works[c][j] => i = j
  /\ \A i \in 1 .. Len(works[c]) : works[c][i] # work[c]
  /\ /\ work[c] # None /\ spc[c] \in Loop \cup {"leave"}
     /\ curstate[c] >= MULTI_STOP_DISABLE_IRQ
     => c \notin irqs

(* Which call stands where, and what it holds there. *)
TaskInv(t) ==
  /\ pc[t] = "idle" <=> kind[t] = "none"
  /\ kind[t] # "up"
  /\ pc[t] \in {"mutex", "queue", "unlock", "put"} => kind[t] \in Global
  /\ pc[t] = "one_queue" => kind[t] = "one" /\ \E c \in Cpu : mask[t] = {c}
  /\ pc[t] = "two_queue" => kind[t] = "two"
  /\ pc[t] = "lg_lock" => kind[t] \in Global \cup {"two"}
  /\ stop_cpus_mutex = t <=>
       kind[t] \in Global /\ pc[t] \in {"lg_lock", "queue", "wait", "unlock"}
  /\ kind[t] = "none" => ran[t] = {}

(* The parts of stop_cpus_lock that it has taken. *)
LgInv(t) ==
  /\ pc[t] = "lg_lock" =>
       \A c \in (IF kind[t] = "two" THEN mask[t] ELSE Cpu) \ todo[t] : lglock[c] = t
  /\ pc[t] = "two_queue" => \A c \in mask[t] : lglock[c] = t
  /\ pc[t] = "queue" => \A c \in Cpu : lglock[c] = t

(* What it has queued. *)
ListInv(t) ==
  /\ queued[t] \subseteq mask[t]
  /\ pc[t] \in Early \cup {"idle", "mutex"} => queued[t] = {}
  /\ pc[t] = "queue" => todo[t] \subseteq mask[t] \ queued[t]
  /\ \A c \in Cpu : work[c] = t \/ Listed(c, t) => c \in queued[t]

(* Cpu hotplug is held off by whoever counts on the cpus that are online. *)
HotplugInv ==
  /\ enabled = online /\ online # {}
  /\ readers # {} => writer = None
  /\ \A t \in Tasks :
       /\ t \in readers <=> kind[t] = "machine"
       /\ writer = t <=> kind[t] = "down"
       /\ kind[t] = "down" => online \ active[t] # {}
       /\ kind[t] \in {"machine", "down"} =>
            /\ pc[t] \in {"mutex", "lg_lock"} => mask[t] = online
            /\ pc[t] = "queue" => todo[t] \subseteq online

(* cpu_stop_done *)
DoneInv(t) ==
  /\ pc[t] \notin {"idle", "mutex"} => nr_todo[t] = Cardinality(Left(t))
  /\ pc[t] \in {"idle", "mutex"} => nr_todo[t] = 0
  /\ t \in completed => /\ Left(t) = {} /\ pc[t] \in {"queue", "wait", "unlock", "put"}
                        /\ \A c \in Cpu : work[c] # t
  /\ \A c \in Cpu : work[c] = t /\ spc[c] = "complete" =>
       Left(t) = {} /\ \A d \in Cpu : work[d] = t => d = c
  /\ pc[t] \in {"unlock", "put"} => t \in completed \/ queued[t] = {}

(* multi_stop_data: on each cpu, ... *)
InLoop(c, t) ==
  /\ spc[c] = "poll" => curstate[c] \in {state[t] - 1, state[t]}
                        /\ curstate[c] < MULTI_STOP_EXIT
  /\ spc[c] = "run" => curstate[c] = MULTI_STOP_RUN /\ c \in active[t]
  /\ spc[c] \in {"run", "ack", "reset", "set"} => curstate[c] = state[t]
  /\ spc[c] \in Past => curstate[c] = MULTI_STOP_EXIT /\ state[t] >= MULTI_STOP_EXIT
  /\ spc[c] \in Loop => state[t] <= MULTI_STOP_EXIT

(* ... and for all of them. *)
MultiInv(t) ==
  /\ state[t] \in MULTI_STOP_PREPARE .. MULTI_STOP_EXIT + 1
  /\ num_threads[t] = Cardinality(mask[t])
  /\ \A c \in mask[t] :
       /\ Behind(c, t) => state[t] = MULTI_STOP_PREPARE
       /\ ~Behind(c, t) /\ work[c] # t => state[t] >= MULTI_STOP_EXIT
       /\ work[c] = t => InLoop(c, t)
  /\ \A c, d \in mask[t] :
       work[c] = t /\ work[d] = t /\ {spc[c], spc[d]} \subseteq {"reset", "set"} => c = d
  /\ \A c \in mask[t] :
       /\ work[c] = t /\ spc[c] = "reset" => Unacked(t) = {} /\ thread_ack[t] = 0
       /\ work[c] = t /\ spc[c] = "set" => Unacked(t) = {} /\ thread_ack[t] = num_threads[t]
  /\ state[t] > MULTI_STOP_EXIT => thread_ack[t] = num_threads[t]
  /\ state[t] <= MULTI_STOP_EXIT /\ ~(\E c \in mask[t] : work[c] = t /\ spc[c] = "set")
       => thread_ack[t] = Cardinality(Unacked(t))

(* A plain function runs on every cpu of the call. *)
PlainInv(t) ==
  /\ active[t] = mask[t]
  /\ thread_ack[t] = 0 /\ num_threads[t] = 0 /\ state[t] = MULTI_STOP_NONE

RanInv(t) ==
  \A c \in Cpu : c \in ran[t] <=> c \in queued[t] \cap active[t] /\ Executed(c, t)

(* While one call queues its works, with every part of stop_cpus_lock, no other
   that waits for several cpus gets behind it. *)
QueueingFirst ==
  \A t, u \in Tasks : \A c \in Cpu :
    pc[t] = "queue" /\ Multi(t) /\ Multi(u) /\ t # u => ~Before(c, t, u)

CallInv(t) ==
  /\ TaskInv(t) /\ LgInv(t) /\ ListInv(t) /\ DoneInv(t) /\ RanInv(t)
  /\ IF Multi(t) THEN MultiInv(t) ELSE PlainInv(t)

(* The invariant that every step keeps. *)
StopInv ==
  /\ Types /\ HotplugInv /\ NoReverseOrder /\ QueueingFirst
  /\ \A c \in Cpu : StopperInv(c)
  /\ \A t \in Tasks : CallInv(t)


----------------------------------------------------------------------------
\* Sets of cpus

LEMMA Cpus ==
  ASSUME NEW S \in SUBSET Cpu
  PROVE  /\ IsFiniteSet(S) /\ Cardinality(S) \in 0 .. NCpu
         /\ Cardinality(S) = 0 => S = {}
         /\ S # {} => Cardinality(S) > 0
<1>1. IsFiniteSet(Cpu) /\ Cardinality(Cpu) = NCpu
  BY StopAssumption, FS_Interval, 1 \in Int, NCpu \in Int DEF Cpu
<1>2. IsFiniteSet(S) /\ Cardinality(S) <= NCpu
  BY <1>1, FS_Subset
<1> QED BY <1>2, StopAssumption, FS_CardinalityType, FS_EmptySet

LEMMA OneCpuLess ==
  ASSUME NEW S \in SUBSET Cpu, NEW c \in S
  PROVE  /\ Cardinality(S \ {c}) = Cardinality(S) - 1
         /\ Cardinality(S) = 1 => S = {c}
<1>1. Cardinality(S \ {c}) = Cardinality(S) - 1
  BY Cpus, FS_RemoveElement
<1>2. Cardinality(S) = 1 => S \ {c} = {}
  BY <1>1, Cpus, S \ {c} \in SUBSET Cpu
<1> QED BY <1>1, <1>2

(* for_each_cpu() and lg_global_lock() begin with a cpu of the set. *)
LEMMA FirstCpu ==
  ASSUME NEW S \in SUBSET Cpu, S # {}
  PROVE  Min(S) \in S
<1> DEFINE R == OpToRel(<, Nat)
<1>1. IsWellFoundedOn(R, Nat)
  BY NatLessThanWellFounded, Zenon
<1>2. S \subseteq Nat
  BY StopAssumption DEF Cpu
<1> HIDE DEF R
<1>3. PICK x \in S : \A y \in S : ~(<<y, x>> \in R)
  BY <1>1, <1>2, WFMin
<1>4. ASSUME NEW y \in S
      PROVE  x <= y
  <2>1. ~(y < x)
    BY <1>2, <1>3 DEF R, OpToRel
  <2> QED BY <1>2, <2>1
<1>5. \E z \in S : \A y \in S : z <= y
  BY <1>4
<1> QED BY <1>5, Zenon DEF Min


----------------------------------------------------------------------------
\* What a step leaves alone

(* The call's own variables, ... *)
Own(t) ==
  /\ pc'[t] = pc[t] /\ kind'[t] = kind[t] /\ mask'[t] = mask[t] /\ todo'[t] = todo[t]
  /\ queued'[t] = queued[t] /\ active'[t] = active[t] /\ state'[t] = state[t]
  /\ thread_ack'[t] = thread_ack[t] /\ num_threads'[t] = num_threads[t]
  /\ nr_todo'[t] = nr_todo[t] /\ ran'[t] = ran[t]
  /\ t \in completed' <=> t \in completed
  /\ stop_cpus_mutex' = t <=> stop_cpus_mutex = t
  /\ \A c \in Cpu : lglock[c] = t => lglock'[c] = t

(* ... and its work on cpu c. *)
SameOn(c, t) ==
  /\ work'[c] = t <=> work[c] = t
  /\ Listed(c, t)' <=> Listed(c, t)
  /\ work[c] = t => spc'[c] = spc[c] /\ curstate'[c] = curstate[c]

(* Both make up the call. *)
LEMMA FrameCall ==
  ASSUME Types, NEW t \in Tasks, CallInv(t), Own(t), \A c \in Cpu : SameOn(c, t)
  PROVE  CallInv(t)'
<1>t. mask[t] \subseteq Cpu /\ queued[t] \subseteq Cpu /\ active[t] \subseteq Cpu
  BY DEF Types
<1>m. Multi(t)' <=> Multi(t)
  BY DEF Own, Multi
<1>1. \A c \in Cpu : /\ Pending(c, t)' <=> Pending(c, t)
                     /\ Behind(c, t)' <=> Behind(c, t)
                     /\ Executed(c, t)' <=> Executed(c, t)
  BY <1>m DEF Own, SameOn, Pending, Behind, Executed
<1>2. Left(t)' = Left(t)
  BY <1>t, <1>1 DEF Own, SameOn, Left
<1>3. Unacked(t)' = Unacked(t)
  BY <1>t, <1>1 DEF Own, SameOn, Unacked
<1>4. TaskInv(t)'
  BY DEF CallInv, TaskInv, Own
<1>5. LgInv(t)'
  BY <1>t DEF CallInv, LgInv, Own
<1>6. ListInv(t)'
  BY DEF CallInv, ListInv, Own, SameOn
<1>7. DoneInv(t)'
  BY <1>2 DEF CallInv, DoneInv, Own, SameOn
<1>8. RanInv(t)'
  BY <1>1 DEF CallInv, RanInv, Own
<1>9. ASSUME Multi(t) PROVE MultiInv(t)'
  <2> USE DEF Own, SameOn
  <2>0. MultiInv(t)
    BY <1>9 DEF CallInv
  <2>1. ASSUME NEW c \in mask[t], work[c] = t
        PROVE  InLoop(c, t)'
    BY <1>t, <2>0, <2>1 DEF MultiInv, InLoop
  <2>2. \A c \in mask[t] :
          /\ Behind(c, t)' => state'[t] = MULTI_STOP_PREPARE
          /\ ~Behind(c, t)' /\ work'[c] # t => state'[t] >= MULTI_STOP_EXIT
          /\ work'[c] = t => InLoop(c, t)'
    BY <1>t, <1>1, <2>0, <2>1 DEF MultiInv
  <2>3. \A c, d \in mask[t] :
          work'[c] = t /\ work'[d] = t /\ {spc'[c], spc'[d]} \subseteq {"reset", "set"} => c = d
    BY <1>t, <2>0 DEF MultiInv
  <2>4. \A c \in mask[t] :
          /\ work'[c] = t /\ spc'[c] = "reset" => Unacked(t)' = {} /\ thread_ack'[t] = 0
          /\ work'[c] = t /\ spc'[c] = "set" => Unacked(t)' = {} /\ thread_ack'[t] = num_threads'[t]
    BY <1>t, <1>3, <2>0 DEF MultiInv
  <2>5. /\ state'[t] > MULTI_STOP_EXIT => thread_ack'[t] = num_threads'[t]
        /\ state'[t] <= MULTI_STOP_EXIT /\ ~(\E c \in mask[t] : work'[c] = t /\ spc'[c] = "set")
             => thread_ack'[t] = Cardinality(Unacked(t)')
    BY <1>t, <1>3, <2>0 DEF MultiInv
  <2>6. state'[t] \in MULTI_STOP_PREPARE .. MULTI_STOP_EXIT + 1
        /\ num_threads'[t] = Cardinality(mask'[t]) /\ mask'[t] = mask[t]
    BY <2>0 DEF MultiInv
  <2> HIDE DEF Own, SameOn
  <2> QED BY <2>2, <2>3, <2>4, <2>5, <2>6 DEF MultiInv
<1>10. ASSUME ~Multi(t) PROVE PlainInv(t)'
  BY <1>10 DEF CallInv, PlainInv, Own
<1> QED BY <1>m, <1>4, <1>5, <1>6, <1>7, <1>8, <1>9, <1>10 DEF CallInv


----------------------------------------------------------------------------
\* A call on one of its cpus

(* While a stopper executes a work, the call it belongs to has it queued there and
   nowhere else on that cpu, and its state is one that the loop can be in. *)
LEMMA Executing ==
  ASSUME StopInv, NEW c \in Cpu, work[c] # None
  PROVE  /\ work[c] \in Tasks /\ CallInv(work[c])
         /\ c \in queued[work[c]] /\ c \in mask[work[c]]
         /\ ~Listed(c, work[c]) /\ ~Pending(c, work[c]) /\ ~Behind(c, work[c])
         /\ pc[work[c]] \in {"queue", "wait", "unlock", "put"} /\ work[c] \notin completed
         /\ Multi(work[c]) => /\ MultiInv(work[c]) /\ InLoop(c, work[c])
                              /\ spc[c] \in Loop \cup Past
         /\ ~Multi(work[c]) => /\ PlainInv(work[c])
                               /\ spc[c] \in {"plain", "signal", "complete"}
<1> DEFINE t == work[c]
<1>1. t \in Tasks
  BY DEF StopInv, Types
<1>2. CallInv(t)
  BY <1>1 DEF StopInv
<1>3. c \in queued[t] /\ c \in mask[t] /\ pc[t] \in {"queue", "wait", "unlock", "put"}
  BY <1>1, <1>2 DEF CallInv, ListInv, StopInv, Types, Early
<1>4. ~Listed(c, t)
  BY DEF StopInv, StopperInv, Listed
<1>5. ~Pending(c, t) /\ ~Behind(c, t)
  BY <1>2, <1>3, <1>4 DEF CallInv, ListInv, Pending, Behind, Early
<1>6. t \notin completed
  BY <1>2 DEF CallInv, DoneInv
<1> QED BY <1>1, <1>2, <1>3, <1>4, <1>5, <1>6
        DEF CallInv, MultiInv, StopInv, StopperInv

----------------------------------------------------------------------------
\* Types

LEMMA TypesTask ==
  ASSUME Types, HotplugInv, NEW t \in Tasks, Call(t) \/ Step(t)
  PROVE  Types'
<1> USE StopAssumption DEF Types, Kinds, Goto, stoppers, msdata, done, call, locks, hotplug,
        MULTI_STOP_NONE, MULTI_STOP_PREPARE, MULTI_STOP_EXIT, Loop, Past, Early
<1>c. \A S \in SUBSET Cpu : Cardinality(S) \in Int
  BY Cpus
<1>q. ASSUME NEW cpu \in Cpu, QueueOn(t, cpu)
      PROVE  /\ works' \in [Cpu -> Seq(Tasks)] /\ queued' \in [Tasks -> SUBSET Cpu]
             /\ nr_todo' \in [Tasks -> Int] /\ completed' \subseteq Tasks
  <2> DEFINE s == Append(works[cpu], t)
  <2>1. s \in Seq(Tasks)
    BY AppendProperties
  <2>2. CASE cpu \in enabled
    <3>1. /\ works' = [works EXCEPT ![cpu] = s]
          /\ queued' = [queued EXCEPT ![t] = @ \cup {cpu}]
          /\ nr_todo' = nr_todo /\ completed' = completed
      BY <1>q, <2>2 DEF QueueOn
    <3> HIDE DEF s
    <3> QED BY <2>1, <3>1
  <2>3. CASE cpu \notin enabled
    BY <1>q, <2>3 DEF QueueOn
  <2> QED BY <2>2, <2>3
<1>r. ASSUME NEW here \in {"mutex", "one_queue", "two_queue", "wait", "put"}, Return(t, here)
      PROVE  /\ mask' \in [Tasks -> SUBSET Cpu] /\ todo' \in [Tasks -> SUBSET Cpu]
             /\ queued' \in [Tasks -> SUBSET Cpu] /\ ran' \in [Tasks -> SUBSET Cpu]
             /\ active' \in [Tasks -> SUBSET Cpu] /\ completed' \subseteq Tasks
             /\ pc' = [pc EXCEPT ![t] = "idle"] /\ kind' = [kind EXCEPT ![t] = "none"]
             /\ state' \in [Tasks -> MULTI_STOP_NONE .. MULTI_STOP_EXIT + 1]
             /\ thread_ack' \in [Tasks -> Int] /\ num_threads' \in [Tasks -> Int]
             /\ nr_todo' \in [Tasks -> Int]
  <2>1. /\ mask' \in [Tasks -> SUBSET Cpu] /\ todo' \in [Tasks -> SUBSET Cpu]
        /\ queued' \in [Tasks -> SUBSET Cpu] /\ ran' \in [Tasks -> SUBSET Cpu]
        /\ active' \in [Tasks -> SUBSET Cpu] /\ completed' \subseteq Tasks
    BY <1>r DEF Return
  <2>2. pc' = [pc EXCEPT ![t] = "idle"] /\ kind' = [kind EXCEPT ![t] = "none"]
    BY <1>r DEF Return
  <2>3. /\ state' \in [Tasks -> MULTI_STOP_NONE .. MULTI_STOP_EXIT + 1]
        /\ thread_ack' \in [Tasks -> Int] /\ num_threads' \in [Tasks -> Int]
        /\ nr_todo' \in [Tasks -> Int]
    BY <1>r DEF Return
  <2> QED BY <2>1, <2>2, <2>3
<1>1. ASSUME NEW cpu \in Cpu, StopOneCpu(t, cpu)
      PROVE  Types'
  BY <1>1 DEF StopOneCpu, Begin
<1>2. ASSUME NEW cpu \in Cpu, CpuDown(t, cpu)
      PROVE  Types'
  BY <1>2, <1>c DEF CpuDown, Begin, Prepare
<1>3. ASSUME NEW cpu \in Cpu, CpuUp(t, cpu)
      PROVE  Types'
  BY <1>3 DEF CpuUp
<1>4. ASSUME NEW c1 \in Cpu, NEW c2 \in Cpu, StopTwoCpus(t, c1, c2)
      PROVE  Types'
  <2> DEFINE both == {c1, c2}
             one == {c1}
  <2>1. both \in SUBSET Cpu /\ one \in SUBSET Cpu
    OBVIOUS
  <2>2. /\ mask' = [mask EXCEPT ![t] = both] /\ todo' = [todo EXCEPT ![t] = both]
        /\ active' = [active EXCEPT ![t] = one]
    BY <1>4 DEF StopTwoCpus, Begin, Prepare
  <2> HIDE DEF both, one
  <2>3. /\ mask' \in [Tasks -> SUBSET Cpu] /\ todo' \in [Tasks -> SUBSET Cpu]
        /\ active' \in [Tasks -> SUBSET Cpu]
    BY <2>1, <2>2
  <2>4. /\ state' \in [Tasks -> MULTI_STOP_NONE .. MULTI_STOP_EXIT + 1]
        /\ thread_ack' \in [Tasks -> Int] /\ num_threads' \in [Tasks -> Int]
        /\ nr_todo' \in [Tasks -> Int]
    BY <1>4 DEF StopTwoCpus, Prepare
  <2>5. /\ pc' = [pc EXCEPT ![t] = "lg_lock"] /\ kind' = [kind EXCEPT ![t] = "two"]
        /\ UNCHANGED <<enabled, online, works, stoppers, locks, hotplug, queued, ran, completed>>
    BY <1>4 DEF StopTwoCpus, Begin, Prepare
  <2> QED BY <2>3, <2>4, <2>5
<1>5. ASSUME NEW k \in Kinds, NEW cpus \in SUBSET Cpu, StopCpus(t, k, cpus)
      PROVE  Types'
  BY <1>5 DEF StopCpus, Begin
<1>6. ASSUME NEW cpus \in SUBSET Cpu, StopMachine(t, cpus)
      PROVE  Types'
  BY <1>6, <1>c DEF StopMachine, Begin, Prepare
<1>7. ASSUME Mutex(t)
      PROVE  Types'
  BY <1>7, <1>c DEF Mutex
<1>8. ASSUME TryFails(t)
      PROVE  Types'
  BY <1>8, <1>r DEF TryFails
<1>9. ASSUME LgLock(t)
      PROVE  Types'
  BY <1>9 DEF LgLock
<1>10. ASSUME LgLocked(t)
       PROVE  Types'
  BY <1>10 DEF LgLocked
<1>11. ASSUME OneQueue(t)
       PROVE  Types'
  BY <1>11, <1>q DEF OneQueue
<1>12. ASSUME OneNoEntry(t)
       PROVE  Types'
  BY <1>12, <1>r DEF OneNoEntry
<1>13. ASSUME Queue(t)
       PROVE  Types'
  BY <1>13, <1>q, FirstCpu DEF Queue
<1>14. ASSUME QueueDone(t)
       PROVE  Types'
  BY <1>14 DEF QueueDone, LgUnlock
<1>15. ASSUME TwoQueue(t)
       PROVE  Types'
  BY <1>15 DEF TwoQueue, LgUnlock
<1>16. ASSUME TwoNoEntry(t)
       PROVE  Types'
  BY <1>16, <1>r DEF TwoNoEntry, LgUnlock
<1>17. ASSUME Wait(t)
       PROVE  Types'
  BY <1>17 DEF Wait
<1>18. ASSUME WaitReturn(t)
       PROVE  Types'
  BY <1>18, <1>r DEF WaitReturn
<1>19. ASSUME Unlock(t)
       PROVE  Types'
  BY <1>19 DEF Unlock
<1>20. ASSUME PutOnlineCpus(t)
       PROVE  Types'
  BY <1>20, <1>r DEF PutOnlineCpus
<1>o. online \in SUBSET Cpu /\ {Min(online)} \in SUBSET Cpu
  <2>1. online \in SUBSET Cpu /\ online # {}
    BY DEF HotplugInv
  <2>2. Min(online) \in online
    BY <2>1, FirstCpu
  <2> QED BY <2>1, <2>2
<1> HIDE DEF Types, Kinds, Goto, stoppers, msdata, done, call, locks, hotplug,
        MULTI_STOP_NONE, MULTI_STOP_PREPARE, MULTI_STOP_EXIT, Loop, Past, Early
<1> QED BY <1>1, <1>2, <1>3, <1>4, <1>5, <1>6, <1>7, <1>8, <1>9, <1>10, <1>11, <1>12, <1>13, <1>14, <1>15, <1>16, <1>17, <1>18, <1>19, <1>20,
           <1>o
     DEF Call, Step

LEMMA TypesStopper ==
  ASSUME StopInv, NEW c \in Cpu, StopperStep(c)
  PROVE  Types'
<1> USE StopAssumption DEF Types, Stopper, stoppers, msdata, done, call, locks, hotplug,
        MULTI_STOP_NONE, MULTI_STOP_PREPARE, MULTI_STOP_EXIT, Loop, Past, Early
<1>t. Types
  BY DEF StopInv
<1>w. spc[c] \notin {"main", "parked", "repeat"} => work[c] \in Tasks
  BY DEF StopInv, StopperInv
<1>p. spc[c] = "poll" => state[work[c]] \in MULTI_STOP_PREPARE .. MULTI_STOP_EXIT
  <2>1. ASSUME spc[c] = "poll" PROVE work[c] # None /\ Multi(work[c])
    BY <2>1 DEF StopInv, StopperInv
  <2>2. ASSUME spc[c] = "poll"
        PROVE  MultiInv(work[c]) /\ InLoop(c, work[c])
    BY <2>1, <2>2, Executing
  <2> QED BY <2>2 DEF MultiInv, InLoop
<1>1. ASSUME Park(c)
      PROVE  Types'
  BY <1>1, <1>t, <1>w DEF Park
<1>2. ASSUME ShouldRun(c)
      PROVE  Types'
  BY <1>2, <1>t, <1>w DEF ShouldRun
<1>3. ASSUME Take(c)
      PROVE  Types'
  <2>1. works[c] \in Seq(Tasks) /\ works[c] # <<>>
    BY <1>3, <1>t DEF Take
  <2> DEFINE h == Head(works[c])
             l == Tail(works[c])
  <2>2. h \in Tasks /\ l \in Seq(Tasks)
    BY <2>1, HeadTailProperties
  <2>3. /\ works' = [works EXCEPT ![c] = l]
        /\ work' = [work EXCEPT ![c] = h]
        /\ curstate' = [curstate EXCEPT ![c] = MULTI_STOP_NONE]
        /\ \/ spc' = [spc EXCEPT ![c] = "poll"]
           \/ spc' = [spc EXCEPT ![c] = "plain"]
        /\ UNCHANGED <<enabled, online, irqs, msdata, done, pc, call, locks, hotplug, ran>>
    BY <1>3 DEF Take
  <2> HIDE DEF h, l
  <2>4. works' \in [Cpu -> Seq(Tasks)]
    BY <1>t, <2>2, <2>3
  <2>5. work' \in [Cpu -> Tasks \cup {None}]
    BY <1>t, <2>2, <2>3
  <2>6. spc' \in [Cpu -> {"main", "parked", "repeat", "plain"} \cup Loop \cup Past]
    BY <1>t, <2>3
  <2>7. curstate' \in [Cpu -> MULTI_STOP_NONE .. MULTI_STOP_EXIT]
    BY <1>t, <2>3
  <2> QED BY <1>t, <2>3, <2>4, <2>5, <2>6, <2>7
<1>4. ASSUME NothingLeft(c)
      PROVE  Types'
  BY <1>4, <1>t, <1>w DEF NothingLeft
<1>5. ASSUME Plain(c)
      PROVE  Types'
  BY <1>5, <1>t, <1>w DEF Plain
<1>6. ASSUME Poll(c)
      PROVE  Types'
  <2>1. /\ spc' = [spc EXCEPT ![c] = "run"] \/ spc' = [spc EXCEPT ![c] = "ack"]
        /\ curstate' = [curstate EXCEPT ![c] = state[work[c]]]
        /\ irqs' \subseteq irqs
        /\ UNCHANGED <<enabled, online, works, work, msdata, done, pc, call, locks,
                       hotplug, ran>>
    BY <1>6 DEF Poll
  <2>2. spc' \in [Cpu -> {"main", "parked", "repeat", "plain"} \cup Loop \cup Past]
    BY <1>t, <2>1
  <2>3. curstate' \in [Cpu -> MULTI_STOP_NONE .. MULTI_STOP_EXIT]
    BY <1>6, <1>t, <1>w, <1>p, <2>1 DEF Poll
  <2> QED BY <1>t, <2>1, <2>2, <2>3
<1>7. ASSUME Run(c)
      PROVE  Types'
  BY <1>7, <1>t, <1>w DEF Run
<1>8. ASSUME AckState(c)
      PROVE  Types'
  <2>1. AfterAck(c) \in {"leave", "poll"} /\ work[c] \in Tasks
    BY <1>8, <1>w DEF AckState, AfterAck
  <2>2. \E l \in {"reset", "leave", "poll"} : spc' = [spc EXCEPT ![c] = l]
    BY <1>8, <2>1 DEF AckState
  <2>3. spc' \in [Cpu -> {"main", "parked", "repeat", "plain"} \cup Loop \cup Past]
    BY <1>t, <2>2
  <2>4. thread_ack' \in [Tasks -> Int]
    <3>1. thread_ack' = [thread_ack EXCEPT ![work[c]] = thread_ack[work[c]] - 1]
      BY <1>8 DEF AckState
    <3>2. thread_ack[work[c]] - 1 \in Int
      BY <1>t, <2>1
    <3> QED BY <1>t, <2>1, <3>1, <3>2
  <2> QED BY <1>8, <1>t, <2>3, <2>4 DEF AckState
<1>9. ASSUME Reset(c)
      PROVE  Types'
  BY <1>9, <1>t, <1>w DEF Reset
<1>10. ASSUME SetState(c)
       PROVE  Types'
  <2>1. AfterAck(c) \in {"leave", "poll"} /\ work[c] \in Tasks
    BY <1>10, <1>w DEF SetState, AfterAck
  <2>2. curstate[c] + 1 \in MULTI_STOP_NONE .. MULTI_STOP_EXIT + 1
    <3>1. curstate[c] \in MULTI_STOP_NONE .. MULTI_STOP_EXIT
      BY <1>t
    <3> QED BY <3>1
  <2> QED BY <1>10, <1>t, <2>1, <2>2 DEF SetState
<1>11. ASSUME Leave(c)
       PROVE  Types'
  BY <1>11, <1>t, <1>w DEF Leave
<1>12. ASSUME Signal(c)
       PROVE  Types'
  <2>1. work[c] \in Tasks
    BY <1>12, <1>w DEF Signal
  <2>2. nr_todo' \in [Tasks -> Int]
    <3>1. nr_todo' = [nr_todo EXCEPT ![work[c]] = nr_todo[work[c]] - 1]
      BY <1>12 DEF Signal
    <3>2. nr_todo[work[c]] - 1 \in Int
      BY <1>t, <2>1
    <3> QED BY <1>t, <2>1, <3>1, <3>2
  <2>3. spc' \in [Cpu -> {"main", "parked", "repeat", "plain"} \cup Loop \cup Past]
    <3>1. \E l \in {"complete", "repeat"} : spc' = [spc EXCEPT ![c] = l]
      BY <1>12 DEF Signal
    <3> QED BY <1>t, <3>1
  <2>4. work' \in [Cpu -> Tasks \cup {None}]
    BY <1>12, <1>t DEF Signal
  <2> QED BY <1>12, <1>t, <2>2, <2>3, <2>4 DEF Signal
<1>13. ASSUME Complete(c)
       PROVE  Types'
  BY <1>13, <1>t, <1>w DEF Complete
<1> HIDE DEF Types, Stopper, stoppers, msdata, done, call, locks, hotplug,
        MULTI_STOP_NONE, MULTI_STOP_PREPARE, MULTI_STOP_EXIT, Loop, Past, Early
<1> QED BY <1>1, <1>2, <1>3, <1>4, <1>5, <1>6, <1>7, <1>8, <1>9, <1>10, <1>11, <1>12, <1>13
     DEF StopperStep


----------------------------------------------------------------------------
\* The steps of a stopper

(* It leaves the other stoppers alone, the tasks' places and their queueing, ... *)
LEMMA StopperLocal ==
  ASSUME Types, NEW c \in Cpu, StopperStep(c)
  PROVE  /\ UNCHANGED <<pc, kind, mask, todo, queued, active, num_threads, lglock,
                        stop_cpus_mutex, readers, writer>>
         /\ \A d \in Cpu \ {c} :
              /\ works'[d] = works[d] /\ work'[d] = work[d]
              /\ spc'[d] = spc[d] /\ curstate'[d] = curstate[d]
              /\ d \in irqs' <=> d \in irqs
<1> USE DEF Types, Stopper, stoppers, msdata, done, call, locks, hotplug
<1>1. CASE Park(c)
  BY <1>1 DEF Park
<1>2. CASE ShouldRun(c)
  BY <1>2 DEF ShouldRun
<1>3. CASE Take(c)
  BY <1>3 DEF Take
<1>4. CASE NothingLeft(c)
  BY <1>4 DEF NothingLeft
<1>5. CASE Plain(c)
  BY <1>5 DEF Plain
<1>6. CASE Poll(c)
  BY <1>6 DEF Poll
<1>7. CASE Run(c)
  BY <1>7 DEF Run
<1>8. CASE AckState(c)
  BY <1>8 DEF AckState
<1>9. CASE Reset(c)
  BY <1>9 DEF Reset
<1>10. CASE SetState(c)
  BY <1>10 DEF SetState
<1>11. CASE Leave(c)
  BY <1>11 DEF Leave
<1>12. CASE Signal(c)
  BY <1>12 DEF Signal
<1>13. CASE Complete(c)
  BY <1>13 DEF Complete
<1> QED BY <1>1, <1>2, <1>3, <1>4, <1>5, <1>6, <1>7, <1>8, <1>9, <1>10, <1>11, <1>12,
           <1>13 DEF StopperStep

(* ... and the calls whose work it does not execute. *)
LEMMA StopperOwn ==
  ASSUME Types, NEW c \in Cpu, StopperStep(c), NEW u \in Tasks, u # work[c]
  PROVE  Own(u)
<1>1. UNCHANGED <<pc, kind, mask, todo, queued, active, num_threads, lglock,
                  stop_cpus_mutex>>
  BY StopperLocal
<1>2. /\ state'[u] = state[u] /\ thread_ack'[u] = thread_ack[u]
      /\ nr_todo'[u] = nr_todo[u] /\ ran'[u] = ran[u]
      /\ u \in completed' <=> u \in completed
  <2> USE DEF Types, stoppers, msdata, done, call, locks
  <2>1. CASE Park(c) \/ ShouldRun(c) \/ Take(c) \/ NothingLeft(c) \/ Poll(c) \/ Leave(c)
    BY <2>1 DEF Park, ShouldRun, Take, NothingLeft, Poll, Leave
  <2>2. CASE Plain(c) \/ Run(c)
    BY <2>2 DEF Plain, Run
  <2>3. CASE AckState(c) \/ Reset(c) \/ SetState(c)
    BY <2>3 DEF AckState, Reset, SetState
  <2>4. CASE Signal(c) \/ Complete(c)
    BY <2>4 DEF Signal, Complete
  <2> QED BY <2>1, <2>2, <2>3, <2>4 DEF StopperStep
<1> QED BY <1>1, <1>2 DEF Own

LEMMA TakeList ==
  ASSUME Types, NEW c \in Cpu, Take(c)
  PROVE  /\ Head(works[c]) \in Tasks /\ work'[c] = Head(works[c])
         /\ Len(works[c]) \in Nat \ {0} /\ works[c][1] = Head(works[c])
         /\ Len(works'[c]) = Len(works[c]) - 1
         /\ \A i \in 1 .. Len(works[c]) - 1 : works'[c][i] = works[c][i + 1]
         /\ spc[c] = "repeat" /\ curstate'[c] = MULTI_STOP_NONE
         /\ spc'[c] = IF Multi(Head(works[c])) THEN "poll" ELSE "plain"
<1>1. works[c] \in Seq(Tasks) /\ works[c] # <<>> /\ works'[c] = Tail(works[c])
  BY DEF Take, Types
<1>2. /\ Head(works[c]) \in Tasks /\ Len(Tail(works[c])) = Len(works[c]) - 1
      /\ \A i \in 1 .. Len(Tail(works[c])) : Tail(works[c])[i] = works[c][i + 1]
  BY <1>1, HeadTailProperties
<1>3. Len(works[c]) \in Nat \ {0} /\ works[c][1] = Head(works[c])
  BY <1>1
<1>4. /\ work'[c] = Head(works[c]) /\ spc[c] = "repeat" /\ curstate'[c] = MULTI_STOP_NONE
      /\ spc'[c] = IF Multi(Head(works[c])) THEN "poll" ELSE "plain"
  BY DEF Take, Stopper, Types
<1> QED BY <1>1, <1>2, <1>3, <1>4

LEMMA StopperOthers ==
  ASSUME StopInv, NEW c \in Cpu, StopperStep(c), NEW u \in Tasks, u # work[c],
         Take(c) => u # Head(works[c])
  PROVE  CallInv(u)'
<1>1. Types /\ CallInv(u)
  BY DEF StopInv
<1>2. Own(u)
  BY <1>1, StopperOwn
<1>3. \A d \in Cpu \ {c} : SameOn(d, u)
  BY <1>1, StopperLocal DEF SameOn, Listed
<1>4. SameOn(c, u)
  <2>1. CASE Take(c)
    <3>1. Listed(c, u)' <=> Listed(c, u)
      <4>1. ASSUME NEW i \in 1 .. Len(works[c]), works[c][i] = u
            PROVE  \E j \in 1 .. Len(works'[c]) : works'[c][j] = u
        <5> DEFINE j == i - 1
        <5>1. i # 1 /\ j \in 1 .. Len(works'[c]) /\ j + 1 = i /\ j \in 1 .. Len(works[c]) - 1
          BY <1>1, <2>1, <4>1, TakeList
        <5> HIDE DEF j
        <5>2. works'[c][j] = works[c][j + 1]
          BY <1>1, <2>1, <5>1, TakeList
        <5> QED BY <4>1, <5>1, <5>2
      <4>2. ASSUME NEW j \in 1 .. Len(works'[c]), works'[c][j] = u
            PROVE  \E i \in 1 .. Len(works[c]) : works[c][i] = u
        <5>1. j + 1 \in 1 .. Len(works[c]) /\ j \in 1 .. Len(works[c]) - 1
          BY <1>1, <2>1, <4>2, TakeList
        <5> QED BY <1>1, <2>1, <4>2, <5>1, TakeList
      <4> QED BY <4>1, <4>2 DEF Listed
    <3> QED BY <1>1, <2>1, <3>1, TakeList DEF SameOn
  <2>2. CASE ~Take(c)
    <3>1. works' = works /\ work'[c] \in {work[c], None}
      BY <1>1, <2>2 DEF StopperStep, Park, ShouldRun, NothingLeft, Plain, Poll, Run, AckState,
                        Reset, SetState, Leave, Signal, Complete, stoppers, Types
    <3>2. u # None
      BY StopAssumption
    <3> QED BY <3>1, <3>2 DEF SameOn, Listed
  <2> QED BY <2>1, <2>2
<1> QED BY <1>1, <1>2, <1>3, <1>4, FrameCall


(* What a step of the stopper that executes its work leaves of a call. *)
LEMMA StopperCall ==
  ASSUME StopInv, NEW c \in Cpu, StopperStep(c), ~Take(c), NEW t \in Tasks, work[c] = t
  PROVE  /\ TaskInv(t)' /\ LgInv(t)' /\ ListInv(t)'
         /\ Multi(t)' <=> Multi(t)
         /\ \A d \in Cpu : /\ Listed(d, t)' <=> Listed(d, t)
                           /\ Pending(d, t)' <=> Pending(d, t)
                           /\ Behind(d, t)' <=> Behind(d, t)
         /\ work'[c] \in {t, None}
<1>1. Types /\ CallInv(t) /\ t # None
  BY StopAssumption DEF StopInv
<1>2. UNCHANGED <<pc, kind, mask, todo, queued, active, num_threads, lglock,
                  stop_cpus_mutex>>
  BY <1>1, StopperLocal
<1>3. works' = works /\ work'[c] \in {t, None}
  BY <1>1 DEF StopperStep, Park, ShouldRun, NothingLeft, Plain, Poll, Run, AckState,
              Reset, SetState, Leave, Signal, Complete, stoppers, Types
<1>4. \A d \in Cpu : /\ Listed(d, t)' <=> Listed(d, t)
                     /\ Pending(d, t)' <=> Pending(d, t)
                     /\ Behind(d, t)' <=> Behind(d, t)
  BY <1>2, <1>3 DEF Listed, Pending, Behind
<1>5. pc[t] # "idle" /\ kind[t] # "none"
  BY <1>1, Executing DEF CallInv, TaskInv
<1>6. TaskInv(t)'
  BY <1>1, <1>2, <1>5 DEF CallInv, TaskInv
<1>7. LgInv(t)'
  BY <1>1, <1>2 DEF CallInv, LgInv
<1>8. \A d \in Cpu : work'[d] = t => work[d] = t
  BY <1>1, StopperLocal
<1>9. ListInv(t)'
  BY <1>1, <1>2, <1>4, <1>8 DEF CallInv, ListInv
<1> QED BY <1>2, <1>3, <1>4, <1>6, <1>7, <1>9 DEF Multi

(* As long as its work is not signalled, the cpu_stop_done stays as it is. *)
LEMMA StopperDone ==
  ASSUME StopInv, NEW c \in Cpu, StopperStep(c), ~Take(c), NEW t \in Tasks, work[c] = t,
         work'[c] = t, spc[c] # "complete", spc'[c] # "complete",
         nr_todo' = nr_todo, completed' = completed
  PROVE  DoneInv(t)'
<1>1. Types /\ DoneInv(t) /\ mask[t] \subseteq Cpu
  BY DEF StopInv, CallInv, Types
<1>2. /\ UNCHANGED <<pc, mask, queued>>
      /\ \A d \in Cpu \ {c} : work'[d] = work[d] /\ spc'[d] = spc[d]
  BY <1>1, StopperLocal
<1>3. \A d \in Cpu : /\ Listed(d, t)' <=> Listed(d, t)
                     /\ Pending(d, t)' <=> Pending(d, t)
  BY StopperCall
<1>4. Left(t)' = Left(t)
  BY <1>1, <1>2, <1>3 DEF Left
<1> QED BY <1>1, <1>2, <1>4 DEF DoneInv

(* The function that does not wait for other cpus. *)
LEMMA StopperPlain ==
  ASSUME StopInv, NEW c \in Cpu, Plain(c), NEW t \in Tasks, work[c] = t
  PROVE  CallInv(t)'
<1>1. Types /\ t # None /\ StopperStep(c) /\ ~Take(c)
  BY StopAssumption DEF StopInv, StopperStep, Plain, Take, Stopper
<1>2. /\ spc[c] = "plain" /\ spc'[c] = "signal" /\ work' = work
      /\ nr_todo' = nr_todo /\ completed' = completed
      /\ ran' = [ran EXCEPT ![t] = ran[t] \cup {c}]
      /\ UNCHANGED <<state, thread_ack, num_threads, active, mask, queued>>
  BY <1>1 DEF Plain, Stopper, stoppers, done, msdata, call, Types
<1>3. ~Multi(t) /\ PlainInv(t) /\ c \in queued[t] /\ c \in mask[t] /\ ~Listed(c, t)
  BY <1>1, <1>2, Executing DEF Loop, Past
<1>4. DoneInv(t)'
  BY <1>1, <1>2, StopperDone
<1>5. /\ TaskInv(t)' /\ LgInv(t)' /\ ListInv(t)' /\ ~Multi(t)'
      /\ \A d \in Cpu : Listed(d, t)' <=> Listed(d, t)
  BY <1>1, <1>3, StopperCall
<1>6. RanInv(t)'
  <2>1. \A d \in Cpu \ {c} : Executed(d, t)' <=> Executed(d, t)
    BY <1>1, <1>2, <1>3, <1>5, StopperLocal DEF Executed
  <2>2. Executed(c, t)'
    BY <1>2, <1>3, <1>5 DEF Executed
  <2>3. RanInv(t)
    BY DEF StopInv, CallInv
  <2>4. \A d \in Cpu \ {c} : d \in ran'[t] <=> d \in ran[t]
    BY <1>1, <1>2 DEF Types
  <2>5. c \in ran'[t] /\ c \in queued'[t] \cap active'[t]
    BY <1>1, <1>2, <1>3 DEF Types, PlainInv
  <2>6. queued'[t] = queued[t] /\ active'[t] = active[t]
    BY <1>2
  <2> QED BY <2>1, <2>2, <2>3, <2>4, <2>5, <2>6 DEF RanInv
<1>7. PlainInv(t)'
  BY <1>2, <1>3 DEF PlainInv
<1> QED BY <1>4, <1>5, <1>6, <1>7 DEF CallInv


----------------------------------------------------------------------------
\* multi_cpu_stop()

LEMMA MultiFacts ==
  ASSUME StopInv, NEW c \in Cpu, NEW t \in Tasks, work[c] = t, Multi(t)
  PROVE  /\ Types /\ CallInv(t) /\ MultiInv(t) /\ InLoop(c, t) /\ t # None
         /\ c \in mask[t] /\ c \in queued[t] /\ mask[t] \in SUBSET Cpu
         /\ ~Listed(c, t) /\ ~Behind(c, t)
         /\ state[t] \in 1 .. 5 /\ spc[c] \in Loop \cup Past
         /\ \A d \in Cpu : curstate[d] \in 0 .. 4
         /\ Unacked(t) \in SUBSET Cpu /\ thread_ack[t] \in Int
<1>1. Types /\ t # None
  BY StopAssumption DEF StopInv
<1>2. /\ CallInv(t) /\ MultiInv(t) /\ InLoop(c, t) /\ c \in mask[t] /\ c \in queued[t]
      /\ ~Listed(c, t) /\ ~Behind(c, t) /\ spc[c] \in Loop \cup Past
  BY <1>1, Executing
<1>3. /\ mask[t] \in SUBSET Cpu /\ thread_ack[t] \in Int
      /\ \A d \in Cpu : curstate[d] \in 0 .. 4
  BY <1>1 DEF Types, MULTI_STOP_NONE, MULTI_STOP_EXIT
<1>4. state[t] \in 1 .. 5
  BY <1>2 DEF MultiInv, MULTI_STOP_PREPARE, MULTI_STOP_EXIT
<1>5. Unacked(t) \in SUBSET Cpu
  BY <1>3 DEF Unacked
<1> QED BY <1>1, <1>2, <1>3, <1>4, <1>5

(* The history of a step that executes no function. *)
LEMMA RanKept ==
  ASSUME StopInv, NEW c \in Cpu, StopperStep(c), ~Take(c), NEW t \in Tasks, work[c] = t,
         ran' = ran, c \in active[t] => (Executed(c, t)' <=> Executed(c, t))
  PROVE  RanInv(t)'
<1>1. Types /\ RanInv(t)
  BY DEF StopInv, CallInv
<1>2. /\ UNCHANGED <<queued, active, kind>>
      /\ \A d \in Cpu \ {c} : work'[d] = work[d] /\ spc'[d] = spc[d] /\ curstate'[d] = curstate[d]
  BY <1>1, StopperLocal
<1>3. \A d \in Cpu : Listed(d, t)' <=> Listed(d, t)
  BY StopperCall
<1>4. \A d \in Cpu \ {c} : Executed(d, t)' <=> Executed(d, t)
  BY <1>2, <1>3 DEF Executed, Multi
<1> QED BY <1>1, <1>2, <1>4 DEF RanInv

LEMMA StopperPoll ==
  ASSUME StopInv, NEW c \in Cpu, Poll(c), NEW t \in Tasks, work[c] = t
  PROVE  CallInv(t)'
<1>1. StopperStep(c) /\ ~Take(c) /\ spc[c] = "poll"
  BY DEF StopperStep, Poll, Take, Stopper
<1>m. Multi(t)
  BY <1>1, StopAssumption DEF StopInv, StopperInv
<1>2. /\ Types /\ CallInv(t) /\ MultiInv(t) /\ InLoop(c, t) /\ t # None
      /\ c \in mask[t] /\ c \in queued[t] /\ mask[t] \in SUBSET Cpu
      /\ ~Listed(c, t) /\ ~Behind(c, t) /\ state[t] \in 1 .. 5
      /\ curstate[c] \in 0 .. 4
  BY <1>m, MultiFacts
<1>3. /\ curstate[c] = state[t] - 1 /\ curstate'[c] = state[t] /\ state[t] <= 4
      /\ spc'[c] = IF state[t] = MULTI_STOP_RUN /\ c \in active[t] THEN "run" ELSE "ack"
      /\ work' = work /\ nr_todo' = nr_todo /\ completed' = completed /\ ran' = ran
      /\ UNCHANGED <<state, thread_ack, num_threads, active, mask, queued>>
  BY <1>1, <1>2 DEF Poll, Stopper, InLoop, Types, done, msdata, call, Loop, MULTI_STOP_EXIT
<1>4. /\ TaskInv(t)' /\ LgInv(t)' /\ ListInv(t)' /\ Multi(t)'
      /\ \A d \in Cpu : /\ Listed(d, t)' <=> Listed(d, t)
                        /\ Behind(d, t)' <=> Behind(d, t)
  BY <1>1, <1>m, StopperCall
<1>5. \A d \in Cpu \ {c} : spc'[d] = spc[d] /\ curstate'[d] = curstate[d]
  BY <1>1, <1>2, StopperLocal
<1>6. DoneInv(t)'
  BY <1>1, <1>3, StopperDone
<1>7. RanInv(t)'
  <2>1. c \in active[t] => (Executed(c, t)' <=> Executed(c, t))
    BY <1>m, <1>1, <1>2, <1>3, <1>4 DEF Executed, MULTI_STOP_RUN
  <2> QED BY <1>1, <1>3, <2>1, RanKept
<1>8. MultiInv(t)'
  <2>1. Unacked(t)' = Unacked(t)
    BY <1>1, <1>2, <1>3, <1>4, <1>5 DEF Unacked
  <2>2. InLoop(c, t)'
    BY <1>2, <1>3 DEF InLoop, MULTI_STOP_RUN, MULTI_STOP_EXIT, Past, Loop
  <2>3. \A d \in mask[t] : work[d] = t => InLoop(d, t)'
    BY <1>2, <1>3, <1>5, <2>2 DEF MultiInv, InLoop
  <2> QED BY <1>1, <1>2, <1>3, <1>4, <1>5, <2>1, <2>3 DEF MultiInv
<1> QED BY <1>4, <1>6, <1>7, <1>8 DEF CallInv


LEMMA StopperRun ==
  ASSUME StopInv, NEW c \in Cpu, Run(c), NEW t \in Tasks, work[c] = t
  PROVE  CallInv(t)'
<1>1. StopperStep(c) /\ ~Take(c) /\ spc[c] = "run"
  BY DEF StopperStep, Run, Take, Stopper
<1>m. Multi(t)
  BY <1>1, StopAssumption DEF StopInv, StopperInv
<1>2. /\ Types /\ CallInv(t) /\ MultiInv(t) /\ InLoop(c, t) /\ t # None
      /\ c \in mask[t] /\ c \in queued[t] /\ mask[t] \in SUBSET Cpu
      /\ ~Listed(c, t) /\ ~Behind(c, t) /\ state[t] \in 1 .. 5
  BY <1>m, MultiFacts
<1>3. /\ curstate[c] = state[t] /\ curstate[c] = MULTI_STOP_RUN /\ c \in active[t]
      /\ spc'[c] = "ack" /\ curstate' = curstate
      /\ work' = work /\ nr_todo' = nr_todo /\ completed' = completed
      /\ ran' = [ran EXCEPT ![t] = ran[t] \cup {c}]
      /\ UNCHANGED <<state, thread_ack, num_threads, active, mask, queued>>
  BY <1>1, <1>2 DEF Run, Stopper, InLoop, Types, done, msdata, call, Loop
<1>4. /\ TaskInv(t)' /\ LgInv(t)' /\ ListInv(t)' /\ Multi(t)'
      /\ \A d \in Cpu : /\ Listed(d, t)' <=> Listed(d, t)
                        /\ Behind(d, t)' <=> Behind(d, t)
  BY <1>1, <1>m, StopperCall
<1>5. \A d \in Cpu \ {c} : spc'[d] = spc[d] /\ curstate'[d] = curstate[d]
  BY <1>1, <1>2, StopperLocal
<1>6. DoneInv(t)'
  BY <1>1, <1>3, StopperDone
<1>7. RanInv(t)'
  <2>1. \A d \in Cpu \ {c} : Executed(d, t)' <=> Executed(d, t)
    BY <1>m, <1>3, <1>4, <1>5 DEF Executed
  <2>2. Executed(c, t)'
    BY <1>2, <1>3, <1>4 DEF Executed, MULTI_STOP_RUN
  <2>3. \A d \in Cpu : d \in ran'[t] <=> d \in ran[t] \/ d = c
    BY <1>2, <1>3 DEF Types
  <2> QED BY <1>2, <1>3, <2>1, <2>2, <2>3 DEF CallInv, RanInv
<1>8. MultiInv(t)'
  <2>1. Unacked(t)' = Unacked(t)
    BY <1>1, <1>2, <1>3, <1>4, <1>5 DEF Unacked
  <2>2. InLoop(c, t)'
    <3>1. spc'[c] = "ack" /\ curstate'[c] = 3 /\ state'[t] = 3
      BY <1>3 DEF MULTI_STOP_RUN
    <3> QED BY <3>1 DEF InLoop, MULTI_STOP_RUN, MULTI_STOP_EXIT, Past, Loop
  <2>3. \A d \in mask[t] : work[d] = t => InLoop(d, t)'
    BY <1>2, <1>3, <1>5, <2>2 DEF MultiInv, InLoop
  <2>4. \A d \in mask[t] :
          /\ Behind(d, t)' => state'[t] = MULTI_STOP_PREPARE
          /\ ~Behind(d, t)' /\ work'[d] # t => state'[t] >= MULTI_STOP_EXIT
          /\ work'[d] = t => InLoop(d, t)'
    BY <1>2, <1>3, <1>4, <2>3 DEF MultiInv
  <2>5. \A d \in mask[t] : spc'[d] \in {"reset", "set"} => spc'[d] = spc[d]
    BY <1>2, <1>3, <1>5
  <2>6. spc[c] # "set"
    BY <1>1
  <2>7. \A d \in mask[t] : d # c => spc'[d] = spc[d]
    BY <1>2, <1>5
  <2>8. \A d, e \in mask[t] :
          work'[d] = t /\ work'[e] = t /\ {spc'[d], spc'[e]} \subseteq {"reset", "set"} => d = e
    BY <1>2, <1>3, <2>5 DEF MultiInv
  <2>9. \A d \in mask[t] :
          /\ work'[d] = t /\ spc'[d] = "reset" => Unacked(t)' = {} /\ thread_ack'[t] = 0
          /\ work'[d] = t /\ spc'[d] = "set" => Unacked(t)' = {} /\ thread_ack'[t] = num_threads'[t]
    BY <1>2, <1>3, <2>1, <2>5 DEF MultiInv
  <2>10. (\E d \in mask[t] : work'[d] = t /\ spc'[d] = "set") <=>
           \E d \in mask[t] : work[d] = t /\ spc[d] = "set"
    BY <1>3, <2>6, <2>7
  <2>11. /\ state'[t] \in MULTI_STOP_PREPARE .. MULTI_STOP_EXIT + 1
         /\ num_threads'[t] = Cardinality(mask'[t]) /\ mask'[t] = mask[t]
         /\ state'[t] > MULTI_STOP_EXIT => thread_ack'[t] = num_threads'[t]
    BY <1>2, <1>3 DEF MultiInv
  <2>12. state'[t] <= MULTI_STOP_EXIT /\ ~(\E d \in mask[t] : work'[d] = t /\ spc'[d] = "set")
           => thread_ack'[t] = Cardinality(Unacked(t)')
    BY <1>2, <1>3, <2>1, <2>10 DEF MultiInv
  <2> QED BY <2>4, <2>8, <2>9, <2>11, <2>12 DEF MultiInv
<1> QED BY <1>4, <1>6, <1>7, <1>8 DEF CallInv

(* The last cpu to acknowledge the state, and only that one, goes on to set the
   next. *)
LEMMA StopperAck ==
  ASSUME StopInv, NEW c \in Cpu, AckState(c), NEW t \in Tasks, work[c] = t
  PROVE  CallInv(t)' /\ thread_ack[t] > 0
<1>1. StopperStep(c) /\ ~Take(c) /\ spc[c] = "ack"
  BY DEF StopperStep, AckState, Take, Stopper
<1>m. Multi(t)
  BY <1>1, StopAssumption DEF StopInv, StopperInv
<1>2. /\ Types /\ CallInv(t) /\ MultiInv(t) /\ InLoop(c, t) /\ t # None
      /\ c \in mask[t] /\ c \in queued[t] /\ mask[t] \in SUBSET Cpu
      /\ ~Listed(c, t) /\ ~Behind(c, t) /\ state[t] \in 1 .. 5
      /\ curstate[c] \in 0 .. 4 /\ Unacked(t) \in SUBSET Cpu /\ thread_ack[t] \in Int
  BY <1>m, MultiFacts
<1>3. /\ curstate[c] = state[t] /\ state[t] <= 4 /\ curstate' = curstate
      /\ spc'[c] = IF thread_ack[t] = 1 THEN "reset"
                   ELSE IF state[t] = 4 THEN "leave" ELSE "poll"
      /\ work' = work /\ nr_todo' = nr_todo /\ completed' = completed /\ ran' = ran
      /\ thread_ack'[t] = thread_ack[t] - 1
      /\ UNCHANGED <<state, num_threads, active, mask, queued>>
  BY <1>1, <1>2 DEF AckState, AfterAck, Stopper, InLoop, Types, done, msdata, call, Loop,
                    MULTI_STOP_EXIT
<1>4. /\ TaskInv(t)' /\ LgInv(t)' /\ ListInv(t)' /\ Multi(t)'
      /\ \A d \in Cpu : /\ Listed(d, t)' <=> Listed(d, t)
                        /\ Behind(d, t)' <=> Behind(d, t)
  BY <1>1, <1>m, StopperCall
<1>5. \A d \in Cpu \ {c} : spc'[d] = spc[d] /\ curstate'[d] = curstate[d]
  BY <1>1, <1>2, StopperLocal
<1>6. DoneInv(t)'
  BY <1>1, <1>3, StopperDone
<1>7. RanInv(t)'
  <2>1. c \in active[t] => (Executed(c, t)' <=> Executed(c, t))
    BY <1>m, <1>1, <1>2, <1>3, <1>4 DEF Executed
  <2> QED BY <1>1, <1>3, <2>1, RanKept
<1>8. /\ c \in Unacked(t) /\ thread_ack[t] = Cardinality(Unacked(t))
      /\ ~(\E d \in mask[t] : work[d] = t /\ spc[d] \in {"set", "reset"})
  <2>1. c \in Unacked(t)
    BY <1>1, <1>2 DEF Unacked
  <2>2. ~(\E d \in mask[t] : work[d] = t /\ spc[d] \in {"set", "reset"})
    BY <1>2, <2>1 DEF MultiInv
  <2> QED BY <1>2, <1>3, <2>1, <2>2 DEF MultiInv, MULTI_STOP_EXIT
<1>9. Unacked(t)' = Unacked(t) \ {c}
  BY <1>1, <1>2, <1>3, <1>4, <1>5 DEF Unacked
<1>10. /\ thread_ack[t] > 0 /\ thread_ack'[t] = Cardinality(Unacked(t)')
       /\ thread_ack[t] = 1 => Unacked(t)' = {}
  BY <1>2, <1>3, <1>8, <1>9, OneCpuLess, Cpus
<1>11. MultiInv(t)'
  <2>1. InLoop(c, t)'
    <3>1. /\ state'[t] = state[t] /\ curstate'[c] = state[t] /\ state[t] <= 4
          /\ state[t] \in 1 .. 5
          /\ spc'[c] \in {"reset", "leave", "poll"}
          /\ spc'[c] = "leave" => state[t] = 4
          /\ spc'[c] = "poll" => state[t] # 4
      BY <1>2, <1>3
    <3> QED BY <3>1 DEF InLoop, MULTI_STOP_RUN, MULTI_STOP_EXIT, Past, Loop
  <2>2. \A d \in mask[t] : work[d] = t => InLoop(d, t)'
    BY <1>2, <1>3, <1>5, <2>1 DEF MultiInv, InLoop
  <2>3. \A d \in mask[t] : work[d] = t /\ spc'[d] \in {"set", "reset"} =>
          d = c /\ spc'[d] = "reset" /\ thread_ack[t] = 1
    BY <1>3, <1>2, <1>5, <1>8
  <2>4. \A d \in mask[t] :
          /\ Behind(d, t)' => state'[t] = MULTI_STOP_PREPARE
          /\ ~Behind(d, t)' /\ work'[d] # t => state'[t] >= MULTI_STOP_EXIT
          /\ work'[d] = t => InLoop(d, t)'
    BY <1>2, <1>3, <1>4, <2>2 DEF MultiInv
  <2>5. \A d, e \in mask[t] :
          work'[d] = t /\ work'[e] = t /\ {spc'[d], spc'[e]} \subseteq {"reset", "set"} => d = e
    BY <1>3, <2>3
  <2>6. \A d \in mask[t] :
          /\ work'[d] = t /\ spc'[d] = "reset" => Unacked(t)' = {} /\ thread_ack'[t] = 0
          /\ work'[d] = t /\ spc'[d] = "set" => Unacked(t)' = {} /\ thread_ack'[t] = num_threads'[t]
    BY <1>2, <1>3, <1>10, <2>3
  <2>7. /\ state'[t] \in MULTI_STOP_PREPARE .. MULTI_STOP_EXIT + 1
        /\ num_threads'[t] = Cardinality(mask'[t]) /\ mask'[t] = mask[t]
        /\ ~(state'[t] > MULTI_STOP_EXIT)
    BY <1>2, <1>3 DEF MultiInv, MULTI_STOP_EXIT
  <2> QED BY <1>10, <2>4, <2>5, <2>6, <2>7 DEF MultiInv
<1> QED BY <1>4, <1>6, <1>7, <1>10, <1>11 DEF CallInv

(* All have acknowledged the state; ... *)
LEMMA StopperReset ==
  ASSUME StopInv, NEW c \in Cpu, Reset(c), NEW t \in Tasks, work[c] = t
  PROVE  CallInv(t)'
<1>1. StopperStep(c) /\ ~Take(c) /\ spc[c] = "reset"
  BY DEF StopperStep, Reset, Take, Stopper
<1>m. Multi(t)
  BY <1>1, StopAssumption DEF StopInv, StopperInv
<1>2. /\ Types /\ CallInv(t) /\ MultiInv(t) /\ InLoop(c, t) /\ t # None
      /\ c \in mask[t] /\ c \in queued[t] /\ mask[t] \in SUBSET Cpu
      /\ ~Listed(c, t) /\ ~Behind(c, t) /\ state[t] \in 1 .. 5
      /\ curstate[c] \in 0 .. 4 /\ Unacked(t) \in SUBSET Cpu /\ thread_ack[t] \in Int
  BY <1>m, MultiFacts
<1>3. /\ curstate[c] = state[t] /\ state[t] <= 4 /\ curstate' = curstate
      /\ spc'[c] = "set"
      /\ work' = work /\ nr_todo' = nr_todo /\ completed' = completed /\ ran' = ran
      /\ thread_ack'[t] = num_threads[t]
      /\ UNCHANGED <<state, num_threads, active, mask, queued>>
  BY <1>1, <1>2 DEF Reset, Stopper, InLoop, Types, done, msdata, call, Loop, MULTI_STOP_EXIT
<1>4. /\ TaskInv(t)' /\ LgInv(t)' /\ ListInv(t)' /\ Multi(t)'
      /\ \A d \in Cpu : /\ Listed(d, t)' <=> Listed(d, t)
                        /\ Behind(d, t)' <=> Behind(d, t)
  BY <1>1, <1>m, StopperCall
<1>5. \A d \in Cpu \ {c} : spc'[d] = spc[d] /\ curstate'[d] = curstate[d]
  BY <1>1, <1>2, StopperLocal
<1>6. DoneInv(t)'
  BY <1>1, <1>3, StopperDone
<1>7. RanInv(t)'
  <2>1. c \in active[t] => (Executed(c, t)' <=> Executed(c, t))
    BY <1>m, <1>1, <1>2, <1>3, <1>4 DEF Executed
  <2> QED BY <1>1, <1>3, <2>1, RanKept
<1>8. Unacked(t)' = {}
  <2>1. Unacked(t)' = Unacked(t)
    BY <1>1, <1>2, <1>3, <1>4, <1>5 DEF Unacked
  <2> QED BY <1>1, <1>2, <2>1 DEF MultiInv
<1>9. MultiInv(t)'
  <2>1. InLoop(c, t)'
    BY <1>2, <1>3 DEF InLoop, MULTI_STOP_RUN, MULTI_STOP_EXIT, Past, Loop
  <2>2. \A d \in mask[t] : work[d] = t => InLoop(d, t)'
    BY <1>2, <1>3, <1>5, <2>1 DEF MultiInv, InLoop
  <2>3. \A d \in mask[t] : work[d] = t /\ spc'[d] \in {"set", "reset"} => d = c
    <3>1. \A d \in mask[t] : work[d] = t /\ spc[d] \in {"set", "reset"} => d = c
      BY <1>1, <1>2 DEF MultiInv
    <3> QED BY <1>2, <1>5, <3>1
  <2>4. \A d \in mask[t] :
          /\ Behind(d, t)' => state'[t] = MULTI_STOP_PREPARE
          /\ ~Behind(d, t)' /\ work'[d] # t => state'[t] >= MULTI_STOP_EXIT
          /\ work'[d] = t => InLoop(d, t)'
    BY <1>2, <1>3, <1>4, <2>2 DEF MultiInv
  <2>5. \A d, e \in mask[t] :
          work'[d] = t /\ work'[e] = t /\ {spc'[d], spc'[e]} \subseteq {"reset", "set"} => d = e
    BY <1>3, <2>3
  <2>6. \A d \in mask[t] :
          /\ work'[d] = t /\ spc'[d] = "reset" => Unacked(t)' = {} /\ thread_ack'[t] = 0
          /\ work'[d] = t /\ spc'[d] = "set" => Unacked(t)' = {} /\ thread_ack'[t] = num_threads'[t]
    BY <1>2, <1>3, <1>8, <2>3
  <2>7. /\ state'[t] \in MULTI_STOP_PREPARE .. MULTI_STOP_EXIT + 1
        /\ num_threads'[t] = Cardinality(mask'[t]) /\ mask'[t] = mask[t]
        /\ ~(state'[t] > MULTI_STOP_EXIT)
        /\ \E d \in mask'[t] : work'[d] = t /\ spc'[d] = "set"
    BY <1>2, <1>3 DEF MultiInv, MULTI_STOP_EXIT
  <2> QED BY <2>4, <2>5, <2>6, <2>7 DEF MultiInv
<1> QED BY <1>4, <1>6, <1>7, <1>9 DEF CallInv

(* ... the state moves, and all are behind again or, after the last state, out. *)
LEMMA StopperSetState ==
  ASSUME StopInv, NEW c \in Cpu, SetState(c), NEW t \in Tasks, work[c] = t
  PROVE  CallInv(t)'
<1>1. StopperStep(c) /\ ~Take(c) /\ spc[c] = "set"
  BY DEF StopperStep, SetState, Take, Stopper
<1>m. Multi(t)
  BY <1>1, StopAssumption DEF StopInv, StopperInv
<1>2. /\ Types /\ CallInv(t) /\ MultiInv(t) /\ InLoop(c, t) /\ t # None
      /\ c \in mask[t] /\ c \in queued[t] /\ mask[t] \in SUBSET Cpu
      /\ ~Listed(c, t) /\ ~Behind(c, t) /\ state[t] \in 1 .. 5
      /\ curstate[c] \in 0 .. 4 /\ Unacked(t) \in SUBSET Cpu /\ thread_ack[t] \in Int
  BY <1>m, MultiFacts
<1>3. /\ curstate[c] = state[t] /\ state[t] <= 4 /\ curstate' = curstate
      /\ spc'[c] = IF state[t] = 4 THEN "leave" ELSE "poll"
      /\ work' = work /\ nr_todo' = nr_todo /\ completed' = completed /\ ran' = ran
      /\ thread_ack' = thread_ack /\ state'[t] = state[t] + 1
      /\ UNCHANGED <<num_threads, active, mask, queued>>
  BY <1>1, <1>2 DEF SetState, AfterAck, Stopper, InLoop, Types, done, msdata, call, Loop,
                    MULTI_STOP_EXIT
<1>4. /\ TaskInv(t)' /\ LgInv(t)' /\ ListInv(t)' /\ Multi(t)'
      /\ \A d \in Cpu : /\ Listed(d, t)' <=> Listed(d, t)
                        /\ Behind(d, t)' <=> Behind(d, t)
  BY <1>1, <1>m, StopperCall
<1>5. \A d \in Cpu \ {c} : spc'[d] = spc[d] /\ curstate'[d] = curstate[d]
  BY <1>1, <1>2, StopperLocal
<1>6. DoneInv(t)'
  BY <1>1, <1>3, StopperDone
<1>7. RanInv(t)'
  <2>1. c \in active[t] => (Executed(c, t)' <=> Executed(c, t))
    BY <1>m, <1>1, <1>2, <1>3, <1>4 DEF Executed
  <2> QED BY <1>1, <1>3, <2>1, RanKept
<1>8. Unacked(t) = {} /\ thread_ack[t] = num_threads[t] /\ num_threads[t] = Cardinality(mask[t])
  BY <1>1, <1>2 DEF MultiInv
<1>9. \A d \in mask[t] : ~Behind(d, t) /\ (work[d] = t => InLoop(d, t))
  BY <1>2, <1>8 DEF Unacked, MultiInv
<1>10. ASSUME NEW d \in mask[t], work[d] = t, d # c
       PROVE  /\ spc[d] \in Past \/ (spc[d] = "poll" /\ curstate[d] = state[t])
              /\ d \in Cpu
  <2>1. spc[d] \in Loop \cup Past /\ d \in Cpu
    BY <1>2, <1>m, <1>10 DEF StopInv, StopperInv
  <2>2. spc[d] \notin {"reset", "set"}
    BY <1>1, <1>2, <1>10 DEF MultiInv
  <2>3. d \notin Unacked(t)
    BY <1>8
  <2> QED BY <1>10, <2>1, <2>2, <2>3 DEF Unacked, Loop, Past
<1>11. CASE state[t] < 4
  <2>1. ASSUME NEW d \in mask[t]
        PROVE  /\ work[d] = t /\ spc'[d] = "poll" /\ curstate'[d] = state'[t] - 1
               /\ curstate'[d] < 4
    <3>1. work[d] = t
      BY <1>2, <1>9, <1>11 DEF MultiInv, MULTI_STOP_EXIT
    <3>2. CASE d = c
      BY <1>2, <1>3, <1>11, <3>1, <3>2
    <3>3. CASE d # c
      <4>1. spc[d] = "poll" /\ curstate[d] = state[t]
        BY <1>9, <1>2, <1>10, <1>11, <3>1, <3>3 DEF InLoop, MULTI_STOP_EXIT
      <4> QED BY <1>2, <1>3, <1>5, <1>11, <3>1, <3>3, <4>1
    <3> QED BY <3>2, <3>3
  <2>2. Unacked(t)' = mask[t]
    BY <1>2, <1>3, <2>1 DEF Unacked
  <2>3. \A d \in mask[t] : InLoop(d, t)'
    BY <1>2, <1>3, <1>11, <2>1 DEF InLoop, MULTI_STOP_EXIT, Past, Loop
  <2>4. \A d \in mask[t] :
          /\ Behind(d, t)' => state'[t] = MULTI_STOP_PREPARE
          /\ ~Behind(d, t)' /\ work'[d] # t => state'[t] >= MULTI_STOP_EXIT
          /\ work'[d] = t => InLoop(d, t)'
    BY <1>2, <1>3, <1>4, <1>9, <2>1, <2>3
  <2>5. \A d \in mask[t] : spc'[d] \notin {"reset", "set"}
    BY <2>1
  <2>6. /\ state'[t] \in MULTI_STOP_PREPARE .. MULTI_STOP_EXIT + 1
        /\ num_threads'[t] = Cardinality(mask'[t]) /\ mask'[t] = mask[t]
        /\ ~(state'[t] > MULTI_STOP_EXIT)
        /\ thread_ack'[t] = Cardinality(Unacked(t)')
    BY <1>2, <1>3, <1>8, <1>11, <2>2 DEF MULTI_STOP_PREPARE, MULTI_STOP_EXIT
  <2>7. MultiInv(t)'
    BY <2>4, <2>5, <2>6 DEF MultiInv
  <2> QED BY <1>4, <1>6, <1>7, <2>7 DEF CallInv
<1>12. CASE state[t] = 4
  <2>1. ASSUME NEW d \in mask[t], work[d] = t
        PROVE  spc'[d] \in Past /\ curstate'[d] = 4
    <3>1. CASE d = c
      BY <1>3, <1>12, <3>1 DEF Past
    <3>2. CASE d # c
      <4>1. spc[d] \in Past /\ curstate[d] = 4
        BY <1>9, <1>10, <1>12, <2>1, <3>2 DEF InLoop, MULTI_STOP_EXIT
      <4> QED BY <1>3, <1>5, <1>10, <2>1, <3>2, <4>1
    <3> QED BY <3>1, <3>2
  <2>2. \A d \in mask[t] : work[d] = t => InLoop(d, t)'
    BY <1>3, <1>12, <2>1 DEF InLoop, MULTI_STOP_EXIT, Past, Loop
  <2>3. \A d \in mask[t] :
          /\ Behind(d, t)' => state'[t] = MULTI_STOP_PREPARE
          /\ ~Behind(d, t)' /\ work'[d] # t => state'[t] >= MULTI_STOP_EXIT
          /\ work'[d] = t => InLoop(d, t)'
    BY <1>2, <1>3, <1>4, <1>9, <1>12, <2>2 DEF MULTI_STOP_EXIT
  <2>4. \A d \in mask[t] : work'[d] = t => spc'[d] \notin {"reset", "set"}
    BY <1>3, <2>1 DEF Past
  <2>5. /\ state'[t] \in MULTI_STOP_PREPARE .. MULTI_STOP_EXIT + 1
        /\ num_threads'[t] = Cardinality(mask'[t]) /\ mask'[t] = mask[t]
        /\ state'[t] > MULTI_STOP_EXIT
        /\ thread_ack'[t] = num_threads'[t]
    BY <1>2, <1>3, <1>8, <1>12 DEF MULTI_STOP_PREPARE, MULTI_STOP_EXIT
  <2>6. MultiInv(t)'
    BY <2>3, <2>4, <2>5 DEF MultiInv, MULTI_STOP_EXIT
  <2> QED BY <1>4, <1>6, <1>7, <2>6 DEF CallInv
<1> QED BY <1>2, <1>3, <1>11, <1>12

LEMMA StopperLeave ==
  ASSUME StopInv, NEW c \in Cpu, Leave(c), NEW t \in Tasks, work[c] = t
  PROVE  CallInv(t)'
<1>1. StopperStep(c) /\ ~Take(c) /\ spc[c] = "leave"
  BY DEF StopperStep, Leave, Take, Stopper
<1>m. Multi(t)
  BY <1>1, StopAssumption DEF StopInv, StopperInv
<1>2. /\ Types /\ CallInv(t) /\ MultiInv(t) /\ InLoop(c, t) /\ t # None
      /\ c \in mask[t] /\ c \in queued[t] /\ mask[t] \in SUBSET Cpu
      /\ ~Listed(c, t) /\ ~Behind(c, t) /\ state[t] \in 1 .. 5
  BY <1>m, MultiFacts
<1>3. /\ curstate' = curstate /\ spc'[c] = "signal"
      /\ curstate[c] = MULTI_STOP_EXIT /\ state[t] >= MULTI_STOP_EXIT
      /\ work' = work /\ nr_todo' = nr_todo /\ completed' = completed /\ ran' = ran
      /\ UNCHANGED <<state, thread_ack, num_threads, active, mask, queued>>
  BY <1>1, <1>2 DEF Leave, Stopper, InLoop, Types, done, msdata, call, Past
<1>4. /\ TaskInv(t)' /\ LgInv(t)' /\ ListInv(t)' /\ Multi(t)'
      /\ \A d \in Cpu : /\ Listed(d, t)' <=> Listed(d, t)
                        /\ Behind(d, t)' <=> Behind(d, t)
  BY <1>1, <1>m, StopperCall
<1>5. \A d \in Cpu \ {c} : spc'[d] = spc[d] /\ curstate'[d] = curstate[d]
  BY <1>1, <1>2, StopperLocal
<1>6. DoneInv(t)'
  BY <1>1, <1>3, StopperDone
<1>7. RanInv(t)'
  <2>1. c \in active[t] => (Executed(c, t)' <=> Executed(c, t))
    BY <1>m, <1>1, <1>2, <1>3, <1>4 DEF Executed
  <2> QED BY <1>1, <1>3, <2>1, RanKept
<1>8. MultiInv(t)'
  <2>1. Unacked(t)' = Unacked(t)
    BY <1>1, <1>2, <1>3, <1>4, <1>5 DEF Unacked
  <2>2. InLoop(c, t)'
    BY <1>2, <1>3 DEF InLoop, Past, Loop
  <2>3. \A d \in mask[t] : work[d] = t => InLoop(d, t)'
    BY <1>2, <1>3, <1>5, <2>2 DEF MultiInv, InLoop
  <2> QED BY <1>1, <1>2, <1>3, <1>4, <1>5, <2>1, <2>3 DEF MultiInv
<1> QED BY <1>4, <1>6, <1>7, <1>8 DEF CallInv

----------------------------------------------------------------------------
\* The end of a work

(* All but the cpu_stop_done. *)
LEMMA StopperOut ==
  ASSUME StopInv, NEW c \in Cpu, Signal(c) \/ Complete(c), NEW t \in Tasks, work[c] = t
  PROVE  /\ TaskInv(t)' /\ LgInv(t)' /\ ListInv(t)' /\ RanInv(t)'
         /\ IF Multi(t)' THEN MultiInv(t)' ELSE PlainInv(t)'
<1>1. StopperStep(c) /\ ~Take(c) /\ spc[c] \in {"signal", "complete"}
  BY DEF StopperStep, Signal, Complete, Take, Stopper
<1>2. Types /\ t # None
  BY StopAssumption DEF StopInv
<1>3. /\ spc'[c] \in {"complete", "repeat"} /\ work'[c] \in {t, None}
      /\ work'[c] = t => spc'[c] = "complete"
  <2>1. CASE Signal(c)
    BY <1>2, <2>1 DEF Signal, Stopper, Types
  <2>2. CASE Complete(c)
    BY <1>2, <2>2 DEF Complete, Stopper, Types
  <2> QED BY <2>1, <2>2
<1>4. /\ UNCHANGED <<state, thread_ack, num_threads, active, mask, queued, ran, curstate>>
      /\ \A d \in Cpu \ {c} : /\ spc'[d] = spc[d] /\ work'[d] = work[d]
                              /\ curstate'[d] = curstate[d]
  <2>1. UNCHANGED <<state, thread_ack, num_threads, active, mask, queued, ran, curstate>>
    BY DEF Signal, Complete, msdata, call
  <2> QED BY <1>1, <1>2, <2>1, StopperLocal
<1>5. /\ TaskInv(t)' /\ LgInv(t)' /\ ListInv(t)'
      /\ Multi(t)' <=> Multi(t)
      /\ \A d \in Cpu : /\ Listed(d, t)' <=> Listed(d, t)
                        /\ Behind(d, t)' <=> Behind(d, t)
  BY <1>1, StopperCall
<1>6. ASSUME Multi(t)
      PROVE  MultiInv(t)' /\ Executed(c, t)' /\ Executed(c, t)
  <2>1. /\ MultiInv(t) /\ InLoop(c, t) /\ c \in mask[t] /\ mask[t] \in SUBSET Cpu
        /\ ~Listed(c, t) /\ ~Behind(c, t)
    BY <1>6, MultiFacts
  <2>2. curstate[c] = MULTI_STOP_EXIT /\ state[t] >= MULTI_STOP_EXIT
    BY <1>1, <2>1 DEF InLoop, Past
  <2>3. Unacked(t)' = Unacked(t)
    BY <1>1, <1>2, <1>3, <1>4, <1>5, <2>1 DEF Unacked
  <2>4. work'[c] = t => InLoop(c, t)'
    BY <1>3, <1>4, <2>2 DEF InLoop, Past, Loop
  <2>5. \A d \in mask[t] : work'[d] = t => InLoop(d, t)'
    BY <1>4, <2>1, <2>4 DEF MultiInv, InLoop
  <2>6. \A d \in mask[t] :
          /\ Behind(d, t)' => state'[t] = MULTI_STOP_PREPARE
          /\ ~Behind(d, t)' /\ work'[d] # t => state'[t] >= MULTI_STOP_EXIT
          /\ work'[d] = t => InLoop(d, t)'
    BY <1>4, <1>5, <2>1, <2>2, <2>5 DEF MultiInv
  <2>7. \A d \in mask[t] : spc'[d] \in {"reset", "set"} => d # c
    BY <1>3
  <2>8. \A d \in mask[t] : spc[d] \in {"reset", "set"} => d # c
    BY <1>1
  <2>9. MultiInv(t)'
    BY <1>4, <2>1, <2>3, <2>6, <2>7, <2>8 DEF MultiInv
  <2>10. Executed(c, t)' /\ Executed(c, t)
    BY <1>1, <1>3, <1>4, <1>5, <1>6, <2>1, <2>2 DEF Executed, MULTI_STOP_EXIT, MULTI_STOP_RUN
  <2> QED BY <2>9, <2>10
<1>7. ASSUME ~Multi(t)
      PROVE  PlainInv(t)' /\ Executed(c, t)' /\ Executed(c, t)
  <2>1. PlainInv(t) /\ ~Listed(c, t)
    BY <1>2, <1>7, Executing
  <2>2. PlainInv(t)'
    BY <1>4, <2>1 DEF PlainInv
  <2>3. Executed(c, t)
    BY <1>1, <1>7, <2>1 DEF Executed
  <2>4. Executed(c, t)'
    BY <1>3, <1>5, <1>7, <2>1 DEF Executed
  <2> QED BY <2>2, <2>3, <2>4
<1>8. RanInv(t)'
  BY <1>1, <1>4, <1>6, <1>7, RanKept
<1> QED BY <1>5, <1>6, <1>7, <1>8

(* The last cpu of a call to be done with it fires the completion, and has nobody
   else's work left to wait for. *)
LEMMA StopperSignal ==
  ASSUME StopInv, NEW c \in Cpu, Signal(c), NEW t \in Tasks, work[c] = t
  PROVE  CallInv(t)'
<1>1. StopperStep(c) /\ ~Take(c) /\ spc[c] = "signal"
  BY DEF StopperStep, Signal, Take, Stopper
<1>2. /\ Types /\ t # None /\ DoneInv(t) /\ ListInv(t) /\ c \in mask[t] /\ mask[t] \subseteq Cpu
      /\ ~Listed(c, t) /\ ~Pending(c, t) /\ t \notin completed
      /\ pc[t] \in {"queue", "wait", "unlock", "put"}
  BY StopAssumption, Executing DEF StopInv, CallInv, Types
<1>3. /\ nr_todo'[t] = nr_todo[t] - 1 /\ completed' = completed
      /\ nr_todo[t] = 1 => spc'[c] = "complete" /\ work'[c] = t
      /\ nr_todo[t] # 1 => spc'[c] = "repeat" /\ work'[c] = None
      /\ UNCHANGED <<pc, mask, queued>>
  BY <1>2 DEF Signal, Stopper, Types, call
<1>4. /\ \A d \in Cpu \ {c} : spc'[d] = spc[d] /\ work'[d] = work[d]
  BY <1>1, <1>2, StopperLocal
<1>5. \A d \in Cpu : /\ Listed(d, t)' <=> Listed(d, t)
                     /\ Pending(d, t)' <=> Pending(d, t)
  BY <1>1, StopperCall
<1>6. c \in Left(t) /\ nr_todo[t] = Cardinality(Left(t)) /\ Left(t) \in SUBSET Cpu
  BY <1>1, <1>2 DEF Left, DoneInv
<1>7. Left(t)' = Left(t) \ {c}
  BY <1>1, <1>2, <1>3, <1>4, <1>5 DEF Left
<1>8. nr_todo'[t] = Cardinality(Left(t)')
  BY <1>3, <1>6, <1>7, OneCpuLess
<1>9. \A d \in Cpu : work[d] = t => d \in mask[t] /\ spc[d] # "complete"
  BY <1>2, <1>6 DEF DoneInv, ListInv
<1>10. ASSUME NEW d \in Cpu, work'[d] = t, spc'[d] = "complete"
       PROVE  Left(t)' = {} /\ \A e \in Cpu : work'[e] = t => e = d
  <2>1. d = c
    BY <1>4, <1>9, <1>10
  <2>2. nr_todo[t] = 1 /\ Left(t) = {c}
    BY <1>2, <1>3, <1>6, <1>10, <2>1, OneCpuLess
  <2>3. \A e \in Cpu : work[e] = t => e = c
    BY <1>9, <2>2 DEF Left
  <2> QED BY <1>4, <1>7, <2>1, <2>2, <2>3
<1>11. pc[t] \in {"unlock", "put"} => queued[t] = {}
  BY <1>2 DEF DoneInv
<1>12. DoneInv(t)'
  BY <1>2, <1>3, <1>8, <1>10, <1>11 DEF DoneInv
<1> QED BY <1>12, StopperOut DEF CallInv

LEMMA StopperComplete ==
  ASSUME StopInv, NEW c \in Cpu, Complete(c), NEW t \in Tasks, work[c] = t
  PROVE  CallInv(t)'
<1>1. StopperStep(c) /\ ~Take(c) /\ spc[c] = "complete"
  BY DEF StopperStep, Complete, Take, Stopper
<1>2. /\ Types /\ t # None /\ DoneInv(t) /\ mask[t] \subseteq Cpu
      /\ pc[t] \in {"queue", "wait", "unlock", "put"}
  BY StopAssumption, Executing DEF StopInv, CallInv, Types
<1>3. /\ nr_todo' = nr_todo /\ completed' = completed \cup {t}
      /\ spc'[c] = "repeat" /\ work'[c] = None
      /\ UNCHANGED <<pc, mask, queued>>
  BY <1>2 DEF Complete, Stopper, Types, call
<1>4. /\ \A d \in Cpu \ {c} : spc'[d] = spc[d] /\ work'[d] = work[d]
  BY <1>1, <1>2, StopperLocal
<1>5. \A d \in Cpu : /\ Listed(d, t)' <=> Listed(d, t)
                     /\ Pending(d, t)' <=> Pending(d, t)
  BY <1>1, StopperCall
<1>6. Left(t) = {} /\ \A d \in Cpu : work[d] = t => d = c
  BY <1>1, <1>2 DEF DoneInv
<1>7. Left(t)' = {} /\ \A d \in Cpu : work'[d] # t
  BY <1>2, <1>3, <1>4, <1>5, <1>6 DEF Left
<1>8. DoneInv(t)'
  BY <1>2, <1>3, <1>6, <1>7 DEF DoneInv
<1> QED BY <1>8, StopperOut DEF CallInv

----------------------------------------------------------------------------
\* The start of a work

LEMMA StopperTake ==
  ASSUME StopInv, NEW c \in Cpu, Take(c), NEW t \in Tasks, Head(works[c]) = t
  PROVE  CallInv(t)'
<1>1. StopperStep(c) /\ spc[c] = "repeat"
  BY DEF StopperStep, Take, Stopper
<1>2. /\ Types /\ t # None /\ CallInv(t) /\ mask[t] \in SUBSET Cpu /\ StopperInv(c)
  BY StopAssumption DEF StopInv, CallInv, Types
<1>3. /\ work[c] = None /\ work'[c] = t /\ curstate'[c] = 0 /\ Listed(c, t)
      /\ spc'[c] = IF Multi(t) THEN "poll" ELSE "plain"
      /\ Len(works'[c]) = Len(works[c]) - 1
      /\ works[c][1] = t /\ 1 \in 1 .. Len(works[c])
      /\ \A i \in 1 .. Len(works[c]) - 1 : works'[c][i] = works[c][i + 1]
  <2>1. work[c] = None
    BY <1>1, <1>2 DEF StopperInv
  <2>2. works[c][1] = t /\ 1 \in 1 .. Len(works[c])
    BY <1>2, TakeList
  <2>3. Listed(c, t)
    BY <2>2 DEF Listed
  <2> QED BY <1>2, <2>1, <2>2, <2>3, TakeList DEF MULTI_STOP_NONE
<1>4. ~Listed(c, t)'
  <2>1. ASSUME NEW i \in 1 .. Len(works'[c]), works'[c][i] = t
        PROVE  FALSE
    <3>1. works[c] \in Seq(Tasks) /\ Len(works[c]) \in Nat
      BY <1>2 DEF Types
    <3>2. i \in 1 .. Len(works[c]) - 1 /\ i + 1 \in 1 .. Len(works[c]) /\ i + 1 # 1
      BY <1>3, <2>1, <3>1
    <3>3. works[c][i + 1] = t
      BY <1>3, <2>1, <3>2
    <3> QED BY <1>2, <1>3, <3>2, <3>3 DEF StopperInv
  <2> QED BY <2>1 DEF Listed
<1>5. /\ UNCHANGED <<pc, kind, mask, todo, queued, active, num_threads, lglock,
                     stop_cpus_mutex, state, thread_ack, nr_todo, completed, ran>>
      /\ \A d \in Cpu \ {c} :
           /\ works'[d] = works[d] /\ work'[d] = work[d]
           /\ spc'[d] = spc[d] /\ curstate'[d] = curstate[d]
  <2>1. UNCHANGED <<state, thread_ack, nr_todo, completed, ran>>
    BY DEF Take, msdata, done
  <2> QED BY <1>1, <1>2, <2>1, StopperLocal
<1>6. \A d \in Cpu \ {c} : /\ Listed(d, t)' <=> Listed(d, t)
                           /\ Behind(d, t)' <=> Behind(d, t)
  BY <1>5 DEF Listed, Behind, Pending
<1>7. \A d \in Cpu : Pending(d, t)' <=> Pending(d, t)
  BY <1>5 DEF Pending
<1>8. Multi(t)' <=> Multi(t)
  BY <1>5 DEF Multi
<1>9. /\ c \in queued[t] /\ c \in mask[t] /\ ~Pending(c, t)
      /\ pc[t] \in {"queue", "wait", "unlock", "put"}
  BY <1>2, <1>3 DEF CallInv, ListInv, Types, Early, Pending
<1>10. /\ c \in Left(t) /\ Left(t)' = Left(t)
  <2>1. c \in Left(t) /\ c \in Left(t)'
    BY <1>3, <1>5, <1>9 DEF Left
  <2>2. \A d \in mask[t] \ {c} : d \in Left(t)' <=> d \in Left(t)
    BY <1>2, <1>5, <1>6, <1>7 DEF Left
  <2>3. Left(t) \subseteq mask[t] /\ Left(t)' \subseteq mask[t]
    BY <1>5 DEF Left
  <2> QED BY <2>1, <2>2, <2>3
<1>11. TaskInv(t)' /\ LgInv(t)'
  BY <1>2, <1>5 DEF CallInv, TaskInv, LgInv
<1>12. ListInv(t)'
  BY <1>2, <1>5, <1>6, <1>9 DEF CallInv, ListInv
<1>13. DoneInv(t)'
  <2>1. \A d \in Cpu : ~(work[d] = t /\ spc[d] = "complete")
    BY <1>2, <1>10 DEF CallInv, DoneInv
  <2>2. \A d \in Cpu : ~(work'[d] = t /\ spc'[d] = "complete")
    BY <1>3, <1>5, <2>1
  <2> QED BY <1>2, <1>5, <1>10, <2>2 DEF CallInv, DoneInv
<1>14. RanInv(t)'
  <2>1. ~Executed(c, t) /\ ~Executed(c, t)'
    BY <1>3, <1>4, <1>8 DEF Executed, MULTI_STOP_RUN
  <2>2. \A d \in Cpu \ {c} : Executed(d, t)' <=> Executed(d, t)
    BY <1>5, <1>6, <1>8 DEF Executed
  <2> QED BY <1>2, <1>5, <2>1, <2>2 DEF CallInv, RanInv
<1>15. ASSUME Multi(t)
       PROVE  MultiInv(t)'
  <2>1. MultiInv(t) /\ Behind(c, t) /\ state[t] = 1 /\ ~Behind(c, t)'
    BY <1>2, <1>3, <1>4, <1>5, <1>7, <1>9, <1>15
       DEF CallInv, MultiInv, Behind, MULTI_STOP_PREPARE
  <2>2. Unacked(t)' = Unacked(t)
    <3>1. c \in Unacked(t) /\ c \in Unacked(t)'
      BY <1>3, <1>5, <1>9, <1>15, <2>1 DEF Unacked
    <3>2. \A d \in mask[t] \ {c} : d \in Unacked(t)' <=> d \in Unacked(t)
      BY <1>2, <1>5, <1>6 DEF Unacked
    <3>3. Unacked(t) \subseteq mask[t] /\ Unacked(t)' \subseteq mask[t]
      BY <1>5 DEF Unacked
    <3> QED BY <3>1, <3>2, <3>3
  <2>3. InLoop(c, t)'
    BY <1>3, <1>5, <1>15, <2>1 DEF InLoop, Loop, Past, MULTI_STOP_EXIT
  <2>4. \A d \in mask[t] : work'[d] = t => InLoop(d, t)'
    BY <1>2, <1>5, <2>1, <2>3 DEF MultiInv, InLoop
  <2>5. \A d \in mask[t] :
          /\ Behind(d, t)' => state'[t] = MULTI_STOP_PREPARE
          /\ ~Behind(d, t)' /\ work'[d] # t => state'[t] >= MULTI_STOP_EXIT
          /\ work'[d] = t => InLoop(d, t)'
    BY <1>2, <1>3, <1>5, <1>6, <2>1, <2>4 DEF MultiInv
  <2>6. \A d \in mask[t] : /\ spc'[d] \in {"reset", "set"} => d # c
                           /\ spc[d] \in {"reset", "set"} => d # c
    BY <1>1, <1>3
  <2> QED BY <1>2, <1>5, <2>1, <2>2, <2>5, <2>6 DEF MultiInv
<1>16. ASSUME ~Multi(t)
       PROVE  PlainInv(t)'
  BY <1>2, <1>5, <1>16 DEF CallInv, PlainInv
<1> QED BY <1>8, <1>11, <1>12, <1>13, <1>14, <1>15, <1>16 DEF CallInv

(* Every step of a stopper keeps every call's invariant. *)
LEMMA StopperCalls ==
  ASSUME StopInv, NEW c \in Cpu, StopperStep(c), NEW u \in Tasks
  PROVE  CallInv(u)'
<1>1. Types /\ u # None
  BY StopAssumption DEF StopInv
<1>2. CASE work[c] = u
  <2>1. spc[c] \notin {"main", "parked", "repeat"}
    BY <1>1, <1>2 DEF StopInv, StopperInv
  <2> QED BY <1>2, <2>1, StopperPlain, StopperPoll, StopperRun, StopperAck, StopperReset,
             StopperSetState, StopperLeave, StopperSignal, StopperComplete
          DEF StopperStep, Park, ShouldRun, Take, NothingLeft, Stopper
<1>3. CASE Take(c) /\ Head(works[c]) = u
  BY <1>3, StopperTake
<1> QED BY <1>2, <1>3, StopperOthers

----------------------------------------------------------------------------
\* The stoppers themselves

LEMMA StopperStoppers ==
  ASSUME StopInv, NEW c \in Cpu, StopperStep(c), NEW d \in Cpu
  PROVE  StopperInv(d)'
<1>t. Types /\ StopperInv(d) /\ StopperInv(c) /\ works[c] \in Seq(Tasks) /\ Len(works[c]) \in Nat
  <2>1. Types /\ StopperInv(d) /\ StopperInv(c)
    BY DEF StopInv
  <2>2. works[c] \in Seq(Tasks)
    BY <2>1 DEF Types
  <2> QED BY <2>1, <2>2, LenProperties
<1>u. /\ UNCHANGED <<kind>>
      /\ \A e \in Cpu \ {c} :
           /\ works'[e] = works[e] /\ work'[e] = work[e]
           /\ spc'[e] = spc[e] /\ curstate'[e] = curstate[e]
           /\ e \in irqs' <=> e \in irqs
  BY <1>t, StopperLocal
<1>e. \A e \in Cpu \ {c} : e \in enabled' <=> e \in enabled
  BY <1>t DEF StopperStep, Park, ShouldRun, Take, NothingLeft, Plain, Poll, Run, AckState,
              Reset, SetState, Leave, Signal, Complete
<1>n. work[c] \in Tasks \cup {None} /\ None \notin Tasks
  BY <1>t, StopAssumption DEF Types
<1>1. CASE d # c
  <2>1. /\ works'[d] = works[d] /\ work'[d] = work[d] /\ spc'[d] = spc[d]
        /\ curstate'[d] = curstate[d]
        /\ d \in irqs' <=> d \in irqs
        /\ d \in enabled' <=> d \in enabled
    BY <1>1, <1>u, <1>e
  <2> QED BY <1>t, <1>u, <2>1 DEF StopperInv, Multi
<1>2. CASE Take(c)
  <2>1. /\ work[c] = None /\ work'[c] = works[c][1] /\ work'[c] \in Tasks
        /\ curstate'[c] = 0 /\ spc[c] = "repeat"
        /\ spc'[c] = IF Multi(work'[c]) THEN "poll" ELSE "plain"
        /\ Len(works'[c]) = Len(works[c]) - 1 /\ 1 \in 1 .. Len(works[c])
        /\ \A i \in 1 .. Len(works[c]) - 1 : works'[c][i] = works[c][i + 1]
    BY <1>t, <1>2, TakeList DEF StopperInv, MULTI_STOP_NONE
  <2>2. \A i \in 1 .. Len(works'[c]) :
          /\ works'[c][i] = works[c][i + 1]
          /\ i + 1 \in 1 .. Len(works[c]) /\ i + 1 # 1 /\ i \in Int
    BY <1>t, <2>1
  <2>3. \A i, j \in 1 .. Len(works'[c]) : works'[c][i] = works'[c][j] => i = j
    <3>1. ASSUME NEW i \in 1 .. Len(works'[c]), NEW j \in 1 .. Len(works'[c]),
                 works'[c][i] = works'[c][j]
          PROVE  i = j
      <4>1. i + 1 = j + 1
        BY <1>t, <2>2, <3>1 DEF StopperInv
      <4> QED BY <4>1
    <3> QED BY <3>1
  <2>4. \A i \in 1 .. Len(works'[c]) : works'[c][i] # work'[c]
    BY <1>t, <2>1, <2>2 DEF StopperInv
  <2>5. /\ work'[c] # None /\ spc'[c] \notin {"main", "parked", "repeat"}
        /\ spc'[c] \in IF kind'[work'[c]] \in {"two", "machine", "down"}
                         THEN Loop \cup Past ELSE {"plain", "signal", "complete"}
        /\ ~(curstate'[c] >= MULTI_STOP_DISABLE_IRQ)
    BY <1>n, <1>u, <2>1 DEF Multi, Loop, MULTI_STOP_DISABLE_IRQ
  <2>6. StopperInv(c)'
    BY <2>3, <2>4, <2>5 DEF StopperInv, Multi
  <2> QED BY <1>2, <2>6, <1>1
<1>3. CASE ~Take(c)
  <2>1. works' = works /\ work'[c] \in {work[c], None}
    BY <1>t, <1>3 DEF StopperStep, Park, ShouldRun, NothingLeft, Plain, Poll, Run, AckState,
                      Reset, SetState, Leave, Signal, Complete, stoppers, Types
  <2>2. /\ \A i, j \in 1 .. Len(works'[c]) : works'[c][i] = works'[c][j] => i = j
        /\ \A i \in 1 .. Len(works'[c]) : works'[c][i] # work'[c]
    <3>1. \A i \in 1 .. Len(works[c]) : works[c][i] # None
      BY <1>t, <1>n
    <3> QED BY <1>t, <2>1, <3>1 DEF StopperInv
  <2>3. /\ Multi(work[c]) <=> kind[work[c]] \in {"two", "machine", "down"}
        /\ kind' = kind
    BY <1>u DEF Multi
  <2>4. /\ work'[c] = None <=> spc'[c] \in {"main", "parked", "repeat"}
        /\ work'[c] # None =>
             spc'[c] \in IF kind'[work'[c]] \in {"two", "machine", "down"}
                           THEN Loop \cup Past ELSE {"plain", "signal", "complete"}
        /\ spc'[c] = "parked" => c \notin enabled'
        /\ c \notin enabled' /\ spc'[c] \in {"main", "parked"} => works'[c] = <<>>
        /\ /\ work'[c] # None /\ spc'[c] \in Loop \cup {"leave"}
           /\ curstate'[c] >= MULTI_STOP_DISABLE_IRQ
           => c \notin irqs'
    <3>i. /\ work[c] = None <=> spc[c] \in {"main", "parked", "repeat"}
          /\ work[c] # None =>
               spc[c] \in IF Multi(work[c]) THEN Loop \cup Past
                                            ELSE {"plain", "signal", "complete"}
          /\ spc[c] = "parked" => c \notin enabled
          /\ c \notin enabled /\ spc[c] \in {"main", "parked"} => works[c] = <<>>
          /\ /\ work[c] # None /\ spc[c] \in Loop \cup {"leave"}
             /\ curstate[c] >= MULTI_STOP_DISABLE_IRQ
             => c \notin irqs
      BY <1>t DEF StopperInv
    <3> USE DEF Types, stoppers
    <3>1. CASE Park(c)
      <4>1. spc[c] = "main" /\ spc'[c] = "parked" /\ work' = work /\ enabled' = enabled /\ c \notin enabled
        BY <1>t, <3>1 DEF Park, Stopper
      <4> QED BY <2>1, <3>i, <4>1 DEF Loop
    <3>2. CASE ShouldRun(c)
      <4>1. spc[c] = "main" /\ spc'[c] = "repeat" /\ work' = work
        BY <1>t, <3>2 DEF ShouldRun, Stopper
      <4> QED BY <2>1, <3>i, <4>1 DEF Loop
    <3>3. CASE NothingLeft(c)
      <4>1. spc[c] = "repeat" /\ spc'[c] = "main" /\ work' = work /\ works[c] = <<>>
        BY <1>t, <3>3 DEF NothingLeft, Stopper
      <4> QED BY <2>1, <3>i, <4>1 DEF Loop
    <3>4. CASE Plain(c)
      <4>1. spc[c] = "plain" /\ spc'[c] = "signal" /\ work' = work
        BY <1>t, <3>4 DEF Plain, Stopper
      <4> QED BY <2>1, <2>3, <3>i, <4>1 DEF Loop, Past
    <3>5. CASE Poll(c)
      <4>1. /\ spc[c] = "poll" /\ spc'[c] \in {"run", "ack"} /\ work' = work
            /\ curstate'[c] = state[work[c]] /\ curstate[c] # state[work[c]]
            /\ irqs' = IF state[work[c]] = MULTI_STOP_DISABLE_IRQ THEN irqs \ {c} ELSE irqs
        BY <1>t, <3>5 DEF Poll, Stopper
      <4>2. work[c] \in Tasks /\ Multi(work[c])
        BY <1>n, <3>i, <4>1
      <4>3. curstate[c] \in Int /\ curstate[c] = state[work[c]] - 1 /\ state[work[c]] \in Int
        BY <4>1, <4>2, MultiFacts DEF InLoop
      <4>4. c \notin irqs' \/ curstate'[c] < MULTI_STOP_DISABLE_IRQ
        <5>1. CASE state[work[c]] = MULTI_STOP_DISABLE_IRQ
          BY <4>1, <5>1
        <5>2. CASE state[work[c]] > MULTI_STOP_DISABLE_IRQ
          BY <3>i, <4>1, <4>2, <4>3, <5>2, <1>n DEF Loop, MULTI_STOP_DISABLE_IRQ
        <5> QED BY <4>1, <4>3, <5>1, <5>2 DEF MULTI_STOP_DISABLE_IRQ
      <4>5. curstate'[c] \in Int
        BY <4>1, <4>3
      <4> QED BY <2>1, <2>3, <3>i, <4>1, <4>2, <4>4, <4>5, <1>n
              DEF Loop, Past, MULTI_STOP_DISABLE_IRQ
    <3>6. CASE Run(c)
      <4>1. spc[c] = "run" /\ spc'[c] = "ack" /\ work' = work /\ irqs' = irqs /\ curstate' = curstate
        BY <1>t, <3>6 DEF Run, Stopper
      <4> QED BY <2>1, <2>3, <3>i, <4>1 DEF Loop, Past
    <3>7. CASE AckState(c)
      <4>1. /\ spc[c] = "ack" /\ spc'[c] \in {"reset", "leave", "poll"} /\ work' = work
            /\ irqs' = irqs /\ curstate' = curstate
        BY <1>t, <3>7 DEF AckState, AfterAck, Stopper
      <4> QED BY <2>1, <2>3, <3>i, <4>1 DEF Loop, Past
    <3>8. CASE Reset(c)
      <4>1. spc[c] = "reset" /\ spc'[c] = "set" /\ work' = work /\ irqs' = irqs /\ curstate' = curstate
        BY <1>t, <3>8 DEF Reset, Stopper
      <4> QED BY <2>1, <2>3, <3>i, <4>1 DEF Loop, Past
    <3>9. CASE SetState(c)
      <4>1. /\ spc[c] = "set" /\ spc'[c] \in {"leave", "poll"} /\ work' = work
            /\ irqs' = irqs /\ curstate' = curstate
        BY <1>t, <3>9 DEF SetState, AfterAck, Stopper
      <4> QED BY <2>1, <2>3, <3>i, <4>1 DEF Loop, Past
    <3>10. CASE Leave(c)
      <4>1. spc[c] = "leave" /\ spc'[c] = "signal" /\ work' = work
        BY <1>t, <3>10 DEF Leave, Stopper
      <4> QED BY <2>1, <2>3, <3>i, <4>1 DEF Loop, Past
    <3>11. CASE Signal(c)
      <4>1. /\ spc[c] = "signal"
            /\ \/ spc'[c] = "complete" /\ work'[c] = work[c]
               \/ spc'[c] = "repeat" /\ work'[c] = None
        BY <1>t, <3>11 DEF Signal, Stopper
      <4> QED BY <2>1, <2>3, <3>i, <4>1 DEF Loop, Past
    <3>12. CASE Complete(c)
      <4>1. spc[c] = "complete" /\ spc'[c] = "repeat" /\ work'[c] = None
        BY <1>t, <3>12 DEF Complete, Stopper
      <4> QED BY <2>1, <3>i, <4>1 DEF Loop
    <3> HIDE DEF Types, stoppers
    <3> QED BY <1>3, <3>1, <3>2, <3>3, <3>4, <3>5, <3>6, <3>7, <3>8, <3>9, <3>10, <3>11, <3>12
            DEF StopperStep
  <2>5. StopperInv(c)'
    BY <2>2, <2>4 DEF StopperInv, Multi
  <2> QED BY <1>1, <2>5
<1> QED BY <1>2, <1>3

(* A stopper takes works off its list in their order, so that no two change places. *)
LEMMA StopperBefore ==
  ASSUME StopInv, NEW c \in Cpu, StopperStep(c), NEW d \in Cpu, NEW t \in Tasks, NEW u \in Tasks,
         Before(d, t, u)'
  PROVE  Before(d, t, u)
<1>t. Types /\ works[c] \in Seq(Tasks) /\ Len(works[c]) \in Nat /\ t # None
  <2>1. Types /\ works[c] \in Seq(Tasks)
    BY DEF StopInv, Types
  <2>2. Len(works[c]) \in Nat
    BY <2>1, LenProperties
  <2> QED BY <2>1, <2>2, StopAssumption
<1>1. CASE d # c
  <2>1. works'[d] = works[d] /\ work'[d] = work[d]
    BY <1>1, <1>t, StopperLocal
  <2> QED BY <2>1 DEF Before
<1>2. CASE d = c /\ Take(c)
  <2>1. /\ work'[c] = works[c][1] /\ Len(works'[c]) = Len(works[c]) - 1
        /\ 1 \in 1 .. Len(works[c])
        /\ \A i \in 1 .. Len(works[c]) - 1 : works'[c][i] = works[c][i + 1]
    BY <1>t, <1>2, TakeList
  <2>2. \A i \in 1 .. Len(works'[c]) :
          /\ works'[c][i] = works[c][i + 1]
          /\ i + 1 \in 1 .. Len(works[c]) /\ 1 < i + 1 /\ i \in Int
    BY <1>t, <2>1
  <2>3. CASE work'[c] = t /\ \E i \in 1 .. Len(works'[c]) : works'[c][i] = u
    <3>1. PICK i \in 1 .. Len(works'[c]) : works'[c][i] = u
      BY <2>3
    <3> DEFINE j == i + 1
    <3>2. j \in 1 .. Len(works[c]) /\ 1 < j /\ works[c][j] = u /\ works[c][1] = t
      BY <2>1, <2>2, <2>3, <3>1
    <3> HIDE DEF j
    <3> QED BY <1>2, <2>1, <3>2 DEF Before
  <2>4. CASE \E i, j \in 1 .. Len(works'[c]) : i < j /\ works'[c][i] = t /\ works'[c][j] = u
    <3>1. PICK i \in 1 .. Len(works'[c]), j \in 1 .. Len(works'[c]) :
            i < j /\ works'[c][i] = t /\ works'[c][j] = u
      BY <2>4
    <3> DEFINE k == i + 1
               l == j + 1
    <3>2. /\ k \in 1 .. Len(works[c]) /\ l \in 1 .. Len(works[c])
          /\ works[c][k] = t /\ works[c][l] = u
      BY <2>2, <3>1
    <3>3. k < l
      BY <2>2, <3>1
    <3> HIDE DEF k, l
    <3> QED BY <1>2, <3>2, <3>3 DEF Before
  <2> QED BY <1>2, <2>3, <2>4 DEF Before
<1>3. CASE d = c /\ ~Take(c)
  <2>1. works' = works /\ work'[c] \in {work[c], None}
    BY <1>t, <1>3 DEF StopperStep, Park, ShouldRun, NothingLeft, Plain, Poll, Run, AckState,
                      Reset, SetState, Leave, Signal, Complete, stoppers, Types
  <2> QED BY <1>t, <1>3, <2>1 DEF Before
<1> QED BY <1>1, <1>2, <1>3

(* Only the function that takes a cpu down changes what is online, and leaves the
   cpus it does not run on. *)
LEMMA StopperHotplug ==
  ASSUME StopInv, NEW c \in Cpu, StopperStep(c)
  PROVE  HotplugInv'
<1>t. Types /\ HotplugInv
  BY DEF StopInv
<1>u. UNCHANGED <<kind, pc, mask, todo, active, readers, writer>>
  BY <1>t, StopperLocal
<1>1. CASE enabled' = enabled /\ online' = online
  BY <1>t, <1>u, <1>1 DEF HotplugInv
<1>2. CASE Run(c) /\ kind[work[c]] = "down"
  <2> DEFINE t == work[c]
  <2>1. spc[c] = "run" /\ enabled' = enabled \ {c} /\ online' = online \ {c}
    BY <1>2 DEF Run, Stopper
  <2>2. t \in Tasks /\ Multi(t)
    <3>1. StopperInv(c) /\ work[c] \in Tasks \cup {None}
      BY <1>t DEF StopInv, Types
    <3>2. work[c] # None
      BY <2>1, <3>1 DEF StopperInv
    <3> QED BY <1>2, <3>1, <3>2 DEF Multi
  <2>3. /\ MultiInv(t) /\ ListInv(t) /\ c \in active[t] /\ state[t] = MULTI_STOP_RUN
        /\ pc[t] \in {"queue", "wait", "unlock", "put"} /\ active[t] \in SUBSET Cpu
        /\ mask[t] \in SUBSET Cpu
    <3>1. InLoop(c, t) /\ MultiInv(t) /\ ListInv(t)
      BY <2>2, MultiFacts DEF CallInv
    <3>2. pc[t] \in {"queue", "wait", "unlock", "put"}
      BY <2>2, StopAssumption, Executing
    <3> QED BY <1>t, <2>1, <2>2, <3>1, <3>2 DEF InLoop, Types
  <2>4. pc[t] = "queue" => todo[t] = {}
    <3>1. ASSUME NEW d \in todo[t], pc[t] = "queue"
          PROVE  FALSE
      <4>1. d \in mask[t] /\ Behind(d, t)
        BY <2>3, <3>1 DEF ListInv, Behind, Pending
      <4> QED BY <2>3, <4>1 DEF MultiInv, MULTI_STOP_RUN, MULTI_STOP_PREPARE
    <3> QED BY <3>1
  <2>5. writer = t /\ readers = {} /\ t # None
    BY <1>2, <1>t, <2>2, StopAssumption DEF HotplugInv
  <2>6. \A u \in Tasks : kind[u] \in {"machine", "down"} => u = t
    BY <1>t, <2>2, <2>5 DEF HotplugInv
  <2>7. online' # {} /\ online' \ active[t] # {} /\ enabled' = online'
    BY <1>2, <1>t, <2>1, <2>2, <2>3 DEF HotplugInv
  <2> HIDE DEF t
  <2>8. \A u \in Tasks :
           /\ u \in readers' <=> kind'[u] = "machine"
           /\ writer' = u <=> kind'[u] = "down"
    BY <1>t, <1>u DEF HotplugInv
  <2>9. \A u \in Tasks :
           /\ kind'[u] = "down" => online' \ active'[u] # {}
           /\ kind'[u] \in {"machine", "down"} =>
                /\ pc'[u] \in {"mutex", "lg_lock"} => mask'[u] = online'
                /\ pc'[u] = "queue" => todo'[u] \subseteq online'
    BY <1>u, <2>3, <2>4, <2>6, <2>7
  <2> QED BY <1>u, <2>5, <2>7, <2>8, <2>9 DEF HotplugInv
<1>3. \/ enabled' = enabled /\ online' = online
      \/ Run(c) /\ kind[work[c]] = "down"
  BY DEF StopperStep, Park, ShouldRun, Take, NothingLeft, Plain, Poll, Run, AckState,
         Reset, SetState, Leave, Signal, Complete
<1> QED BY <1>1, <1>2, <1>3

LEMMA StopperKeeps ==
  ASSUME StopInv, NEW c \in Cpu, StopperStep(c)
  PROVE  StopInv'
<1>1. Types
  BY DEF StopInv
<1>2. \A t \in Tasks : Multi(t)' <=> Multi(t)
  BY <1>1, StopperLocal DEF Multi
<1>3. pc' = pc
  BY <1>1, StopperLocal
<1>4. NoReverseOrder'
  <2>1. NoReverseOrder
    BY DEF StopInv
  <2> QED BY <1>2, <2>1, StopperBefore DEF NoReverseOrder
<1>5. QueueingFirst'
  <2>1. QueueingFirst
    BY DEF StopInv
  <2> QED BY <1>2, <1>3, <2>1, StopperBefore DEF QueueingFirst
<1> QED BY <1>4, <1>5, TypesStopper, StopperHotplug, StopperStoppers, StopperCalls DEF StopInv

----------------------------------------------------------------------------
\* Where a task's call has no work

Nowhere(t) == \A c \in Cpu : work[c] # t /\ ~Listed(c, t)

(* A call has none before it has queued any, and none once it is completed. *)
LEMMA NoWork ==
  ASSUME StopInv, NEW t \in Tasks,
         \/ pc[t] \in Early \cup {"idle", "mutex", "unlock", "put"}
         \/ t \in completed
  PROVE  Nowhere(t)
<1>t. Types /\ CallInv(t) /\ mask[t] \subseteq Cpu
  BY DEF StopInv, Types
<1>1. CASE queued[t] = {}
  BY <1>t, <1>1 DEF CallInv, ListInv, Nowhere
<1>2. CASE t \in completed
  <2>1. Left(t) = {} /\ \A c \in Cpu : work[c] # t
    BY <1>t, <1>2 DEF CallInv, DoneInv
  <2>2. ASSUME NEW c \in Cpu, Listed(c, t)
        PROVE  FALSE
    <3>1. c \in mask[t]
      BY <1>t, <2>2 DEF CallInv, ListInv
    <3> QED BY <2>1, <2>2, <3>1 DEF Left
  <2> QED BY <2>1, <2>2 DEF Nowhere
<1>3. queued[t] = {} \/ t \in completed
  BY <1>t DEF CallInv, ListInv, DoneInv
<1> QED BY <1>1, <1>2, <1>3

(* Cpus are added to a list at its end. *)
LEMMA Appended ==
  ASSUME Types, NEW c \in Cpu, NEW t \in Tasks, works'[c] = Append(works[c], t)
  PROVE  /\ Len(works[c]) \in Nat /\ Len(works'[c]) = Len(works[c]) + 1
         /\ \A i \in 1 .. Len(works[c]) : works'[c][i] = works[c][i]
         /\ works'[c][Len(works[c]) + 1] = t
         /\ \A u : Listed(c, u)' <=> Listed(c, u) \/ u = t
<1>1. works[c] \in Seq(Tasks)
  BY DEF Types
<1> DEFINE s == works[c]
           n == Len(s)
<1>2. /\ n \in Nat /\ Len(Append(s, t)) = n + 1
      /\ \A i \in 1 .. n : Append(s, t)[i] = s[i]
      /\ Append(s, t)[n + 1] = t
  BY <1>1, AppendProperties
<1>3. /\ Len(works'[c]) = n + 1
      /\ \A i \in 1 .. n : works'[c][i] = works[c][i]
      /\ works'[c][n + 1] = t
  BY <1>2
<1>n. \A i \in 1 .. n + 1 : i \in 1 .. n \/ i = n + 1
  BY <1>2
<1>o. n + 1 \in 1 .. n + 1 /\ \A i \in 1 .. n : i \in 1 .. n + 1
  BY <1>2
<1>4. \A u : Listed(c, u)' <=> Listed(c, u) \/ u = t
  <2> HIDE DEF n
  <2>1. Len(works[c]) = n
    BY DEF n
  <2> QED BY <1>3, <1>n, <1>o, <2>1 DEF Listed
<1> QED BY <1>2, <1>3, <1>4

----------------------------------------------------------------------------
\* The steps of a task

(* They leave the stoppers where they are, but for the one that is unparked, ... *)
LEMMA TaskStoppers ==
  ASSUME Types, NEW t \in Tasks, Call(t) \/ Step(t)
  PROVE  /\ work' = work /\ curstate' = curstate /\ irqs' = irqs
         /\ \/ spc' = spc /\ enabled' = enabled /\ online' = online
            \/ \E cpu \in Cpu : CpuUp(t, cpu)
<1> USE DEF stoppers
<1>1. CASE Call(t)
  BY <1>1 DEF Call, StopOneCpu, CpuDown, CpuUp, StopTwoCpus, StopCpus, StopMachine
<1>2. CASE Step(t)
  BY <1>2 DEF Step, Mutex, TryFails, LgLock, LgLocked, OneQueue, OneNoEntry, Queue, QueueDone,
              TwoQueue, TwoNoEntry, Wait, WaitReturn, Unlock, PutOnlineCpus
<1> QED BY <1>1, <1>2

(* ... the other tasks' calls, ... *)
LEMMA TaskOwn ==
  ASSUME StopInv, NEW t \in Tasks, Call(t) \/ Step(t), NEW u \in Tasks, u # t
  PROVE  Own(u)
<1>t. Types /\ TaskInv(t) /\ u # None /\ t # None
  BY StopAssumption DEF StopInv, CallInv
<1> USE DEF Types, Goto, msdata, done, call, locks, hotplug, Own
<1>1. ASSUME NEW cpu \in Cpu, StopOneCpu(t, cpu)
      PROVE  Own(u)
  BY <1>t, <1>1 DEF StopOneCpu, Begin
<1>2. ASSUME NEW cpu \in Cpu, CpuDown(t, cpu)
      PROVE  Own(u)
  BY <1>t, <1>2 DEF CpuDown, Begin, Prepare
<1>3. ASSUME NEW cpu \in Cpu, CpuUp(t, cpu)
      PROVE  Own(u)
  BY <1>t, <1>3 DEF CpuUp
<1>4. ASSUME NEW c1 \in Cpu, NEW c2 \in Cpu, StopTwoCpus(t, c1, c2)
      PROVE  Own(u)
  BY <1>t, <1>4 DEF StopTwoCpus, Begin, Prepare
<1>5. ASSUME NEW k \in Kinds, NEW cpus \in SUBSET Cpu, StopCpus(t, k, cpus)
      PROVE  Own(u)
  BY <1>t, <1>5 DEF StopCpus, Begin
<1>6. ASSUME NEW cpus, StopMachine(t, cpus)
      PROVE  Own(u)
  BY <1>t, <1>6 DEF StopMachine, Begin, Prepare
<1>7. ASSUME Mutex(t)
      PROVE  Own(u)
  BY <1>t, <1>7 DEF Mutex
<1>8. ASSUME TryFails(t)
      PROVE  Own(u)
  BY <1>t, <1>8 DEF TryFails, Return
<1>9. ASSUME LgLock(t)
      PROVE  Own(u)
  BY <1>t, <1>9 DEF LgLock
<1>10. ASSUME LgLocked(t)
       PROVE  Own(u)
  BY <1>t, <1>10 DEF LgLocked
<1>q. ASSUME NEW cpu, QueueOn(t, cpu)
      PROVE  /\ queued'[u] = queued[u] /\ nr_todo'[u] = nr_todo[u]
             /\ u \in completed' <=> u \in completed
  BY <1>t, <1>q DEF QueueOn
<1>11. ASSUME OneQueue(t)
       PROVE  Own(u)
  BY <1>t, <1>11, <1>q DEF OneQueue
<1>12. ASSUME OneNoEntry(t)
       PROVE  Own(u)
  BY <1>t, <1>12 DEF OneNoEntry, Return
<1>13. ASSUME Queue(t)
       PROVE  Own(u)
  BY <1>t, <1>13, <1>q DEF Queue
<1>14. ASSUME QueueDone(t)
       PROVE  Own(u)
  BY <1>t, <1>14 DEF QueueDone, LgUnlock
<1>15. ASSUME TwoQueue(t)
       PROVE  Own(u)
  BY <1>t, <1>15 DEF TwoQueue, LgUnlock
<1>16. ASSUME TwoNoEntry(t)
       PROVE  Own(u)
  BY <1>t, <1>16 DEF TwoNoEntry, Return, LgUnlock
<1>17. ASSUME Wait(t)
       PROVE  Own(u)
  BY <1>t, <1>17 DEF Wait
<1>18. ASSUME WaitReturn(t)
       PROVE  Own(u)
  BY <1>t, <1>18 DEF WaitReturn, Return
<1>19. ASSUME Unlock(t)
       PROVE  Own(u)
  <2>1. stop_cpus_mutex = t
    BY <1>t, <1>19 DEF Unlock, TaskInv
  <2> QED BY <1>t, <1>19, <2>1 DEF Unlock
<1>20. ASSUME PutOnlineCpus(t)
       PROVE  Own(u)
  BY <1>t, <1>20 DEF PutOnlineCpus, Return
<1> HIDE DEF Types, Goto, msdata, done, call, locks, hotplug, Own
<1> QED BY <1>1, <1>2, <1>3, <1>4, <1>5, <1>6, <1>7, <1>8, <1>9, <1>10, <1>11, <1>12, <1>13,
           <1>14, <1>15, <1>16, <1>17, <1>18, <1>19, <1>20 DEF Call, Step

(* ... and the lists, but for its own work, which is added where it is to be queued,
   where it is not yet, and where the stopper is enabled. *)
LEMMA TaskWorks ==
  ASSUME StopInv, NEW t \in Tasks, Call(t) \/ Step(t), NEW c \in Cpu
  PROVE  \/ works'[c] = works[c]
         \/ /\ works'[c] = Append(works[c], t)
            /\ c \in enabled /\ enabled' = enabled /\ pc'[t] \in {"queue", "wait"} /\ kind' = kind
            /\ c \in mask[t] /\ work[c] # t /\ ~Listed(c, t)
            /\ \/ OneQueue(t) \/ Queue(t) \/ TwoQueue(t)
<1>t. Types /\ TaskInv(t) /\ ListInv(t)
  BY DEF StopInv, CallInv
<1>1. CASE Call(t)
  BY <1>1 DEF Call, StopOneCpu, CpuDown, CpuUp, StopTwoCpus, StopCpus, StopMachine
<1>2. CASE Step(t) /\ ~OneQueue(t) /\ ~Queue(t) /\ ~TwoQueue(t)
  BY <1>2 DEF Step, Mutex, TryFails, LgLock, LgLocked, OneNoEntry, QueueDone,
              TwoNoEntry, Wait, WaitReturn, Unlock, PutOnlineCpus
<1>q. ASSUME NEW cpu \in Cpu, QueueOn(t, cpu), works'[c] # works[c]
      PROVE  c = cpu /\ c \in enabled /\ works'[c] = Append(works[c], t)
  <2>1. CASE cpu \in enabled
    <3>1. works' = [works EXCEPT ![cpu] = Append(works[cpu], t)]
      BY <1>q, <2>1 DEF QueueOn
    <3> QED BY <1>t, <1>q, <2>1, <3>1 DEF Types
  <2>2. CASE cpu \notin enabled
    BY <1>q, <2>2 DEF QueueOn
  <2> QED BY <2>1, <2>2
<1>3. CASE OneQueue(t) /\ works'[c] # works[c]
  <2>1. PICK cpu \in mask[t] : QueueOn(t, cpu)
    BY <1>3 DEF OneQueue
  <2>2. cpu \in Cpu /\ Nowhere(t)
    BY <1>t, <1>3, NoWork DEF OneQueue, Goto, Types, Early
  <2>3. c = cpu /\ c \in enabled /\ works'[c] = Append(works[c], t)
    BY <1>3, <1>q, <2>1, <2>2
  <2> QED BY <1>t, <1>3, <2>1, <2>2, <2>3 DEF OneQueue, Goto, Types, Nowhere
<1>4. CASE Queue(t) /\ works'[c] # works[c]
  <2>1. /\ pc[t] = "queue" /\ todo[t] # {} /\ todo[t] \in SUBSET Cpu /\ QueueOn(t, Min(todo[t]))
        /\ enabled' = enabled /\ pc' = pc /\ kind' = kind
    BY <1>t, <1>4 DEF Queue, Types
  <2>2. Min(todo[t]) \in todo[t] /\ Min(todo[t]) \in Cpu
    BY <2>1, FirstCpu
  <2>3. c \in todo[t] /\ c \in enabled /\ works'[c] = Append(works[c], t)
    BY <1>4, <1>q, <2>1, <2>2
  <2>4. c \in mask[t] /\ c \notin queued[t]
    BY <1>t, <2>1, <2>3 DEF ListInv
  <2>5. work[c] # t /\ ~Listed(c, t)
    BY <1>t, <2>4 DEF ListInv
  <2> QED BY <1>4, <2>1, <2>3, <2>4, <2>5
<1>5. CASE TwoQueue(t) /\ works'[c] # works[c]
  <2>1. /\ pc[t] = "two_queue" /\ mask[t] \subseteq enabled /\ enabled' = enabled
        /\ pc'[t] = "wait" /\ kind' = kind
        /\ works'[c] = IF c \in mask[t] THEN Append(works[c], t) ELSE works[c]
    BY <1>t, <1>5 DEF TwoQueue, Goto, Types
  <2>2. Nowhere(t)
    BY <2>1, NoWork DEF Early
  <2> QED BY <1>5, <2>1, <2>2 DEF Nowhere
<1> QED BY <1>1, <1>2, <1>3, <1>4, <1>5

LEMMA TaskOthers ==
  ASSUME StopInv, NEW t \in Tasks, Call(t) \/ Step(t), NEW u \in Tasks, u # t
  PROVE  CallInv(u)'
<1>t. Types /\ CallInv(u) /\ Own(u)
  BY TaskOwn DEF StopInv
<1>1. work' = work /\ curstate' = curstate
  BY <1>t, TaskStoppers
<1>2. ASSUME NEW c \in Cpu, work[c] = u
      PROVE  spc'[c] = spc[c]
  <2>1. CASE spc' = spc
    BY <2>1
  <2>2. ASSUME NEW cpu \in Cpu, CpuUp(t, cpu)
        PROVE  spc'[c] = spc[c]
    <3>1. spc[c] # "parked"
      BY <1>2, StopAssumption DEF StopInv, StopperInv
    <3> QED BY <1>t, <2>2, <3>1 DEF CpuUp, Types
  <2> QED BY <1>t, <2>1, <2>2, TaskStoppers
<1>3. ASSUME NEW c \in Cpu
      PROVE  Listed(c, u)' <=> Listed(c, u)
  <2>1. CASE works'[c] = works[c]
    BY <2>1 DEF Listed
  <2>2. CASE works'[c] = Append(works[c], t)
    BY <1>t, <2>2, Appended
  <2> QED BY <2>1, <2>2, TaskWorks
<1>4. \A c \in Cpu : SameOn(c, u)
  BY <1>1, <1>2, <1>3 DEF SameOn
<1> QED BY <1>t, <1>4, FrameCall

(* A task begins and ends a call only while it has no work anywhere. *)
LEMMA TaskKind ==
  ASSUME StopInv, NEW t \in Tasks, Call(t) \/ Step(t)
  PROVE  kind' = kind \/ Nowhere(t)
<1>1. CASE pc[t] \in {"idle", "mutex", "one_queue", "two_queue", "unlock", "put"}
  BY <1>1, NoWork DEF Early
<1>2. CASE t \in completed
  BY <1>2, NoWork
<1>3. CASE Call(t) /\ pc[t] # "idle"
  BY <1>3 DEF Call, StopOneCpu, CpuDown, CpuUp, StopTwoCpus, StopCpus, StopMachine, Begin, Goto
<1>4. CASE /\ Step(t) /\ t \notin completed
           /\ pc[t] \notin {"idle", "mutex", "one_queue", "two_queue", "unlock", "put"}
  BY <1>4 DEF Step, Mutex, TryFails, LgLock, LgLocked, OneQueue, OneNoEntry, Queue, QueueDone,
              TwoQueue, TwoNoEntry, Wait, WaitReturn, Unlock, PutOnlineCpus, Return, Goto, call
<1> QED BY <1>1, <1>2, <1>3, <1>4

LEMMA TaskKinds ==
  ASSUME StopInv, NEW t \in Tasks, Call(t) \/ Step(t), NEW c \in Cpu, work[c] # None
  PROVE  kind'[work[c]] = kind[work[c]]
<1>1. work[c] \in Tasks
  BY DEF StopInv, Types
<1>2. CASE work[c] = t
  BY <1>2, TaskKind DEF Nowhere
<1>3. CASE work[c] # t
  BY <1>1, <1>3, TaskOwn DEF Own
<1> QED BY <1>2, <1>3

LEMMA TaskStopper ==
  ASSUME StopInv, NEW t \in Tasks, Call(t) \/ Step(t), NEW c \in Cpu
  PROVE  StopperInv(c)'
<1>t. Types /\ StopperInv(c) /\ t # None
  BY StopAssumption DEF StopInv
<1>1. work'[c] = work[c] /\ curstate' = curstate /\ irqs' = irqs
  BY <1>t, TaskStoppers
<1>2. /\ work'[c] # None =>
           spc[c] \in IF kind'[work'[c]] \in {"two", "machine", "down"}
                        THEN Loop \cup Past ELSE {"plain", "signal", "complete"}
  BY <1>t, <1>1, TaskKinds DEF StopperInv, Multi
<1>3. /\ \A i, j \in 1 .. Len(works'[c]) : works'[c][i] = works'[c][j] => i = j
      /\ \A i \in 1 .. Len(works'[c]) : works'[c][i] # work'[c]
  <2>1. CASE works'[c] = works[c]
    BY <1>t, <1>1, <2>1 DEF StopperInv
  <2>2. CASE works'[c] = Append(works[c], t) /\ work[c] # t /\ ~Listed(c, t)
    <3> DEFINE n == Len(works[c])
    <3>1. /\ n \in Nat /\ Len(works'[c]) = n + 1 /\ works'[c][n + 1] = t
          /\ \A i \in 1 .. n : works'[c][i] = works[c][i] /\ works[c][i] # t
      BY <1>t, <2>2, Appended DEF Listed
    <3>2. \A i \in 1 .. n + 1 : i \in 1 .. n \/ i = n + 1
      BY <3>1
    <3>3. /\ \A i, j \in 1 .. n : works[c][i] = works[c][j] => i = j
          /\ \A i \in 1 .. n : works[c][i] # work[c]
      BY <1>t DEF StopperInv
    <3> HIDE DEF n
    <3> QED BY <1>1, <2>2, <3>1, <3>2, <3>3
  <2> QED BY <2>1, <2>2, TaskWorks
<1>4. works'[c] = works[c] \/ (c \in enabled /\ enabled' = enabled)
  BY TaskWorks
<1>5. CASE spc' = spc /\ enabled' = enabled
  <2>1. /\ work'[c] = None <=> spc'[c] \in {"main", "parked", "repeat"}
        /\ spc'[c] = "parked" => c \notin enabled'
        /\ c \notin enabled' /\ spc'[c] \in {"main", "parked"} => works'[c] = <<>>
        /\ /\ work'[c] # None /\ spc'[c] \in Loop \cup {"leave"}
           /\ curstate'[c] >= MULTI_STOP_DISABLE_IRQ
           => c \notin irqs'
    BY <1>t, <1>1, <1>4, <1>5 DEF StopperInv
  <2> QED BY <1>2, <1>3, <1>5, <2>1 DEF StopperInv, Multi
<1>6. ASSUME NEW cpu \in Cpu, CpuUp(t, cpu)
      PROVE  StopperInv(c)'
  <2>1. /\ spc[cpu] = "parked" /\ works' = works /\ enabled' = enabled \cup {cpu}
        /\ spc'[c] = IF c = cpu THEN "main" ELSE spc[c]
    BY <1>t, <1>6 DEF CpuUp, Types
  <2>2. /\ work'[c] = None <=> spc'[c] \in {"main", "parked", "repeat"}
        /\ work'[c] # None => spc'[c] = spc[c]
        /\ spc'[c] = "parked" => c \notin enabled'
        /\ c \notin enabled' /\ spc'[c] \in {"main", "parked"} => works'[c] = <<>>
    BY <1>t, <1>1, <2>1 DEF StopperInv
  <2>3. /\ work'[c] # None /\ spc'[c] \in Loop \cup {"leave"}
        /\ curstate'[c] >= MULTI_STOP_DISABLE_IRQ
        => c \notin irqs'
    BY <1>t, <1>1, <2>2 DEF StopperInv
  <2> QED BY <1>2, <1>3, <2>2, <2>3 DEF StopperInv, Multi
<1> QED BY <1>t, <1>5, <1>6, TaskStoppers

----------------------------------------------------------------------------
\* The order of the works

LEMMA TaskBefore ==
  ASSUME StopInv, NEW t \in Tasks, Call(t) \/ Step(t), NEW c \in Cpu,
         NEW x \in Tasks, NEW y \in Tasks, Before(c, x, y)'
  PROVE  \/ Before(c, x, y)
         \/ y = t /\ x # t /\ c \in mask[t] /\ (OneQueue(t) \/ Queue(t) \/ TwoQueue(t)) /\ kind' = kind
<1>t. Types /\ t # None
  BY StopAssumption DEF StopInv
<1>w. work'[c] = work[c]
  BY <1>t, TaskStoppers
<1>1. CASE works'[c] = works[c]
  BY <1>w, <1>1 DEF Before
<1>2. CASE works'[c] = Append(works[c], t) /\ works'[c] # works[c]
  <2>0. /\ c \in mask[t] /\ work[c] # t /\ ~Listed(c, t) /\ kind' = kind
        /\ (OneQueue(t) \/ Queue(t) \/ TwoQueue(t))
    BY <1>2, TaskWorks
  <2> DEFINE n == Len(works[c])
  <2>1. /\ n \in Nat /\ Len(works'[c]) = n + 1 /\ works'[c][n + 1] = t
        /\ \A i \in 1 .. n : works'[c][i] = works[c][i] /\ works[c][i] # t
    BY <1>t, <1>2, <2>0, Appended DEF Listed
  <2>2. \A i \in 1 .. n + 1 : i \in 1 .. n \/ i = n + 1
    BY <2>1
  <2>3. \A i, j \in 1 .. n + 1 : i < j => i \in 1 .. n
    BY <2>1
  <2>b. Before(c, x, y) <=>
          \/ work[c] = x /\ \E i \in 1 .. n : works[c][i] = y
          \/ \E i, j \in 1 .. n : i < j /\ works[c][i] = x /\ works[c][j] = y
    BY DEF Before
  <2> HIDE DEF n
  <2>4. CASE work'[c] = x /\ \E i \in 1 .. Len(works'[c]) : works'[c][i] = y
    BY <1>w, <2>0, <2>1, <2>2, <2>4, <2>b
  <2>5. CASE \E i, j \in 1 .. Len(works'[c]) : i < j /\ works'[c][i] = x /\ works'[c][j] = y
    <3>1. PICK i \in 1 .. n + 1, j \in 1 .. n + 1 :
            i < j /\ works'[c][i] = x /\ works'[c][j] = y
      BY <2>1, <2>5
    <3>2. i \in 1 .. n /\ works[c][i] = x /\ x # t
      BY <2>1, <2>3, <3>1
    <3>3. CASE j \in 1 .. n
      BY <2>1, <2>b, <3>1, <3>2, <3>3
    <3>4. CASE j = n + 1
      BY <2>0, <2>1, <3>1, <3>2, <3>4
    <3> QED BY <2>2, <3>1, <3>3, <3>4
  <2> QED BY <2>4, <2>5 DEF Before
<1> QED BY <1>1, <1>2, TaskWorks

(* A call that waits for several cpus is added behind another on some cpu only if it
   is before that one on none: either it is not queued on any yet, or it holds every
   part of stop_cpus_lock and has been first since then. *)
LEMMA TaskOrder ==
  ASSUME StopInv, NEW t \in Tasks, Call(t) \/ Step(t)
  PROVE  NoReverseOrder' /\ QueueingFirst'
<1>t. Types /\ t # None /\ NoReverseOrder /\ QueueingFirst /\ CallInv(t)
  BY StopAssumption DEF StopInv
<1>1. ASSUME NEW x \in Tasks, NEW y \in Tasks, NEW c \in Cpu, Before(c, x, y)
      PROVE  /\ ~Nowhere(x) /\ ~Nowhere(y)
  BY <1>1 DEF Before, Nowhere, Listed
<1>2. ASSUME NEW x \in Tasks, ~Nowhere(x)
      PROVE  Multi(x)' <=> Multi(x)
  <2>1. CASE x = t
    BY <1>2, <2>1, TaskKind DEF Multi
  <2>2. CASE x # t
    BY <2>2, TaskOwn DEF Multi, Own
  <2> QED BY <2>1, <2>2
<1>3. ASSUME NEW x \in Tasks, NEW c \in Cpu, c \in mask[t], OneQueue(t) \/ Queue(t) \/ TwoQueue(t),
             kind' = kind, Multi(t)', x # t
      PROVE  /\ Multi(x)' <=> Multi(x)
             /\ Multi(x) => \A d \in Cpu : ~Before(d, t, x)
             /\ pc[x] # "queue"
  <2>1. Multi(t) /\ (Multi(x)' <=> Multi(x))
    BY <1>3 DEF Multi
  <2>2. ~OneQueue(t)
    BY <1>t, <2>1 DEF OneQueue, Goto, CallInv, TaskInv, Multi
  <2>3. CASE Queue(t)
    <3>1. pc[t] = "queue"
      BY <2>3 DEF Queue
    <3>2. lglock[c] = t
      BY <1>t, <3>1 DEF CallInv, LgInv
    <3>3. pc[x] # "queue"
      BY <1>3, <3>2 DEF StopInv, CallInv, LgInv
    <3> QED BY <1>t, <1>3, <2>1, <3>1, <3>3 DEF QueueingFirst
  <2>4. CASE TwoQueue(t)
    <3>1. pc[t] = "two_queue"
      BY <2>4 DEF TwoQueue, Goto
    <3>2. lglock[c] = t /\ Nowhere(t)
      BY <1>t, <1>3, <3>1, NoWork DEF CallInv, LgInv, Early
    <3>3. pc[x] # "queue"
      BY <1>3, <3>2 DEF StopInv, CallInv, LgInv
    <3> QED BY <1>1, <2>1, <3>2, <3>3
  <2> QED BY <1>3, <2>2, <2>3, <2>4
<1>4. ASSUME NEW x \in Tasks, NEW y \in Tasks, NEW c \in Cpu, NEW d \in Cpu,
             Multi(x)', Multi(y)', x # y, Before(c, x, y)', Before(d, y, x)'
      PROVE  FALSE
  <2>1. CASE Before(c, x, y) /\ Before(d, y, x)
    BY <1>t, <1>1, <1>2, <1>4, <2>1 DEF NoReverseOrder
  <2>2. CASE ~Before(c, x, y)
    <3>1. /\ y = t /\ x # t /\ c \in mask[t] /\ kind' = kind
          /\ (OneQueue(t) \/ Queue(t) \/ TwoQueue(t))
      BY <1>4, <2>2, TaskBefore
    <3>2. Before(d, y, x)
      BY <1>4, <3>1, TaskBefore
    <3> QED BY <1>3, <1>4, <3>1, <3>2
  <2>3. CASE ~Before(d, y, x)
    <3>1. /\ x = t /\ y # t /\ d \in mask[t] /\ kind' = kind
          /\ (OneQueue(t) \/ Queue(t) \/ TwoQueue(t))
      BY <1>4, <2>3, TaskBefore
    <3>2. Before(c, x, y)
      BY <1>4, <3>1, TaskBefore
    <3> QED BY <1>3, <1>4, <3>1, <3>2
  <2> QED BY <2>1, <2>2, <2>3
<1>5. ASSUME NEW x \in Tasks, NEW y \in Tasks, NEW c \in Cpu,
             pc'[x] = "queue", Multi(x)', Multi(y)', x # y, Before(c, x, y)'
      PROVE  FALSE
  <2>1. CASE Before(c, x, y)
    <3>1. pc[x] # "queue"
      BY <1>t, <1>1, <1>2, <1>5, <2>1 DEF QueueingFirst
    <3>2. x = t
      BY <1>5, <3>1, TaskOwn DEF Own
    <3>3. pc[t] = "lg_lock"
      BY <1>t, <1>5, <3>1, <3>2 DEF Call, Step, StopOneCpu, CpuDown, CpuUp, StopTwoCpus, StopCpus,
            StopMachine, Begin, Mutex, TryFails, LgLock, LgLocked, OneQueue, OneNoEntry, Queue,
            QueueDone, TwoQueue, TwoNoEntry, Wait, WaitReturn, Unlock, PutOnlineCpus, Return,
            Goto, Types
    <3> QED BY <1>1, <2>1, <3>2, <3>3, NoWork DEF Early
  <2>2. CASE ~Before(c, x, y)
    <3>1. /\ y = t /\ x # t /\ c \in mask[t] /\ kind' = kind
          /\ (OneQueue(t) \/ Queue(t) \/ TwoQueue(t))
      BY <1>5, <2>2, TaskBefore
    <3>2. pc[x] = "queue"
      BY <1>5, <3>1, TaskOwn DEF Own
    <3> QED BY <1>3, <1>5, <3>1, <3>2
  <2> QED BY <2>1, <2>2
<1> QED BY <1>4, <1>5 DEF NoReverseOrder, QueueingFirst

----------------------------------------------------------------------------
\* Cpu hotplug

(* What the steps that neither begin nor end a call, and those that end one that has
   nothing to do with cpu hotplug, leave as it is. *)
LEMMA HotplugKept ==
  ASSUME Types, HotplugInv, NEW t \in Tasks,
         UNCHANGED <<enabled, online, readers, writer>>,
         \A u \in Tasks \ {t} : /\ kind'[u] = kind[u] /\ active'[u] = active[u]
                                /\ pc'[u] = pc[u] /\ mask'[u] = mask[u] /\ todo'[u] = todo[u],
         \/ /\ kind'[t] = kind[t] /\ active'[t] = active[t] /\ mask'[t] = mask[t]
            /\ \/ pc'[t] \in {"wait", "unlock", "put"}
               \/ pc'[t] = "lg_lock" /\ pc[t] \in {"mutex", "lg_lock"}
               \/ pc'[t] = "queue" /\ pc[t] = "lg_lock" /\ todo'[t] = mask[t]
               \/ pc'[t] = "queue" /\ pc[t] = "queue" /\ todo'[t] \subseteq todo[t]
         \/ {kind[t], kind'[t]} \cap {"machine", "down"} = {}
  PROVE  HotplugInv'
<1>1. /\ enabled = online /\ online # {}
      /\ readers # {} => writer = None
  BY DEF HotplugInv
<1>2. ASSUME NEW u \in Tasks
      PROVE  /\ u \in readers' <=> kind'[u] = "machine"
             /\ writer' = u <=> kind'[u] = "down"
             /\ kind'[u] = "down" => online' \ active'[u] # {}
             /\ kind'[u] \in {"machine", "down"} =>
                  /\ pc'[u] \in {"mutex", "lg_lock"} => mask'[u] = online'
                  /\ pc'[u] = "queue" => todo'[u] \subseteq online'
  <2>1. /\ u \in readers <=> kind[u] = "machine"
        /\ writer = u <=> kind[u] = "down"
        /\ kind[u] = "down" => online \ active[u] # {}
        /\ kind[u] \in {"machine", "down"} =>
             /\ pc[u] \in {"mutex", "lg_lock"} => mask[u] = online
             /\ pc[u] = "queue" => todo[u] \subseteq online
    BY DEF HotplugInv
  <2>2. CASE u # t
    BY <2>1, <2>2
  <2>3. CASE u = t
    BY <2>1, <2>3
  <2> QED BY <2>2, <2>3
<1> QED BY <1>1, <1>2 DEF HotplugInv

LEMMA TaskHotplug ==
  ASSUME StopInv, NEW t \in Tasks, Call(t) \/ Step(t)
  PROVE  HotplugInv'
<1>t. Types /\ HotplugInv /\ TaskInv(t) /\ t # None
  BY StopAssumption DEF StopInv, CallInv
<1>o. \A u \in Tasks \ {t} : /\ kind'[u] = kind[u] /\ active'[u] = active[u]
                             /\ pc'[u] = pc[u] /\ mask'[u] = mask[u] /\ todo'[u] = todo[u]
  BY TaskOwn DEF Own
<1>r. ASSUME kind[t] \notin {"machine", "down"}, kind' = [kind EXCEPT ![t] = "none"],
             UNCHANGED <<enabled, online, readers, writer>>
      PROVE  HotplugInv'
  <2>1. {kind[t], kind'[t]} \cap {"machine", "down"} = {}
    BY <1>t, <1>r DEF Types
  <2> QED BY <1>t, <1>o, <1>r, <2>1, HotplugKept
<1>k. ASSUME NEW k \in Kinds \ {"machine", "down"}, kind[t] = "none", kind'[t] = k,
             UNCHANGED <<enabled, online, readers, writer>>
      PROVE  HotplugInv'
  <2>1. {kind[t], kind'[t]} \cap {"machine", "down"} = {}
    BY <1>k
  <2> QED BY <1>t, <1>o, <1>k, <2>1, HotplugKept
<1> USE DEF Types, Goto, msdata, done, call, locks, hotplug
<1>1. ASSUME NEW cpu \in Cpu, StopOneCpu(t, cpu)
      PROVE  HotplugInv'
  <2>1. kind[t] = "none" /\ kind'[t] = "one"
    BY <1>t, <1>1 DEF StopOneCpu, Begin, TaskInv
  <2>2. UNCHANGED <<enabled, online, readers, writer>>
    BY <1>1 DEF StopOneCpu
  <2> QED BY <1>k, <2>1, <2>2 DEF Kinds
<1>2. ASSUME NEW cpu \in Cpu, CpuDown(t, cpu)
      PROVE  HotplugInv'
  <2>1. /\ readers = {} /\ readers' = {} /\ writer = None /\ writer' = t
        /\ kind'[t] = "down" /\ active'[t] = {cpu} /\ mask'[t] = online /\ pc'[t] = "mutex"
        /\ UNCHANGED <<enabled, online>> /\ online # {cpu} /\ cpu \in online
    BY <1>t, <1>2 DEF CpuDown, Begin, Prepare
  <2>2. ASSUME NEW u \in Tasks
        PROVE  /\ u \in readers' <=> kind'[u] = "machine"
               /\ writer' = u <=> kind'[u] = "down"
               /\ kind'[u] = "down" => online' \ active'[u] # {}
               /\ kind'[u] \in {"machine", "down"} =>
                    /\ pc'[u] \in {"mutex", "lg_lock"} => mask'[u] = online'
                    /\ pc'[u] = "queue" => todo'[u] \subseteq online'
    <3>1. CASE u = t
      BY <2>1, <3>1
    <3>2. CASE u # t
      BY <1>t, <1>o, <2>1, <3>2, StopAssumption DEF HotplugInv
    <3> QED BY <3>1, <3>2
  <2> QED BY <1>t, <2>1, <2>2 DEF HotplugInv
<1>3. ASSUME NEW cpu \in Cpu, CpuUp(t, cpu)
      PROVE  HotplugInv'
  <2>1. /\ readers = {} /\ writer = None
        /\ enabled' = enabled \cup {cpu} /\ online' = online \cup {cpu}
        /\ UNCHANGED <<kind, pc, mask, todo, active, readers, writer>>
    BY <1>3 DEF CpuUp
  <2>2. \A u \in Tasks : kind[u] \notin {"machine", "down"}
    BY <1>t, <2>1, StopAssumption DEF HotplugInv
  <2> QED BY <1>t, <2>1, <2>2 DEF HotplugInv
<1>4. ASSUME NEW c1 \in Cpu, NEW c2 \in Cpu, StopTwoCpus(t, c1, c2)
      PROVE  HotplugInv'
  <2>1. kind[t] = "none" /\ kind'[t] = "two"
    BY <1>t, <1>4 DEF StopTwoCpus, Begin, TaskInv
  <2>2. UNCHANGED <<enabled, online, readers, writer>>
    BY <1>4 DEF StopTwoCpus
  <2> QED BY <1>k, <2>1, <2>2 DEF Kinds
<1>5. ASSUME NEW k \in Kinds, NEW cpus \in SUBSET Cpu, StopCpus(t, k, cpus)
      PROVE  HotplugInv'
  <2>1. kind[t] = "none" /\ kind'[t] = k /\ k \in {"cpus", "try"}
    BY <1>t, <1>5 DEF StopCpus, Begin, TaskInv
  <2>2. UNCHANGED <<enabled, online, readers, writer>>
    BY <1>5 DEF StopCpus
  <2> QED BY <1>k, <2>1, <2>2 DEF Kinds
<1>6. ASSUME NEW cpus \in SUBSET Cpu, StopMachine(t, cpus)
      PROVE  HotplugInv'
  <2>1. /\ readers' = readers \cup {t} /\ writer = None /\ writer' = None
        /\ kind'[t] = "machine" /\ mask'[t] = online /\ pc'[t] = "mutex"
        /\ UNCHANGED <<enabled, online>>
    BY <1>t, <1>6 DEF StopMachine, Begin, Prepare
  <2>2. ASSUME NEW u \in Tasks
        PROVE  /\ u \in readers' <=> kind'[u] = "machine"
               /\ writer' = u <=> kind'[u] = "down"
               /\ kind'[u] = "down" => online' \ active'[u] # {}
               /\ kind'[u] \in {"machine", "down"} =>
                    /\ pc'[u] \in {"mutex", "lg_lock"} => mask'[u] = online'
                    /\ pc'[u] = "queue" => todo'[u] \subseteq online'
    <3>1. CASE u = t
      BY <1>t, <2>1, <3>1
    <3>2. CASE u # t
      <4>1. /\ kind'[u] = kind[u] /\ mask'[u] = mask[u] /\ todo'[u] = todo[u]
            /\ pc'[u] = pc[u] /\ active'[u] = active[u]
        BY <1>o, <3>2
      <4>2. u \in readers <=> kind[u] = "machine"
        BY <1>t DEF HotplugInv
      <4>3. writer = u <=> kind[u] = "down"
        BY <1>t DEF HotplugInv
      <4>4. kind[u] \in {"machine", "down"} =>
              /\ pc[u] \in {"mutex", "lg_lock"} => mask[u] = online
              /\ pc[u] = "queue" => todo[u] \subseteq online
        BY <1>t DEF HotplugInv
      <4>5. u # None
        BY StopAssumption
      <4>6. kind[u] # "down" /\ writer' # u
        BY <2>1, <4>3, <4>5
      <4> QED BY <2>1, <3>2, <4>1, <4>2, <4>4, <4>6
    <3> QED BY <3>1, <3>2
  <2> QED BY <1>t, <2>1, <2>2 DEF HotplugInv
<1>7. ASSUME Mutex(t)
      PROVE  HotplugInv'
  BY <1>t, <1>o, <1>7, HotplugKept DEF Mutex
<1>8. ASSUME TryFails(t)
      PROVE  HotplugInv'
  <2>1. /\ kind[t] \notin {"machine", "down"} /\ kind' = [kind EXCEPT ![t] = "none"]
        /\ UNCHANGED <<enabled, online, readers, writer>>
    BY <1>t, <1>8 DEF TryFails, Return, TaskInv
  <2> QED BY <1>r, <2>1
<1>9. ASSUME LgLock(t)
      PROVE  HotplugInv'
  BY <1>t, <1>o, <1>9, HotplugKept DEF LgLock
<1>10. ASSUME LgLocked(t)
       PROVE  HotplugInv'
  BY <1>t, <1>o, <1>10, HotplugKept DEF LgLocked
<1>11. ASSUME OneQueue(t)
       PROVE  HotplugInv'
  BY <1>t, <1>o, <1>11, HotplugKept DEF OneQueue
<1>12. ASSUME OneNoEntry(t)
       PROVE  HotplugInv'
  <2>1. /\ kind[t] \notin {"machine", "down"} /\ kind' = [kind EXCEPT ![t] = "none"]
        /\ UNCHANGED <<enabled, online, readers, writer>>
    BY <1>t, <1>12 DEF OneNoEntry, Return, TaskInv
  <2> QED BY <1>r, <2>1
<1>13. ASSUME Queue(t)
       PROVE  HotplugInv'
  BY <1>t, <1>o, <1>13, HotplugKept DEF Queue
<1>14. ASSUME QueueDone(t)
       PROVE  HotplugInv'
  BY <1>t, <1>o, <1>14, HotplugKept DEF QueueDone
<1>15. ASSUME TwoQueue(t)
       PROVE  HotplugInv'
  BY <1>t, <1>o, <1>15, HotplugKept DEF TwoQueue
<1>16. ASSUME TwoNoEntry(t)
       PROVE  HotplugInv'
  <2>1. /\ kind[t] \notin {"machine", "down"} /\ kind' = [kind EXCEPT ![t] = "none"]
        /\ UNCHANGED <<enabled, online, readers, writer>>
    BY <1>t, <1>16 DEF TwoNoEntry, Return, TaskInv
  <2> QED BY <1>r, <2>1
<1>17. ASSUME Wait(t)
       PROVE  HotplugInv'
  BY <1>t, <1>o, <1>17, HotplugKept DEF Wait
<1>18. ASSUME WaitReturn(t)
       PROVE  HotplugInv'
  <2>1. /\ kind[t] \notin {"machine", "down"} /\ kind' = [kind EXCEPT ![t] = "none"]
        /\ UNCHANGED <<enabled, online, readers, writer>>
    BY <1>t, <1>18 DEF WaitReturn, Return, TaskInv
  <2> QED BY <1>r, <2>1
<1>19. ASSUME Unlock(t)
       PROVE  HotplugInv'
  BY <1>t, <1>o, <1>19, HotplugKept DEF Unlock
<1>20. ASSUME PutOnlineCpus(t)
       PROVE  HotplugInv'
  <2>1. /\ readers' = readers \ {t} /\ writer' = IF writer = t THEN None ELSE writer
        /\ kind'[t] = "none" /\ UNCHANGED <<enabled, online>>
    BY <1>t, <1>20 DEF PutOnlineCpus, Return
  <2>2. ASSUME NEW u \in Tasks
        PROVE  /\ u \in readers' <=> kind'[u] = "machine"
               /\ writer' = u <=> kind'[u] = "down"
               /\ kind'[u] = "down" => online' \ active'[u] # {}
               /\ kind'[u] \in {"machine", "down"} =>
                    /\ pc'[u] \in {"mutex", "lg_lock"} => mask'[u] = online'
                    /\ pc'[u] = "queue" => todo'[u] \subseteq online'
    <3>1. CASE u = t
      BY <1>t, <2>1, <3>1
    <3>2. CASE u # t
      BY <1>t, <1>o, <2>1, <3>2, StopAssumption DEF HotplugInv
    <3> QED BY <3>1, <3>2
  <2>3. readers' # {} => writer' = None
    BY <1>t, <2>1 DEF HotplugInv
  <2> QED BY <1>t, <2>1, <2>2, <2>3 DEF HotplugInv
<1>n. online \in SUBSET Cpu /\ {Min(online)} \in SUBSET Cpu
  <2>1. online \in SUBSET Cpu /\ online # {}
    BY <1>t DEF HotplugInv
  <2>2. Min(online) \in online
    BY <2>1, FirstCpu
  <2> QED BY <2>1, <2>2
<1> HIDE DEF Types, Goto, msdata, done, call, locks, hotplug
<1> QED BY <1>1, <1>2, <1>3, <1>4, <1>5, <1>6, <1>7, <1>8, <1>9, <1>10, <1>11, <1>12, <1>13,
           <1>14, <1>15, <1>16, <1>17, <1>18, <1>19, <1>20, <1>n DEF Call, Step

----------------------------------------------------------------------------
\* What a task's step leaves of its own call

LEMMA MultiFrame ==
  ASSUME Types, NEW t \in Tasks, MultiInv(t),
         work' = work, curstate' = curstate, spc' = spc,
         mask'[t] = mask[t], active'[t] = active[t], state'[t] = state[t],
         thread_ack'[t] = thread_ack[t], num_threads'[t] = num_threads[t],
         \A c \in mask[t] : Behind(c, t)' <=> Behind(c, t)
  PROVE  MultiInv(t)'
<1>1. Unacked(t)' = Unacked(t)
  BY DEF Unacked
<1>2. \A c \in mask[t] : InLoop(c, t)' <=> InLoop(c, t)
  BY DEF InLoop
<1>3. \A c \in mask[t] :
        /\ Behind(c, t)' => state'[t] = MULTI_STOP_PREPARE
        /\ ~Behind(c, t)' /\ work'[c] # t => state'[t] >= MULTI_STOP_EXIT
        /\ work'[c] = t => InLoop(c, t)'
  BY <1>2 DEF MultiInv
<1> QED BY <1>1, <1>3 DEF MultiInv

LEMMA CallFrame ==
  ASSUME Types, NEW t \in Tasks, CallInv(t),
         works' = works, work' = work, curstate' = curstate, spc' = spc,
         kind'[t] = kind[t], queued'[t] = queued[t], ran'[t] = ran[t],
         mask'[t] = mask[t], active'[t] = active[t], state'[t] = state[t],
         thread_ack'[t] = thread_ack[t], num_threads'[t] = num_threads[t],
         \A c \in mask[t] : Behind(c, t)' <=> Behind(c, t)
  PROVE  /\ RanInv(t)'
         /\ Nowhere(t)' <=> Nowhere(t)
         /\ IF Multi(t)' THEN MultiInv(t)' ELSE PlainInv(t)'
<1>1. Multi(t)' <=> Multi(t)
  BY DEF Multi
<1>2. \A c \in Cpu : /\ Executed(c, t)' <=> Executed(c, t)
                     /\ Listed(c, t)' <=> Listed(c, t)
  BY <1>1 DEF Executed, Listed
<1>3. RanInv(t)'
  BY <1>2 DEF CallInv, RanInv
<1>4. Nowhere(t)' <=> Nowhere(t)
  BY <1>2 DEF Nowhere
<1>5. CASE Multi(t)
  BY <1>1, <1>3, <1>4, <1>5, MultiFrame DEF CallInv
<1>6. CASE ~Multi(t)
  BY <1>1, <1>3, <1>4, <1>6 DEF CallInv, PlainInv
<1> QED BY <1>5, <1>6

(* A call that has not queued anything. *)
LEMMA Fresh ==
  ASSUME Types, NEW t \in Tasks, t # None, Nowhere(t)', queued'[t] = {}, ran'[t] = {},
         t \notin completed'
  PROVE  /\ queued'[t] \subseteq mask'[t]
         /\ \A c \in Cpu : ~(work'[c] = t \/ Listed(c, t)')
         /\ RanInv(t)'
<1>1. \A c \in Cpu : ~(work'[c] = t \/ Listed(c, t)')
  BY DEF Nowhere
<1>2. RanInv(t)'
  BY DEF RanInv
<1> QED BY <1>1, <1>2

----------------------------------------------------------------------------
\* Entering and leaving the calls

LEMMA Idle ==
  ASSUME StopInv, NEW t \in Tasks, pc[t] = "idle"
  PROVE  /\ kind[t] = "none" /\ queued[t] = {} /\ ran[t] = {} /\ Nowhere(t)
         /\ t \notin completed /\ nr_todo[t] = 0 /\ stop_cpus_mutex # t
         /\ state[t] = 0 /\ thread_ack[t] = 0 /\ num_threads[t] = 0
<1>1. CallInv(t)
  BY DEF StopInv
<1>2. kind[t] = "none" /\ queued[t] = {} /\ ran[t] = {} /\ stop_cpus_mutex # t
  BY <1>1 DEF CallInv, TaskInv, ListInv, Global
<1>3. Nowhere(t)
  BY NoWork
<1>4. t \notin completed /\ nr_todo[t] = 0
  BY <1>1 DEF CallInv, DoneInv
<1>5. PlainInv(t)
  BY <1>1, <1>2 DEF CallInv, Multi
<1> QED BY <1>2, <1>3, <1>4, <1>5 DEF PlainInv, MULTI_STOP_NONE

LEMMA BeginCall ==
  ASSUME StopInv, NEW t \in Tasks, NEW k \in Kinds \ {"up"}, NEW cpus \in SUBSET Cpu,
         NEW there \in {"one_queue", "lg_lock", "mutex"}, Begin(t, k, cpus, there),
         stop_cpus_mutex' = stop_cpus_mutex, work' = work, works' = works,
         there = "one_queue" <=> k = "one",
         there = "lg_lock" <=> k = "two",
         there = "one_queue" => \E c \in Cpu : cpus = {c},
         there = "lg_lock" => todo'[t] = cpus,
         nr_todo'[t] = IF there = "mutex" THEN 0 ELSE Cardinality(cpus),
         IF k \in {"two", "machine", "down"}
           THEN Prepare(t, Cardinality(cpus), active'[t])
           ELSE active'[t] = cpus /\ UNCHANGED <<state, thread_ack, num_threads>>
  PROVE  CallInv(t)'
<1>t. Types /\ t # None /\ pc[t] = "idle"
  BY StopAssumption DEF StopInv, Begin, Goto
<1>i. /\ kind[t] = "none" /\ queued[t] = {} /\ ran[t] = {} /\ Nowhere(t)
      /\ t \notin completed /\ nr_todo[t] = 0 /\ stop_cpus_mutex # t
      /\ state[t] = 0 /\ thread_ack[t] = 0 /\ num_threads[t] = 0
  BY <1>t, Idle
<1>1. /\ pc'[t] = there /\ kind'[t] = k /\ mask'[t] = cpus
      /\ queued'[t] = {} /\ ran'[t] = {} /\ t \notin completed' /\ stop_cpus_mutex' # t
  BY <1>t, <1>i DEF Begin, Goto, Types
<1>2. Nowhere(t)'
  BY <1>i DEF Nowhere, Listed
<1>3. /\ queued'[t] \subseteq mask'[t] /\ RanInv(t)'
      /\ \A c \in Cpu : ~(work'[c] = t \/ Listed(c, t)')
  BY <1>t, <1>1, <1>2, Fresh
<1>4. TaskInv(t)'
  BY <1>1 DEF TaskInv, Global, Kinds
<1>5. LgInv(t)'
  BY <1>1 DEF LgInv
<1>6. ListInv(t)'
  BY <1>1, <1>3 DEF ListInv
<1>7. DoneInv(t)'
  <2>1. there # "mutex" => Left(t)' = cpus
    BY <1>1 DEF Left, Pending, Early
  <2> QED BY <1>1, <1>3, <2>1 DEF DoneInv
<1>8. ASSUME Multi(t)'
      PROVE  MultiInv(t)'
  <2>1. Prepare(t, Cardinality(cpus), active'[t])
    BY <1>1, <1>8 DEF Multi
  <2>2. state'[t] = 1 /\ thread_ack'[t] = Cardinality(cpus) /\ num_threads'[t] = Cardinality(cpus)
    BY <1>t, <2>1 DEF Prepare, Types, MULTI_STOP_PREPARE
  <2>3. there # "one_queue"
    BY <1>1, <1>8 DEF Multi
  <2>4. \A c \in cpus : Behind(c, t)'
    BY <1>1, <2>3 DEF Behind, Pending, Early
  <2>5. Unacked(t)' = cpus
    BY <1>1, <2>4 DEF Unacked
  <2> QED BY <1>1, <1>3, <2>2, <2>4, <2>5 DEF MultiInv, MULTI_STOP_PREPARE, MULTI_STOP_EXIT
<1>9. ASSUME ~Multi(t)'
      PROVE  PlainInv(t)'
  BY <1>i, <1>1, <1>9 DEF PlainInv, Multi, MULTI_STOP_NONE
<1> QED BY <1>3, <1>4, <1>5, <1>6, <1>7, <1>8, <1>9 DEF CallInv

(* What was on the call's stack may go: no stopper has it. *)
LEMMA ReturnCall ==
  ASSUME StopInv, NEW t \in Tasks, NEW here, Return(t, here), Nowhere(t),
         work' = work, works' = works, stop_cpus_mutex' # t
  PROVE  CallInv(t)'
<1>t. Types /\ t # None
  BY StopAssumption DEF StopInv
<1>1. /\ pc'[t] = "idle" /\ kind'[t] = "none" /\ mask'[t] = {} /\ todo'[t] = {}
      /\ queued'[t] = {} /\ ran'[t] = {} /\ state'[t] = 0 /\ thread_ack'[t] = 0
      /\ num_threads'[t] = 0 /\ active'[t] = {} /\ nr_todo'[t] = 0 /\ t \notin completed'
  BY <1>t DEF Return, Goto, Types, MULTI_STOP_NONE
<1>2. Nowhere(t)'
  BY DEF Nowhere, Listed
<1>3. /\ queued'[t] \subseteq mask'[t] /\ RanInv(t)'
      /\ \A c \in Cpu : ~(work'[c] = t \/ Listed(c, t)')
  BY <1>t, <1>1, <1>2, Fresh
<1>4. TaskInv(t)' /\ LgInv(t)' /\ ListInv(t)' /\ PlainInv(t)' /\ ~Multi(t)'
  BY <1>1, <1>3 DEF TaskInv, LgInv, ListInv, PlainInv, Multi, Global, MULTI_STOP_NONE
<1>5. DoneInv(t)'
  BY <1>1, <1>3 DEF DoneInv
<1> QED BY <1>3, <1>4, <1>5 DEF CallInv

LEMMA OwnCall ==
  ASSUME StopInv, NEW t \in Tasks, Call(t)
  PROVE  CallInv(t)'
<1>t. Types /\ HotplugInv /\ t # None /\ CallInv(t)
  BY StopAssumption DEF StopInv
<1>n. Cardinality({}) = 0 /\ \A c \in Cpu : Cardinality({c}) = 1
  BY FS_EmptySet, FS_Singleton
<1> USE DEF stoppers, msdata, done, call, locks, hotplug
<1>1. ASSUME NEW cpu \in Cpu, StopOneCpu(t, cpu)
      PROVE  CallInv(t)'
  <2>1. /\ Begin(t, "one", {cpu}, "one_queue") /\ active'[t] = {cpu} /\ nr_todo'[t] = 1
        /\ UNCHANGED <<work, works, stop_cpus_mutex, state, thread_ack, num_threads>>
    BY <1>t, <1>1 DEF StopOneCpu, Types
  <2> QED BY <1>n, <2>1, BeginCall DEF Kinds
<1>2. ASSUME NEW cpus \in SUBSET Cpu, NEW k \in {"machine", "down"},
             Begin(t, k, online, "mutex"), Prepare(t, Cardinality(online), cpus),
             UNCHANGED <<work, works, stop_cpus_mutex, nr_todo>>
      PROVE  CallInv(t)'
  <2>1. online \in SUBSET Cpu /\ pc[t] = "idle"
    BY <1>t, <1>2 DEF Types, Begin, Goto
  <2>2. nr_todo'[t] = 0
    BY <1>2, <2>1, Idle
  <2>3. Prepare(t, Cardinality(online), active'[t])
    BY <1>t, <1>2 DEF Prepare, Types
  <2> QED BY <1>2, <2>1, <2>2, <2>3, BeginCall DEF Kinds
<1>3. ASSUME NEW cpu \in Cpu, CpuDown(t, cpu)
      PROVE  CallInv(t)'
  BY <1>2, <1>3 DEF CpuDown
<1>4. ASSUME NEW cpus \in SUBSET Cpu, StopMachine(t, cpus)
      PROVE  CallInv(t)'
  BY <1>2, <1>4 DEF StopMachine
<1>5. ASSUME NEW c1 \in Cpu, NEW c2 \in Cpu, StopTwoCpus(t, c1, c2)
      PROVE  CallInv(t)'
  <2> DEFINE both == {c1, c2}
  <2>1. both \in SUBSET Cpu /\ Cardinality(both) = 2
    <3>1. c1 # c2
      BY <1>5 DEF StopTwoCpus
    <3>2. Cardinality({c1} \cup {c2}) = 2
      <4> DEFINE one == {c1}
      <4>1. IsFiniteSet(one) /\ Cardinality(one) = 1 /\ c2 \notin one
        BY <3>1, FS_Singleton
      <4> HIDE DEF one
      <4>2. Cardinality(one \cup {c2}) = Cardinality(one) + 1
        BY <4>1, FS_AddElement
      <4>3. Cardinality(one \cup {c2}) = 2
        BY <4>1, <4>2
      <4> QED BY <4>3 DEF one
    <3> QED BY <3>2, both = {c1} \cup {c2}
  <2>2. /\ Begin(t, "two", both, "lg_lock") /\ Prepare(t, 2, {c1})
        /\ nr_todo'[t] = 2 /\ todo'[t] = both
        /\ UNCHANGED <<work, works, stop_cpus_mutex>>
    BY <1>t, <1>5 DEF StopTwoCpus, Types
  <2>3. Prepare(t, 2, active'[t])
    BY <1>t, <2>2 DEF Prepare, Types
  <2> HIDE DEF both
  <2> QED BY <2>1, <2>2, <2>3, BeginCall DEF Kinds
<1>6. ASSUME NEW k \in Kinds, NEW cpus \in SUBSET Cpu, StopCpus(t, k, cpus)
      PROVE  CallInv(t)'
  <2>1. /\ k \in {"cpus", "try"} /\ Begin(t, k, cpus, "mutex") /\ active'[t] = cpus
        /\ nr_todo' = nr_todo
        /\ UNCHANGED <<work, works, stop_cpus_mutex, state, thread_ack, num_threads>>
    BY <1>t, <1>6 DEF StopCpus, Types
  <2>2. nr_todo'[t] = 0
    BY <2>1, Idle DEF Begin, Goto
  <2> QED BY <2>1, <2>2, BeginCall DEF Kinds
<1>7. ASSUME NEW cpu \in Cpu, CpuUp(t, cpu)
      PROVE  CallInv(t)'
  <2>1. Own(t) /\ works' = works /\ work' = work /\ curstate' = curstate /\ pc[t] = "idle"
    BY <1>7 DEF CpuUp, Own
  <2>2. Nowhere(t)
    BY <2>1, NoWork
  <2>3. \A c \in Cpu : SameOn(c, t)
    BY <2>1, <2>2 DEF SameOn, Listed, Nowhere
  <2> QED BY <1>t, <2>1, <2>3, FrameCall
<1>o. {Min(online)} \in SUBSET Cpu /\ online \in SUBSET Cpu
  <2>1. online \in SUBSET Cpu /\ online # {}
    BY <1>t DEF HotplugInv, Types
  <2>2. Min(online) \in online
    BY <2>1, FirstCpu
  <2> QED BY <2>1, <2>2
<1> HIDE DEF stoppers, msdata, done, call, locks, hotplug
<1> QED BY <1>1, <1>3, <1>4, <1>5, <1>6, <1>7, <1>o DEF Call

----------------------------------------------------------------------------
\* Locking and waiting

(* Until the first work is queued, each cpu of the call has it ahead. *)
LEMMA OwnMutex ==
  ASSUME StopInv, NEW t \in Tasks, Mutex(t)
  PROVE  CallInv(t)'
<1>t. Types /\ t # None /\ CallInv(t) /\ mask[t] \in SUBSET Cpu
  BY StopAssumption DEF StopInv, Types
<1>1. /\ pc[t] = "mutex" /\ pc'[t] = "lg_lock" /\ stop_cpus_mutex' = t
      /\ nr_todo'[t] = Cardinality(mask[t]) /\ todo'[t] = Cpu
      /\ works' = works /\ work' = work /\ curstate' = curstate /\ spc' = spc
      /\ UNCHANGED <<state, thread_ack, num_threads, active, completed, kind, mask, queued,
                     lglock, ran>>
  BY <1>t DEF Mutex, Goto, stoppers, msdata, done, call, Types
<1>2. \A c \in mask[t] : Behind(c, t)' /\ Behind(c, t) /\ Pending(c, t)'
  BY <1>1 DEF Behind, Pending, Early
<1>3. /\ RanInv(t)'
      /\ Nowhere(t)' <=> Nowhere(t)
      /\ IF Multi(t)' THEN MultiInv(t)' ELSE PlainInv(t)'
  BY <1>t, <1>1, <1>2, CallFrame
<1>4. Nowhere(t)'
  BY <1>1, <1>3, NoWork
<1>5. TaskInv(t)'
  BY <1>t, <1>1 DEF CallInv, TaskInv
<1>6. LgInv(t)'
  BY <1>t, <1>1, <1>5 DEF LgInv, TaskInv, Global
<1>7. ListInv(t)'
  BY <1>t, <1>1, <1>4 DEF CallInv, ListInv, Nowhere, Early
<1>8. DoneInv(t)'
  <2>1. Left(t)' = mask[t]
    BY <1>1, <1>2 DEF Left
  <2>2. t \notin completed'
    BY <1>t, <1>1 DEF CallInv, DoneInv
  <2> QED BY <1>1, <1>4, <2>1, <2>2 DEF DoneInv, Nowhere
<1> QED BY <1>3, <1>5, <1>6, <1>7, <1>8 DEF CallInv

(* Taking parts of stop_cpus_lock and giving them back, and the wait, change only
   where the call stands. *)
LEMMA OwnDone ==
  ASSUME StopInv, NEW t \in Tasks,
         works' = works, work' = work, curstate' = curstate, spc' = spc,
         UNCHANGED <<nr_todo, completed, mask, queued>>,
         pc[t] \notin {"idle", "mutex"}, pc'[t] \notin {"idle", "mutex"},
         \A c \in mask[t] : Pending(c, t)' <=> Pending(c, t),
         t \in completed => pc'[t] \in {"queue", "wait", "unlock", "put"},
         pc'[t] \in {"unlock", "put"} => t \in completed \/ queued[t] = {}
  PROVE  DoneInv(t)'
<1>1. DoneInv(t)
  BY DEF StopInv, CallInv
<1>2. Left(t)' = Left(t)
  BY DEF Left, Listed
<1> QED BY <1>1, <1>2 DEF DoneInv

LEMMA OwnLgLock ==
  ASSUME StopInv, NEW t \in Tasks, LgLock(t)
  PROVE  CallInv(t)'
<1>t. Types /\ t # None /\ CallInv(t) /\ mask[t] \in SUBSET Cpu /\ todo[t] \in SUBSET Cpu
  BY StopAssumption DEF StopInv, Types
<1> DEFINE cpu == Min(todo[t])
<1>1. /\ pc[t] = "lg_lock" /\ pc' = pc /\ todo'[t] = todo[t] \ {cpu}
      /\ lglock' = [lglock EXCEPT ![cpu] = t] /\ todo[t] # {}
      /\ works' = works /\ work' = work /\ curstate' = curstate /\ spc' = spc
      /\ UNCHANGED <<state, thread_ack, num_threads, active, nr_todo, completed, kind, mask,
                     queued, stop_cpus_mutex, ran>>
  BY <1>t DEF LgLock, stoppers, msdata, done, call, Types
<1>2. \A c \in mask[t] : /\ Behind(c, t)' <=> Behind(c, t)
                         /\ Pending(c, t)' <=> Pending(c, t)
  BY <1>1 DEF Behind, Pending, Early, Listed
<1>3. /\ RanInv(t)'
      /\ Nowhere(t)' <=> Nowhere(t)
      /\ IF Multi(t)' THEN MultiInv(t)' ELSE PlainInv(t)'
  BY <1>t, <1>1, <1>2, CallFrame
<1>4. Nowhere(t)'
  BY <1>1, <1>3, NoWork DEF Early
<1>5. TaskInv(t)'
  BY <1>t, <1>1 DEF CallInv, TaskInv
<1>6. LgInv(t)'
  <2>1. cpu \in Cpu
    BY <1>t, <1>1, FirstCpu
  <2> HIDE DEF cpu
  <2>2. \A c \in Cpu : lglock'[c] = IF c = cpu THEN t ELSE lglock[c]
    BY <1>t, <1>1, <2>1 DEF Types
  <2> QED BY <1>t, <1>1, <2>2 DEF CallInv, LgInv
<1>7. ListInv(t)'
  BY <1>t, <1>1, <1>4 DEF CallInv, ListInv, Nowhere, Early
<1>8. DoneInv(t)'
  <2>1. t \notin completed
    BY <1>t, <1>1 DEF CallInv, DoneInv
  <2> QED BY <1>1, <1>2, <2>1, OwnDone
<1> QED BY <1>3, <1>5, <1>6, <1>7, <1>8 DEF CallInv

LEMMA OwnLgLocked ==
  ASSUME StopInv, NEW t \in Tasks, LgLocked(t)
  PROVE  CallInv(t)'
<1>t. Types /\ t # None /\ CallInv(t) /\ mask[t] \in SUBSET Cpu
  BY StopAssumption DEF StopInv, Types
<1>1. /\ pc[t] = "lg_lock" /\ pc'[t] = IF kind[t] = "two" THEN "two_queue" ELSE "queue"
      /\ todo[t] = {} /\ todo'[t] = mask[t]
      /\ works' = works /\ work' = work /\ curstate' = curstate /\ spc' = spc
      /\ UNCHANGED <<state, thread_ack, num_threads, active, nr_todo, completed, kind, mask,
                     queued, lglock, stop_cpus_mutex, ran>>
  BY <1>t DEF LgLocked, Goto, stoppers, msdata, done, call, locks, Types
<1>2. \A c \in mask[t] : /\ Behind(c, t)' <=> Behind(c, t)
                         /\ Pending(c, t)' <=> Pending(c, t)
  BY <1>1 DEF Behind, Pending, Early, Listed
<1>3. /\ RanInv(t)'
      /\ Nowhere(t)' <=> Nowhere(t)
      /\ IF Multi(t)' THEN MultiInv(t)' ELSE PlainInv(t)'
  BY <1>t, <1>1, <1>2, CallFrame
<1>4. Nowhere(t)'
  BY <1>1, <1>3, NoWork DEF Early
<1>5. TaskInv(t)'
  BY <1>t, <1>1 DEF CallInv, TaskInv, Global
<1>6. LgInv(t)'
  BY <1>t, <1>1 DEF CallInv, LgInv
<1>7. ListInv(t)'
  BY <1>t, <1>1, <1>4 DEF CallInv, ListInv, Nowhere, Early
<1>8. DoneInv(t)'
  <2>1. t \notin completed
    BY <1>t, <1>1 DEF CallInv, DoneInv
  <2> QED BY <1>1, <1>2, <2>1, OwnDone
<1> QED BY <1>3, <1>5, <1>6, <1>7, <1>8 DEF CallInv

LEMMA OwnQueueDone ==
  ASSUME StopInv, NEW t \in Tasks, QueueDone(t)
  PROVE  CallInv(t)'
<1>t. Types /\ t # None /\ CallInv(t) /\ mask[t] \in SUBSET Cpu
  BY StopAssumption DEF StopInv, Types
<1>1. /\ pc[t] = "queue" /\ pc'[t] = IF queued[t] = {} THEN "unlock" ELSE "wait"
      /\ todo[t] = {}
      /\ works' = works /\ work' = work /\ curstate' = curstate /\ spc' = spc
      /\ UNCHANGED <<state, thread_ack, num_threads, active, nr_todo, completed, kind, mask, todo,
                     queued, stop_cpus_mutex, ran>>
  BY <1>t DEF QueueDone, Goto, stoppers, msdata, done, call, Types
<1>2. \A c \in mask[t] : /\ Behind(c, t)' <=> Behind(c, t)
                         /\ Pending(c, t)' <=> Pending(c, t)
  BY <1>1 DEF Behind, Pending, Early, Listed
<1>3. /\ RanInv(t)'
      /\ Nowhere(t)' <=> Nowhere(t)
      /\ IF Multi(t)' THEN MultiInv(t)' ELSE PlainInv(t)'
  BY <1>t, <1>1, <1>2, CallFrame
<1>5. TaskInv(t)'
  BY <1>t, <1>1 DEF CallInv, TaskInv
<1>6. LgInv(t)'
  BY <1>1 DEF LgInv
<1>7. ListInv(t)'
  BY <1>t, <1>1 DEF CallInv, ListInv, Early, Listed
<1>8. DoneInv(t)'
  BY <1>1, <1>2, OwnDone
<1> QED BY <1>3, <1>5, <1>6, <1>7, <1>8 DEF CallInv

LEMMA OwnWait ==
  ASSUME StopInv, NEW t \in Tasks, Wait(t)
  PROVE  CallInv(t)'
<1>t. Types /\ t # None /\ CallInv(t) /\ mask[t] \in SUBSET Cpu
  BY StopAssumption DEF StopInv, Types
<1>1. /\ pc[t] = "wait" /\ pc'[t] = "unlock" /\ t \in completed /\ kind[t] \notin {"one", "two"}
      /\ works' = works /\ work' = work /\ curstate' = curstate /\ spc' = spc
      /\ UNCHANGED <<state, thread_ack, num_threads, active, nr_todo, completed, kind, mask, todo,
                     queued, stop_cpus_mutex, ran>>
  BY <1>t DEF Wait, Goto, stoppers, msdata, done, call, locks, Types
<1>2. \A c \in mask[t] : /\ Behind(c, t)' <=> Behind(c, t)
                         /\ Pending(c, t)' <=> Pending(c, t)
  BY <1>1 DEF Behind, Pending, Early, Listed
<1>3. /\ RanInv(t)'
      /\ Nowhere(t)' <=> Nowhere(t)
      /\ IF Multi(t)' THEN MultiInv(t)' ELSE PlainInv(t)'
  BY <1>t, <1>1, <1>2, CallFrame
<1>5. TaskInv(t)'
  <2>1. kind[t] \in Global
    BY <1>t, <1>1 DEF CallInv, TaskInv, Types, Kinds, Global
  <2> QED BY <1>t, <1>1, <2>1 DEF CallInv, TaskInv
<1>6. LgInv(t)'
  BY <1>1 DEF LgInv
<1>7. ListInv(t)'
  BY <1>t, <1>1 DEF CallInv, ListInv, Early, Listed
<1>8. DoneInv(t)'
  BY <1>1, <1>2, OwnDone
<1> QED BY <1>3, <1>5, <1>6, <1>7, <1>8 DEF CallInv

----------------------------------------------------------------------------
\* Queueing

(* On an enabled stopper the work is listed instead of to be queued. *)
LEMMA OwnAppend ==
  ASSUME StopInv, NEW t \in Tasks, NEW Q \in SUBSET mask[t],
         \A c \in Cpu : works'[c] = IF c \in Q THEN Append(works[c], t) ELSE works[c],
         queued'[t] = queued[t] \cup Q, Q \cap queued[t] = {},
         pc[t] \in {"one_queue", "two_queue", "queue"}, pc'[t] \in {"queue", "wait"},
         pc'[t] = "queue" => todo'[t] \subseteq mask[t] \ queued'[t],
         \A c \in mask[t] : Pending(c, t) <=> Pending(c, t)' \/ c \in Q,
         work' = work, curstate' = curstate, spc' = spc,
         UNCHANGED <<state, thread_ack, num_threads, active, nr_todo, completed, kind, mask, ran>>
  PROVE  /\ ListInv(t)' /\ DoneInv(t)' /\ RanInv(t)'
         /\ IF Multi(t)' THEN MultiInv(t)' ELSE PlainInv(t)'
<1>t. Types /\ t # None /\ CallInv(t) /\ mask[t] \in SUBSET Cpu /\ Q \subseteq Cpu
  <2>1. Types
    BY DEF StopInv
  <2> QED BY <2>1, StopAssumption DEF StopInv, Types
<1>1. ASSUME NEW c \in Cpu
      PROVE  Listed(c, t)' <=> Listed(c, t) \/ c \in Q
  <2>1. CASE c \in Q
    BY <1>t, <2>1, Appended
  <2>2. CASE c \notin Q
    BY <2>2 DEF Listed
  <2> QED BY <2>1, <2>2
<1>2. Multi(t)' <=> Multi(t)
  BY DEF Multi
<1>3. \A c \in mask[t] : Behind(c, t)' <=> Behind(c, t)
  BY <1>t, <1>1 DEF Behind
<1>4. Left(t)' = Left(t)
  BY <1>t, <1>1 DEF Left
<1>5. ListInv(t)'
  <2>1. queued'[t] \subseteq mask'[t]
    BY <1>t DEF CallInv, ListInv
  <2>2. \A c \in Cpu : work'[c] = t \/ Listed(c, t)' => c \in queued'[t]
    BY <1>t, <1>1 DEF CallInv, ListInv
  <2> QED BY <2>1, <2>2 DEF ListInv, Early
<1>6. DoneInv(t)'
  BY <1>t, <1>4 DEF CallInv, DoneInv
<1>7. RanInv(t)'
  <2>1. ASSUME NEW c \in Cpu
        PROVE  c \in ran'[t] <=> c \in queued'[t] \cap active'[t] /\ Executed(c, t)'
    <3>1. c \in ran[t] <=> c \in queued[t] \cap active[t] /\ Executed(c, t)
      BY <1>t DEF CallInv, RanInv
    <3>2. CASE c \in Q
      BY <1>1, <3>1, <3>2 DEF Executed
    <3>3. CASE c \notin Q
      BY <1>1, <1>2, <3>1, <3>3 DEF Executed
    <3> QED BY <3>2, <3>3
  <2> QED BY <2>1 DEF RanInv
<1>8. CASE Multi(t)
  BY <1>t, <1>2, <1>3, <1>5, <1>6, <1>7, <1>8, MultiFrame DEF CallInv
<1>9. CASE ~Multi(t)
  BY <1>t, <1>2, <1>5, <1>6, <1>7, <1>9 DEF CallInv, PlainInv
<1> QED BY <1>8, <1>9

LEMMA OwnOneQueue ==
  ASSUME StopInv, NEW t \in Tasks, OneQueue(t)
  PROVE  CallInv(t)'
<1>t. Types /\ t # None /\ CallInv(t) /\ mask[t] \in SUBSET Cpu
  BY StopAssumption DEF StopInv, Types
<1>1. /\ pc[t] = "one_queue" /\ pc'[t] = "wait" /\ mask[t] \subseteq enabled
      /\ work' = work /\ curstate' = curstate /\ spc' = spc
      /\ UNCHANGED <<state, thread_ack, num_threads, active, kind, mask, todo,
                     lglock, stop_cpus_mutex, ran>>
  BY <1>t DEF OneQueue, Goto, stoppers, msdata, locks, Types
<1>2. PICK cpu \in mask[t] : QueueOn(t, cpu)
  BY DEF OneQueue
<1>3. /\ queued[t] = {} /\ mask[t] = {cpu} /\ cpu \in Cpu /\ cpu \in enabled
      /\ kind[t] = "one" /\ stop_cpus_mutex # t
  BY <1>t, <1>1, <1>2 DEF CallInv, TaskInv, ListInv, Early, Global
<1>4. /\ \A c \in Cpu : works'[c] = IF c \in {cpu} THEN Append(works[c], t) ELSE works[c]
      /\ queued'[t] = queued[t] \cup {cpu} /\ UNCHANGED <<nr_todo, completed>>
  <2>1. /\ works' = [works EXCEPT ![cpu] = Append(works[cpu], t)]
        /\ queued' = [queued EXCEPT ![t] = queued[t] \cup {cpu}]
        /\ UNCHANGED <<nr_todo, completed>>
    BY <1>2, <1>3 DEF QueueOn, done
  <2>2. queued'[t] = queued[t] \cup {cpu}
    BY <1>t, <2>1 DEF Types
  <2>3. \A c \in Cpu : works'[c] = IF c \in {cpu} THEN Append(works[c], t) ELSE works[c]
    BY <1>t, <2>1 DEF Types
  <2> QED BY <2>1, <2>2, <2>3
<1>5. \A c \in mask[t] : Pending(c, t) /\ ~Pending(c, t)'
  BY <1>1 DEF Pending, Early
<1>6. /\ ListInv(t)' /\ DoneInv(t)' /\ RanInv(t)'
      /\ IF Multi(t)' THEN MultiInv(t)' ELSE PlainInv(t)'
  <2> DEFINE Q == {cpu}
  <2>1. Q \in SUBSET mask[t] /\ Q \cap queued[t] = {}
    BY <1>3
  <2>2. \A c \in mask[t] : Pending(c, t) <=> Pending(c, t)' \/ c \in Q
    BY <1>3, <1>5
  <2>3. /\ \A c \in Cpu : works'[c] = IF c \in Q THEN Append(works[c], t) ELSE works[c]
        /\ queued'[t] = queued[t] \cup Q
    BY <1>4
  <2> HIDE DEF Q
  <2> QED BY <1>1, <1>4, <2>1, <2>2, <2>3, OwnAppend
<1>7. TaskInv(t)'
  BY <1>t, <1>1, <1>3 DEF CallInv, TaskInv, Global
<1>8. LgInv(t)'
  BY <1>1 DEF LgInv
<1> QED BY <1>6, <1>7, <1>8 DEF CallInv

LEMMA OwnTwoQueue ==
  ASSUME StopInv, NEW t \in Tasks, TwoQueue(t)
  PROVE  CallInv(t)'
<1>t. Types /\ t # None /\ CallInv(t) /\ mask[t] \in SUBSET Cpu
  BY StopAssumption DEF StopInv, Types
<1>1. /\ pc[t] = "two_queue" /\ pc'[t] = "wait"
      /\ work' = work /\ curstate' = curstate /\ spc' = spc
      /\ \A c \in Cpu : works'[c] = IF c \in mask[t] THEN Append(works[c], t) ELSE works[c]
      /\ queued'[t] = mask[t]
      /\ UNCHANGED <<state, thread_ack, num_threads, active, nr_todo, completed, kind, mask, todo,
                     stop_cpus_mutex, ran>>
  BY <1>t DEF TwoQueue, Goto, stoppers, msdata, done, Types
<1>2. queued[t] = {} /\ kind[t] = "two"
  BY <1>t, <1>1 DEF CallInv, TaskInv, ListInv, Early
<1>3. \A c \in mask[t] : Pending(c, t) /\ ~Pending(c, t)'
  BY <1>1 DEF Pending, Early
<1>4. /\ ListInv(t)' /\ DoneInv(t)' /\ RanInv(t)'
      /\ IF Multi(t)' THEN MultiInv(t)' ELSE PlainInv(t)'
  <2> DEFINE Q == mask[t]
  <2>1. Q \in SUBSET mask[t] /\ Q \cap queued[t] = {}
    BY <1>2
  <2>2. \A c \in mask[t] : Pending(c, t) <=> Pending(c, t)' \/ c \in Q
    BY <1>3
  <2>3. /\ \A c \in Cpu : works'[c] = IF c \in Q THEN Append(works[c], t) ELSE works[c]
        /\ queued'[t] = queued[t] \cup Q
    BY <1>1, <1>2
  <2> HIDE DEF Q
  <2> QED BY <1>1, <2>1, <2>2, <2>3, OwnAppend
<1>5. TaskInv(t)'
  BY <1>t, <1>1, <1>2 DEF CallInv, TaskInv, Global
<1>6. LgInv(t)'
  BY <1>1 DEF LgInv
<1> QED BY <1>4, <1>5, <1>6 DEF CallInv

(* On a disabled stopper the work counts as executed at once.  This does not happen
   to a call whose cpus wait for each other. *)
LEMMA OwnQueue ==
  ASSUME StopInv, NEW t \in Tasks, Queue(t)
  PROVE  CallInv(t)'
<1>t. Types /\ t # None /\ CallInv(t) /\ mask[t] \in SUBSET Cpu /\ todo[t] \in SUBSET Cpu
      /\ HotplugInv
  BY StopAssumption DEF StopInv, Types
<1> DEFINE cpu == Min(todo[t])
<1>1. /\ pc[t] = "queue" /\ pc' = pc /\ todo[t] # {} /\ todo'[t] = todo[t] \ {cpu}
      /\ QueueOn(t, cpu)
      /\ work' = work /\ curstate' = curstate /\ spc' = spc
      /\ UNCHANGED <<state, thread_ack, num_threads, active, kind, mask,
                     lglock, stop_cpus_mutex, ran>>
  BY <1>t DEF Queue, stoppers, msdata, locks, Types
<1>2. cpu \in todo[t]
  BY <1>t, <1>1, FirstCpu
<1> HIDE DEF cpu
<1>3. /\ cpu \in mask[t] /\ cpu \in Cpu /\ cpu \notin queued[t]
      /\ todo[t] \subseteq mask[t] \ queued[t]
  BY <1>t, <1>1, <1>2 DEF CallInv, ListInv
<1>4. work[cpu] # t /\ ~Listed(cpu, t)
  BY <1>t, <1>3 DEF CallInv, ListInv
<1>5. TaskInv(t)'
  BY <1>t, <1>1 DEF CallInv, TaskInv
<1>6. LgInv(t)'
  BY <1>t, <1>1 DEF CallInv, LgInv
<1>7. \A c \in mask[t] : /\ Pending(c, t) <=> c \in todo[t]
                         /\ Pending(c, t)' <=> c \in todo[t] /\ c # cpu
  BY <1>1 DEF Pending, Early
<1>8. CASE cpu \in enabled
  <2>1. /\ \A c \in Cpu : works'[c] = IF c = cpu THEN Append(works[c], t) ELSE works[c]
        /\ queued'[t] = queued[t] \cup {cpu} /\ UNCHANGED <<nr_todo, completed>>
    <3>1. /\ works' = [works EXCEPT ![cpu] = Append(works[cpu], t)]
          /\ queued' = [queued EXCEPT ![t] = queued[t] \cup {cpu}]
          /\ nr_todo' = nr_todo /\ completed' = completed
      BY <1>1, <1>8 DEF QueueOn, done
    <3>2. queued'[t] = queued[t] \cup {cpu}
      BY <1>t, <3>1 DEF Types
    <3>3. \A c \in Cpu : works'[c] = IF c = cpu THEN Append(works[c], t) ELSE works[c]
      BY <1>t, <1>3, <3>1 DEF Types
    <3> QED BY <3>1, <3>2, <3>3
  <2> DEFINE Q == {cpu}
  <2>2. Q \in SUBSET mask[t] /\ Q \cap queued[t] = {}
    BY <1>3
  <2>3. \A c \in mask[t] : Pending(c, t) <=> Pending(c, t)' \/ c \in Q
    BY <1>2, <1>7
  <2>4. /\ \A c \in Cpu : works'[c] = IF c \in Q THEN Append(works[c], t) ELSE works[c]
        /\ queued'[t] = queued[t] \cup Q
        /\ todo'[t] \subseteq mask[t] \ queued'[t]
    BY <1>1, <1>3, <2>1
  <2> HIDE DEF Q
  <2>5. /\ ListInv(t)' /\ DoneInv(t)' /\ RanInv(t)'
        /\ IF Multi(t)' THEN MultiInv(t)' ELSE PlainInv(t)'
    BY <1>1, <2>1, <2>2, <2>3, <2>4, OwnAppend
  <2> QED BY <1>5, <1>6, <2>5 DEF CallInv
<1>9. CASE cpu \notin enabled
  <2>1. /\ works' = works /\ queued' = queued
        /\ nr_todo'[t] = nr_todo[t] - 1
        /\ completed' = IF nr_todo[t] = 1 THEN completed \cup {t} ELSE completed
    BY <1>t, <1>1, <1>9 DEF QueueOn, Types
  <2>2. ~Multi(t)
    <3>1. kind[t] \notin {"machine", "down"}
      BY <1>t, <1>1, <1>2, <1>9 DEF HotplugInv
    <3>2. kind[t] # "two"
      BY <1>t, <1>1 DEF CallInv, TaskInv, Global
    <3> QED BY <3>1, <3>2 DEF Multi
  <2>3. PlainInv(t)' /\ ~Multi(t)'
    BY <1>t, <1>1, <2>2 DEF CallInv, PlainInv, Multi
  <2>4. \A c \in Cpu : /\ Listed(c, t)' <=> Listed(c, t)
                       /\ Executed(c, t)' <=> Executed(c, t)
    BY <1>1, <2>1 DEF Listed, Executed, Multi
  <2>5. RanInv(t)'
    BY <1>t, <1>1, <2>1, <2>4 DEF CallInv, RanInv
  <2>6. ListInv(t)'
    BY <1>t, <1>1, <1>3, <2>1, <2>4 DEF CallInv, ListInv, Early
  <2>7. cpu \in Left(t) /\ Left(t)' = Left(t) \ {cpu} /\ Left(t) \in SUBSET Cpu
    BY <1>t, <1>1, <1>2, <1>3, <1>4, <1>7, <2>4 DEF Left
  <2>8. nr_todo[t] = Cardinality(Left(t)) /\ t \notin completed
        /\ \A c \in Cpu : ~(work[c] = t /\ spc[c] = "complete")
    BY <1>t, <1>1, <2>7 DEF CallInv, DoneInv
  <2>9. nr_todo'[t] = Cardinality(Left(t)')
    BY <2>1, <2>7, <2>8, OneCpuLess
  <2>10. nr_todo[t] = 1 => Left(t)' = {} /\ \A c \in Cpu : work'[c] # t
    <3>1. ASSUME nr_todo[t] = 1
          PROVE  Left(t) = {cpu}
      BY <2>7, <2>8, <3>1, OneCpuLess
    <3>2. ASSUME NEW c \in Cpu, work[c] = t
          PROVE  c \in Left(t) /\ c # cpu
      BY <1>t, <1>4, <2>8, <3>2 DEF CallInv, ListInv, Left
    <3> QED BY <1>1, <2>7, <3>1, <3>2
  <2>11. DoneInv(t)'
    BY <1>1, <2>1, <2>8, <2>9, <2>10 DEF DoneInv
  <2> QED BY <1>5, <1>6, <2>3, <2>5, <2>6, <2>11 DEF CallInv
<1> QED BY <1>8, <1>9

(* stop_cpus_mutex is given back. *)
LEMMA OwnUnlock ==
  ASSUME StopInv, NEW t \in Tasks, Unlock(t)
  PROVE  CallInv(t)'
<1>t. Types /\ t # None /\ CallInv(t) /\ mask[t] \in SUBSET Cpu
  BY StopAssumption DEF StopInv, Types
<1>1. /\ pc[t] = "unlock" /\ pc'[t] = "put" /\ stop_cpus_mutex' = None
      /\ works' = works /\ work' = work /\ curstate' = curstate /\ spc' = spc
      /\ UNCHANGED <<state, thread_ack, num_threads, active, nr_todo, completed, kind, mask, todo,
                     queued, lglock, ran>>
  BY <1>t DEF Unlock, Goto, stoppers, msdata, done, call, Types
<1>2. \A c \in mask[t] : /\ Behind(c, t)' <=> Behind(c, t)
                         /\ Pending(c, t)' <=> Pending(c, t)
  BY <1>1 DEF Behind, Pending, Early, Listed
<1>3. /\ RanInv(t)'
      /\ Nowhere(t)' <=> Nowhere(t)
      /\ IF Multi(t)' THEN MultiInv(t)' ELSE PlainInv(t)'
  BY <1>t, <1>1, <1>2, CallFrame
<1>5. TaskInv(t)'
  BY <1>t, <1>1 DEF CallInv, TaskInv
<1>6. LgInv(t)'
  BY <1>1 DEF LgInv
<1>7. ListInv(t)'
  BY <1>t, <1>1 DEF CallInv, ListInv, Early, Listed
<1>8. DoneInv(t)'
  <2>1. t \in completed \/ queued[t] = {}
    BY <1>t, <1>1 DEF CallInv, DoneInv
  <2> QED BY <1>1, <1>2, <2>1, OwnDone
<1> QED BY <1>3, <1>5, <1>6, <1>7, <1>8 DEF CallInv

LEMMA OwnStep ==
  ASSUME StopInv, NEW t \in Tasks, Step(t)
  PROVE  CallInv(t)'
<1>t. Types /\ t # None /\ CallInv(t)
  BY StopAssumption DEF StopInv
<1>1. ASSUME NEW here \in {"mutex", "one_queue", "two_queue", "wait", "put"}, Return(t, here),
             here = "mutex" => kind[t] = "try",
             here = "wait" => t \in completed /\ kind[t] \in {"one", "two"},
             works' = works, work' = work,
             stop_cpus_mutex' = stop_cpus_mutex
      PROVE  CallInv(t)'
  <2>1. pc[t] = here
    BY <1>1 DEF Return, Goto
  <2>2. Nowhere(t)
    BY <1>1, <2>1, NoWork DEF Early
  <2>3. stop_cpus_mutex' # t
    BY <1>t, <1>1, <2>1 DEF CallInv, TaskInv, Global
  <2> QED BY <1>1, <2>2, <2>3, ReturnCall
<1>2. CASE TryFails(t)
  BY <1>1, <1>2 DEF TryFails, stoppers, locks
<1>3. CASE OneNoEntry(t)
  BY <1>1, <1>3 DEF OneNoEntry, stoppers, locks
<1>4. CASE TwoNoEntry(t)
  BY <1>1, <1>4 DEF TwoNoEntry, stoppers
<1>5. CASE WaitReturn(t)
  BY <1>1, <1>5 DEF WaitReturn, stoppers, locks
<1>6. CASE PutOnlineCpus(t)
  BY <1>1, <1>6 DEF PutOnlineCpus, stoppers, locks
<1> QED BY <1>2, <1>3, <1>4, <1>5, <1>6, OwnMutex, OwnLgLock, OwnLgLocked, OwnQueueDone,
           OwnWait, OwnUnlock, OwnOneQueue, OwnQueue, OwnTwoQueue DEF Step

LEMMA TaskKeeps ==
  ASSUME StopInv, NEW t \in Tasks, Call(t) \/ Step(t)
  PROVE  StopInv'
<1>1. Types /\ HotplugInv
  BY DEF StopInv
<1>2. ASSUME NEW u \in Tasks
      PROVE  CallInv(u)'
  BY OwnCall, OwnStep, TaskOthers
<1> QED BY <1>1, <1>2, TypesTask, TaskHotplug, TaskStopper, TaskOrder DEF StopInv

----------------------------------------------------------------------------
\* The theorems

LEMMA StopInvInit == Init => StopInv
<1> SUFFICES ASSUME Init PROVE StopInv
  OBVIOUS
<1>1. Types
  <2>1. <<>> \in Seq(Tasks)
    OBVIOUS
  <2> QED BY <2>1, StopAssumption DEF Init, Types, MULTI_STOP_NONE, MULTI_STOP_EXIT, Kinds
<1>2. HotplugInv
  <2>1. Cpu # {}
    <3>1. 1 \in Cpu
      BY StopAssumption DEF Cpu
    <3> QED BY <3>1
  <2> QED BY <2>1, StopAssumption DEF Init, HotplugInv
<1>w. \A c \in Cpu : works[c] = <<>> /\ Len(works[c]) = 0 /\ work[c] = None /\ spc[c] = "main"
  BY DEF Init
<1>e. \A i \in 1 .. 0 : FALSE
  OBVIOUS
<1>3. NoReverseOrder /\ QueueingFirst
  <2>1. \A c \in Cpu : \A t, u \in Tasks : ~Before(c, t, u)
    BY <1>w, <1>e, StopAssumption DEF Before
  <2> QED BY <2>1 DEF NoReverseOrder, QueueingFirst
<1>4. ASSUME NEW c \in Cpu
      PROVE  StopperInv(c)
  BY <1>w, <1>e DEF Init, StopperInv
<1>5. ASSUME NEW t \in Tasks
      PROVE  CallInv(t)
  <2>1. /\ pc[t] = "idle" /\ kind[t] = "none" /\ mask[t] = {} /\ queued[t] = {} /\ ran[t] = {}
        /\ active[t] = {} /\ thread_ack[t] = 0 /\ num_threads[t] = 0
        /\ state[t] = MULTI_STOP_NONE /\ nr_todo[t] = 0 /\ completed = {}
        /\ stop_cpus_mutex = None /\ t # None
    BY StopAssumption DEF Init
  <2>2. \A c \in Cpu : work[c] # t /\ ~Listed(c, t)
    BY <1>w, <1>e, <2>1 DEF Listed
  <2>3. TaskInv(t) /\ LgInv(t) /\ PlainInv(t) /\ ~Multi(t)
    BY <2>1 DEF TaskInv, LgInv, PlainInv, Multi, Global
  <2>4. ListInv(t) /\ DoneInv(t) /\ RanInv(t)
    BY <2>1, <2>2 DEF ListInv, DoneInv, RanInv
  <2> QED BY <2>3, <2>4 DEF CallInv
<1> QED BY <1>1, <1>2, <1>3, <1>4, <1>5 DEF StopInv

(* Every reachable state satisfies the invariant. *)
THEOREM StopInvariant == Spec => []StopInv
<1>1. StopInv /\ [Next]_vars => StopInv'
  <2>1. ASSUME StopInv, Next
        PROVE  StopInv'
    BY <2>1, TaskKeeps, StopperKeeps DEF Next
  <2>2. ASSUME StopInv, UNCHANGED vars
        PROVE  StopInv'
    <3> USE <2>2 DEF vars, stoppers, msdata, done, call, locks, hotplug
    <3>1. Types' /\ HotplugInv' /\ NoReverseOrder' /\ QueueingFirst'
      <4>1. Types /\ HotplugInv
        BY DEF StopInv
      <4>2. NoReverseOrder /\ QueueingFirst
        BY DEF StopInv
      <4>3. Types'
        BY <4>1 DEF Types
      <4>4. HotplugInv'
        BY <4>1 DEF HotplugInv
      <4>5. NoReverseOrder' /\ QueueingFirst'
        BY <4>2 DEF NoReverseOrder, QueueingFirst, Before, Multi
      <4> QED BY <4>3, <4>4, <4>5
    <3>2. ASSUME NEW c \in Cpu
          PROVE  StopperInv(c)'
      <4>1. StopperInv(c)
        BY DEF StopInv
      <4> QED BY <4>1 DEF StopperInv, Multi
    <3>3. ASSUME NEW t \in Tasks
          PROVE  CallInv(t)'
      <4>1. Types /\ CallInv(t)
        BY DEF StopInv
      <4>2. Own(t) /\ \A c \in Cpu : SameOn(c, t)
        BY DEF Own, SameOn, Listed
      <4> QED BY <4>1, <4>2, FrameCall
    <3> HIDE <2>2 DEF vars, stoppers, msdata, done, call, locks, hotplug
    <3> QED BY <3>1, <3>2, <3>3 DEF StopInv
  <2> QED BY <2>1, <2>2
<1> QED BY StopInvInit, <1>1, PTL DEF Spec

(* Every variable holds a value of its kind; in particular nobody acknowledges a
   state once too often (stop_machine.c:166-171), and no cpu_stop_done counts below
   zero: both count the cpus that are behind. *)
THEOREM StopTypes == Spec => []TypeOK
<1>1. StopInv => TypeOK
  <2> SUFFICES ASSUME StopInv PROVE TypeOK
    OBVIOUS
  <2>1. Types
    BY DEF StopInv
  <2>2. ASSUME NEW t \in Tasks
        PROVE  /\ nr_todo[t] \in 0 .. NCpu
               /\ thread_ack[t] \in 0 .. NCpu /\ num_threads[t] \in 0 .. NCpu
    <3>1. CallInv(t) /\ mask[t] \in SUBSET Cpu
      BY <2>1 DEF StopInv, Types
    <3>2. Left(t) \in SUBSET Cpu /\ Unacked(t) \in SUBSET Cpu
      BY <3>1 DEF Left, Unacked
    <3>3. /\ Cardinality(Left(t)) \in 0 .. NCpu /\ Cardinality(Unacked(t)) \in 0 .. NCpu
          /\ Cardinality(mask[t]) \in 0 .. NCpu /\ 0 \in 0 .. NCpu
      BY <3>1, <3>2, Cpus, StopAssumption
    <3>4. nr_todo[t] \in 0 .. NCpu
      BY <3>1, <3>3 DEF CallInv, DoneInv
    <3>5. CASE Multi(t)
      <4>1. MultiInv(t)
        BY <3>1, <3>5 DEF CallInv
      <4>2. num_threads[t] \in 0 .. NCpu
        BY <3>3, <4>1 DEF MultiInv
      <4>3. state[t] \in Int
        BY <4>1 DEF MultiInv, MULTI_STOP_PREPARE, MULTI_STOP_EXIT
      <4>4. thread_ack[t] \in {Cardinality(Unacked(t)), num_threads[t]}
        <5>1. CASE state[t] > MULTI_STOP_EXIT
          BY <4>1, <5>1 DEF MultiInv
        <5>2. CASE \E c \in mask[t] : work[c] = t /\ spc[c] = "set"
          BY <4>1, <5>2 DEF MultiInv
        <5>3. CASE /\ state[t] <= MULTI_STOP_EXIT
                   /\ ~(\E c \in mask[t] : work[c] = t /\ spc[c] = "set")
          BY <4>1, <5>3 DEF MultiInv
        <5> QED BY <4>3, <5>1, <5>2, <5>3 DEF MULTI_STOP_EXIT
      <4> QED BY <3>3, <3>4, <4>2, <4>4
    <3>6. CASE ~Multi(t)
      BY <3>1, <3>3, <3>4, <3>6 DEF CallInv, PlainInv
    <3> QED BY <3>5, <3>6
  <2>3. /\ nr_todo \in [Tasks -> 0 .. NCpu] /\ thread_ack \in [Tasks -> 0 .. NCpu]
        /\ num_threads \in [Tasks -> 0 .. NCpu]
    BY <2>1, <2>2 DEF Types
  <2> QED BY <2>1, <2>3 DEF TypeOK, Types, Loop, Past, Early
<1> QED BY <1>1, StopInvariant, PTL

(* While the function of a stop_two_cpus() or stop_machine() call runs, every cpu of
   the call is in it too, with its interrupts disabled (stop_machine.c:200-211). *)
THEOREM StopStopped == Spec => []Stopped
<1>1. StopInv => Stopped
  <2> SUFFICES ASSUME StopInv, NEW c \in Cpu, spc[c] = "run", NEW d \in mask[work[c]]
               PROVE  work[d] = work[c] /\ d \notin irqs
    BY DEF Stopped
  <2> DEFINE t == work[c]
  <2>1. t \in Tasks /\ t # None /\ Multi(t)
    <3>1. StopperInv(c) /\ work[c] \in Tasks \cup {None}
      BY DEF StopInv, Types
    <3>2. work[c] # None /\ Multi(work[c])
      BY <3>1 DEF StopperInv
    <3> QED BY <3>1, <3>2
  <2>2. MultiInv(t) /\ InLoop(c, t) /\ mask[t] \in SUBSET Cpu
    BY <2>1, MultiFacts
  <2>3. state[t] = 3 /\ curstate[c] = 3
    BY <2>2 DEF InLoop, MULTI_STOP_RUN
  <2> HIDE DEF t
  <2>d. d \in mask[t] /\ d \in Cpu
    BY <2>2 DEF t
  <2>4. ~Behind(d, t) /\ work[d] = t
    BY <2>2, <2>3, <2>d DEF MultiInv, MULTI_STOP_PREPARE, MULTI_STOP_EXIT
  <2>5. InLoop(d, t)
    BY <2>2, <2>4, <2>d DEF MultiInv
  <2>6. spc[d] \in Loop \cup Past /\ StopperInv(d)
    BY <2>1, <2>4, <2>d DEF StopInv, StopperInv
  <2>7. spc[d] \in Loop
    BY <2>3, <2>5, <2>6 DEF InLoop, MULTI_STOP_EXIT
  <2>8. curstate[d] >= MULTI_STOP_DISABLE_IRQ
    BY <2>3, <2>5, <2>7 DEF InLoop, Loop, MULTI_STOP_RUN, MULTI_STOP_DISABLE_IRQ
  <2>9. d \notin irqs
    BY <2>1, <2>4, <2>6, <2>7, <2>8 DEF StopperInv
  <2> QED BY <2>4, <2>9 DEF t
<1> QED BY <1>1, StopInvariant, PTL

(* The cpus of a call are never more than one state apart (stop_machine.c:157-171):
   each is at the call's state or one behind it. *)
THEOREM StopLockStep == Spec => []LockStep
<1>1. StopInv => LockStep
  <2> SUFFICES ASSUME StopInv, NEW c \in Cpu, NEW d \in Cpu, work[c] = work[d], work[c] # None,
                      Multi(work[c]),
                      {spc[c], spc[d]} \cap {"leave", "signal", "complete"} = {}
               PROVE  curstate[c] - curstate[d] \in -1 .. 1
    BY DEF LockStep
  <2>1. PICK t \in Tasks : t = work[c]
    BY DEF StopInv, Types
  <2>2. /\ InLoop(c, t) /\ spc[c] \in Loop /\ curstate[c] \in 0 .. 4 /\ state[t] \in 1 .. 5
        /\ InLoop(d, t) /\ spc[d] \in Loop /\ curstate[d] \in 0 .. 4
    BY <2>1, MultiFacts DEF Past
  <2>3. /\ curstate[c] \in {state[t] - 1, state[t]}
        /\ curstate[d] \in {state[t] - 1, state[t]}
    BY <2>2 DEF InLoop, Loop
  <2> QED BY <2>2, <2>3
<1> QED BY <1>1, StopInvariant, PTL

(* Two works whose functions wait for other cpus are never in opposite orders in two
   stoppers' queues (stop_machine.c:49-52). *)
THEOREM StopOrder == Spec => []NoReverseOrder
<1>1. StopInv => NoReverseOrder
  BY DEF StopInv
<1> QED BY <1>1, StopInvariant, PTL

(* No stopper holds the work, the cpu_stop_done or the multi_stop_data of a call that
   has returned. *)
THEOREM StopNoUseAfterReturn == Spec => []NoUseAfterReturn
<1>1. StopInv => NoUseAfterReturn
  <2> SUFFICES ASSUME StopInv, NEW t \in Tasks, pc[t] = "idle", NEW c \in Cpu
               PROVE  work[c] # t /\ \A i \in 1 .. Len(works[c]) : works[c][i] # t
    BY DEF NoUseAfterReturn
  <2>1. Nowhere(t)
    BY NoWork
  <2> QED BY <2>1 DEF Nowhere, Listed
<1> QED BY <1>1, StopInvariant, PTL

(* A call goes on only after all that it queued has been executed, on no cpu more or
   less than that. *)
THEOREM StopReturns == Spec => []ReturnsWhenDone
<1>1. StopInv => ReturnsWhenDone
  <2> SUFFICES ASSUME StopInv, NEW t \in Tasks,
                      pc[t] \in {"unlock", "put"} \/ (pc[t] = "wait" /\ t \in completed)
               PROVE  ran[t] = active[t] \cap queued[t]
    BY DEF ReturnsWhenDone
  <2>1. Nowhere(t)
    BY NoWork
  <2>2. \A c \in Cpu : Executed(c, t)
    BY <2>1 DEF Nowhere, Executed
  <2>3. RanInv(t) /\ ran[t] \subseteq Cpu /\ queued[t] \subseteq Cpu
    BY DEF StopInv, CallInv, Types
  <2> QED BY <2>2, <2>3 DEF RanInv
<1> QED BY <1>1, StopInvariant, PTL

(* A stopper parks with nothing left in its list: the WARN_ON in cpu_stop_park()
   (stop_machine.c:493). *)
THEOREM StopParkedEmpty == Spec => []ParkedEmpty
<1>1. StopInv => ParkedEmpty
  BY DEF StopInv, StopperInv, ParkedEmpty
<1> QED BY <1>1, StopInvariant, PTL
=============================================================================
