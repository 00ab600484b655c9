---------------------------- MODULE CfsBandwidth ----------------------------
(***************************************************************************)
(* CFS bandwidth control of one task group, from the annotated fair.c: the *)
(* group has a cfs_rq on every cpu, and all of them take runtime from one  *)
(* pool, cfs_b->runtime, that a timer refills every period.  A cfs_rq that *)
(* finds the pool empty is throttled until a timer hands it runtime.       *)
(*                                                                         *)
(* Actors: the cpus, each working on its own cfs_rq under its rq->lock, and *)
(* the handlers of the period timer and of the slack timer, which walk the *)
(* list of throttled cfs_rqs and take one rq->lock after the other.        *)
(* cfs_b->lock is held for no longer than one action: an action is a       *)
(* critical section of it, with the work under rq->lock around it that no  *)
(* other actor sees.                                                       *)
(*                                                                         *)
(* cfs_rq->runtime_expires is only ever compared with the group's, so the  *)
(* model keeps whether it is equal, earlier or later.  Clocks differ       *)
(* between cpus: whether a deadline has passed on a cpu is a choice, and so *)
(* is whether one that is extended by a tick gets past the group's; that   *)
(* it never hits the group's to the nanosecond is assumed.                 *)
(***************************************************************************)
EXTENDS Integers, Sequences, FiniteSets, SequencesExt

CONSTANTS
  Cpus,
  Quota,       \* cfs_b->quota
  Slice,       \* sched_cfs_bandwidth_slice()
  MinRuntime,  \* min_cfs_rq_runtime
  MaxDelta,    \* bound: the most that is charged at once
  MaxDebt,     \* bound: the most by which a cfs_rq overruns
  Forced,      \* whether a running task may be requeued in a throttled cfs_rq
  Hotplug,     \* the cpus that are taken offline
  End          \* the list's head, where a walk ends

ASSUME BandwidthAssumption ==
  /\ IsFiniteSet(Cpus)
  /\ Quota \in Nat \ {0} /\ Slice \in Nat \ {0} /\ MinRuntime \in Nat \ {0}
  /\ MaxDelta \in Nat /\ MaxDebt \in Nat
  /\ Forced \in BOOLEAN /\ Hotplug \subseteq Cpus
  /\ End \notin Cpus

VARIABLES
  runtime,         \* cfs_b->runtime
  idle,            \* cfs_b->idle
  period_active,   \* cfs_b->period_active
  throttled_list,  \* cfs_b->throttled_cfs_rq
  timer,           \* the period timer: "off", "armed" or "due"
  slack_timer,     \* "off" or "armed"
  remaining,       \* cfs_rq->runtime_remaining
  current,         \* cfs_rq->runtime_expires = cfs_b->runtime_expires
  ahead,           \* the cpus where it is later than cfs_b->runtime_expires
  throttled,       \* cfs_rq->throttled
  enabled,         \* cfs_rq->runtime_enabled
  sched,           \* the group on this cpu: "empty", "queued", "running"
  pc,              \* what the holder of rq->lock does next, "idle" if unlocked
  after,           \* where an entry that has left the list still points to
  walk             \* the two timers' walks along the list

group == <<runtime, idle, period_active, throttled_list, timer, slack_timer>>
local == <<remaining, current, ahead, throttled, enabled, sched>>
vars  == <<group, local, pc, after, walk>>

Timers == {"period", "slack"}

Least(a, b) == IF a < b THEN a ELSE b

NoWalk == [pc |-> "idle", at |-> End, left |-> 0, given |-> 0, current |-> FALSE]

Init ==
  /\ runtime = Quota /\ idle = FALSE /\ period_active = FALSE
  /\ throttled_list = <<>> /\ timer = "off" /\ slack_timer = "off"
  /\ remaining = [c \in Cpus |-> 0]
  /\ current = [c \in Cpus |-> FALSE] /\ ahead = {}
  /\ throttled = [c \in Cpus |-> FALSE]
  /\ enabled = [c \in Cpus |-> TRUE]
  /\ sched = [c \in Cpus |-> "empty"]
  /\ pc = [c \in Cpus |-> "idle"]
  /\ after = [c \in Cpus |-> End]
  /\ walk = [w \in Timers |-> NoWalk]
----------------------------------------------------------------------------
(* A cpu, under its rq->lock.                                               *)

\* start_cfs_bandwidth()
StartPeriod ==
  /\ period_active' = TRUE
  /\ timer' = IF period_active THEN timer ELSE "armed"

\* What a call that charged the group still has to do under cfs_b->lock: one that
\* was put or enqueued without runtime is throttled, one that has become empty
\* returns what it does not need.
Rest(c, mode, r) ==
  IF r <= 0 /\ mode # "running" /\ ~throttled[c] THEN "throttle"
  ELSE IF r > MinRuntime /\ mode = "empty" THEN "return"
  ELSE "idle"

\* __account_cfs_rq_runtime(): charge d, then expire_cfs_rq_runtime(), which
\* drops what is left of a passed deadline only if the group's is the same, and
\* extends the deadline otherwise.
Charge(c, d, mode) ==
  \E late \in BOOLEAN :
    LET r == remaining[c] - d
        s == IF late /\ r >= 0 /\ current[c] THEN 0 ELSE r
    IN  /\ r >= -MaxDebt
        /\ remaining' = [remaining EXCEPT ![c] = s]
        /\ IF late /\ r >= 0 /\ ~current[c] THEN ahead' \in {ahead, ahead \cup {c}}
                                            ELSE UNCHANGED ahead
        /\ pc' = [pc EXCEPT ![c] = IF s > 0 THEN Rest(c, mode, s) ELSE "assign"]

\* assign_cfs_rq_runtime(): "we may have advanced our local expiration", which is
\* then kept.
(* Broken: takes a slice whatever is left. *)
AmountBlind(c) == Slice - remaining[c]

Amount(c) == Least(runtime, Slice - remaining[c])

Assign(c) ==
  /\ pc[c] = "assign"
  /\ runtime' = runtime - Amount(c)
  /\ remaining' = [remaining EXCEPT ![c] = @ + Amount(c)]
  /\ pc' = [pc EXCEPT ![c] = Rest(c, sched[c], remaining[c] + Amount(c))]
  /\ idle' = IF runtime > 0 THEN FALSE ELSE idle
  /\ StartPeriod
  /\ current' = [current EXCEPT ![c] = c \notin ahead]
  /\ UNCHANGED <<throttled_list, slack_timer, ahead, throttled, enabled, sched, after,
                 walk>>

\* A call that leaves the group in the given mode, having charged d to it where
\* it charges anything; an offline cpu's group is not charged at all.
Call(c, mode, charged, d) ==
  /\ pc[c] = "idle"
  /\ sched' = [sched EXCEPT ![c] = mode]
  /\ IF charged /\ enabled[c]
       THEN Charge(c, d, mode)
       ELSE /\ d = 0
            /\ pc' = [pc EXCEPT ![c] =
                 IF enabled[c] /\ mode = "empty" /\ remaining[c] > MinRuntime
                   THEN "return" ELSE "idle"]
            /\ UNCHANGED <<remaining, ahead>>
  /\ UNCHANGED <<group, current, throttled, enabled, after, walk>>

\* update_curr() at a tick.
Tick(c, d) == sched[c] = "running" /\ enabled[c] /\ d > 0 /\ Call(c, "running", TRUE, d)

\* put_prev_entity(), with check_cfs_rq_runtime().
Put(c, d) == sched[c] = "running" /\ Call(c, "queued", TRUE, d)

\* The running task, the group's last, goes to sleep: it is charged when it is
\* dequeued, slack is returned, and the group is put.
Leave(c, d) == sched[c] = "running" /\ Call(c, "empty", TRUE, d)

\* The group's last task is taken away while it does not run.
TakeLast(c) == sched[c] = "queued" /\ Call(c, "empty", FALSE, 0)

\* The first task is enqueued: check_enqueue_throttle().
Enqueue(c) == sched[c] = "empty" /\ Call(c, "queued", ~throttled[c], 0)

\* set_next_entity(): a group that is not throttled is picked.
SetNext(c) == sched[c] = "queued" /\ ~throttled[c] /\ Call(c, "running", FALSE, 0)

\* set_curr_task_fair(), for a running task that has changed its class or its
\* group, which "forces a throttled entity into a running state".
SetCurr(c) == /\ sched[c] = "queued" /\ (throttled[c] => Forced)
              /\ Call(c, "running", TRUE, 0)

\* throttle_cfs_rq(): "add to the head of the list, so that an already-started
\* distribute_cfs_runtime will not see us".
Throttle(c) ==
  /\ pc[c] = "throttle" /\ pc' = [pc EXCEPT ![c] = "idle"]
  /\ throttled' = [throttled EXCEPT ![c] = TRUE]
  /\ throttled_list' = <<c>> \o throttled_list
  /\ after' = [after EXCEPT ![c] = End]
  /\ IF throttled_list = <<>> THEN StartPeriod ELSE UNCHANGED <<period_active, timer>>
  /\ UNCHANGED <<runtime, idle, slack_timer, remaining, current, ahead, enabled, sched,
                 walk>>

\* runtime_refresh_within(): certainly where the period timer's handler runs.  Where
\* it does not, the time that remains decides, a choice at the callers; that of a
\* timer that has expired is negative, which is not near for a u64.
RefreshNear == walk["period"].pc # "idle"

\* __return_cfs_rq_runtime(): not what is left of an earlier period.
(* Broken: the expiry is not compared. *)
ValidAlways(c) == TRUE

Valid(c) == current[c]

Return(c) ==
  LET slack == remaining[c] - MinRuntime
  IN  /\ pc[c] = "return" /\ pc' = [pc EXCEPT ![c] = "idle"]
      /\ remaining' = [remaining EXCEPT ![c] = MinRuntime]
      /\ runtime' = IF Valid(c) THEN runtime + slack ELSE runtime
      /\ IF Valid(c) /\ runtime + slack > Slice /\ throttled_list # <<>> /\ ~RefreshNear
           THEN slack_timer' \in {"armed", slack_timer}
           ELSE UNCHANGED slack_timer
      /\ UNCHANGED <<idle, period_active, throttled_list, timer, current, ahead, throttled,
                     enabled, sched, after, walk>>
----------------------------------------------------------------------------
(* The timers.                                                              *)

Place(c) == CHOOSE i \in DOMAIN throttled_list : throttled_list[i] = c

\* The entry after c: of one that has left the list, what it pointed to then.
Follow(c) ==
  IF c \notin ToSet(throttled_list) THEN after[c]
  ELSE IF Place(c) = Len(throttled_list) THEN End ELSE throttled_list[Place(c) + 1]

\* unthrottle_cfs_rq()
Unthrottle(c) ==
  /\ throttled' = [throttled EXCEPT ![c] = FALSE]
  /\ throttled_list' = RemoveAt(throttled_list, Place(c))
  /\ after' = IF \A w \in Timers : walk[w].pc = "idle" THEN after
              ELSE [after EXCEPT ![c] = Follow(c)]

Elapse ==
  /\ timer = "armed" /\ timer' = "due"
  /\ UNCHANGED <<runtime, idle, period_active, throttled_list, slack_timer,
                 local, pc, after, walk>>

StartWalk(w) ==
  [walk EXCEPT ![w] = [pc |-> "start", at |-> End, left |-> runtime', given |-> 0,
                       current |-> TRUE]]

\* "idle depends on !throttled (for the case of a large deficit)"
(* Broken: idle alone decides. *)
IdleAlone == idle

NothingHappens == idle /\ throttled_list = <<>>

\* do_sched_cfs_period_timer(): stop when nothing happened for a period, refill,
\* and hand out runtime if somebody is throttled.
PeriodBegin ==
  /\ walk["period"].pc = "idle" /\ timer = "due"
  /\ IF NothingHappens
     THEN /\ period_active' = FALSE /\ timer' = "off"
          /\ UNCHANGED <<runtime, idle, current, ahead, walk>>
     ELSE /\ runtime' = Quota /\ timer' = "armed"
          /\ idle' = IF throttled_list = <<>> THEN TRUE ELSE idle
          /\ current' = [c \in Cpus |-> FALSE] /\ ahead' \in SUBSET ahead
          /\ walk' = [IF throttled_list = <<>> THEN walk ELSE StartWalk("period")
                        EXCEPT !["slack"].current = FALSE]
          /\ UNCHANGED period_active
  /\ UNCHANGED <<throttled_list, slack_timer, remaining, throttled, enabled, sched,
                 pc, after>>

\* do_sched_cfs_slack_timer(): only while the next refill is not near, and if
\* more than a slice has been returned.
SlackBegin ==
  /\ walk["slack"].pc = "idle" /\ slack_timer = "armed" /\ slack_timer' = "off"
  /\ \/ UNCHANGED <<runtime, walk>>
     \/ /\ ~RefreshNear /\ runtime > Slice
        /\ UNCHANGED runtime
        /\ walk' = StartWalk("slack")
  /\ UNCHANGED <<idle, period_active, throttled_list, timer, local, pc, after>>

\* distribute_cfs_runtime(): the walk, under RCU only.
WalkStart(w) ==
  /\ walk[w].pc = "start"
  /\ walk' = [walk EXCEPT
       ![w].at = IF throttled_list = <<>> THEN End ELSE Head(throttled_list),
       ![w].pc = IF throttled_list = <<>> THEN "end" ELSE "give"]
  /\ UNCHANGED <<group, local, pc, after>>

\* The lesser of two u64, of which the second is small and the first may be a
\* negative number before the cast.
Unsigned(x, left) == IF x < 0 THEN left ELSE Least(x, left)

(* Broken: one short of running again. *)
NeededExact(c) == -remaining[c]

Needed(c) == 1 - remaining[c]

\* Pay the debt of one cfs_rq, under its rq->lock.
WalkGive(w) ==
  LET c    == walk[w].at
      give == Unsigned(Needed(c), walk[w].left)
  IN  /\ walk[w].pc = "give" /\ pc[c] = "idle"
      /\ IF throttled[c]
         THEN /\ remaining' = [remaining EXCEPT ![c] = @ + give]
              /\ current' = [current EXCEPT ![c] = walk[w].current]
              /\ ahead' = ahead \ {c}
              /\ walk' = [walk EXCEPT
                   ![w].left = @ - give, ![w].given = @ + give,
                   ![w].pc = IF walk[w].left = give THEN "end" ELSE "next"]
              /\ IF remaining[c] + give > 0 THEN Unthrottle(c)
                 ELSE UNCHANGED <<throttled, throttled_list, after>>
         ELSE /\ walk' = [walk EXCEPT ![w].pc = "next"]
              /\ UNCHANGED <<remaining, current, ahead, throttled, throttled_list, after>>
      /\ UNCHANGED <<runtime, idle, period_active, timer, slack_timer, enabled, sched, pc>>

WalkNext(w) ==
  /\ walk[w].pc = "next"
  /\ walk' = [walk EXCEPT ![w].at = Follow(walk[w].at),
                ![w].pc = IF Follow(walk[w].at) = End THEN "end" ELSE "give"]
  /\ UNCHANGED <<group, local, pc, after>>

\* Nobody needs the pointers of entries that have left once both walks are over.
EndWalk(w) ==
  /\ walk' = [walk EXCEPT ![w] = NoWalk]
  /\ after' = IF \A v \in Timers \ {w} : walk[v].pc = "idle" THEN [c \in Cpus |-> End]
              ELSE after

\* Back in the period timer, which repeats the walk while somebody is throttled
\* and the pool is not empty.
PeriodEnd ==
  /\ walk["period"].pc = "end"
  /\ runtime' = runtime - Least(walk["period"].given, runtime)
  /\ IF throttled_list # <<>> /\ runtime' > 0
     THEN walk' = StartWalk("period") /\ UNCHANGED <<idle, after>>
     ELSE EndWalk("period") /\ idle' = FALSE
  /\ UNCHANGED <<period_active, throttled_list, timer, slack_timer, local, pc>>

SlackEnd ==
  /\ walk["slack"].pc = "end"
  /\ runtime' = IF walk["slack"].current
                  THEN runtime - Least(walk["slack"].given, runtime) ELSE runtime
  /\ EndWalk("slack")
  /\ UNCHANGED <<idle, period_active, throttled_list, timer, slack_timer, local, pc>>
----------------------------------------------------------------------------
(* cpu hotplug, under rq->lock.                                             *)

\* unthrottle_offline_cfs_rqs()
Offline(c) ==
  /\ pc[c] = "idle" /\ enabled[c]
  /\ enabled' = [enabled EXCEPT ![c] = FALSE]
  /\ remaining' = [remaining EXCEPT ![c] = 1]
  /\ IF throttled[c] THEN Unthrottle(c)
                     ELSE UNCHANGED <<throttled, throttled_list, after>>
  /\ UNCHANGED <<runtime, idle, period_active, timer, slack_timer, current, ahead, sched,
                 pc, walk>>

\* update_runtime_enabled()
Online(c) ==
  /\ pc[c] = "idle" /\ ~enabled[c]
  /\ enabled' = [enabled EXCEPT ![c] = TRUE]
  /\ UNCHANGED <<group, remaining, current, ahead, throttled, sched, pc, after, walk>>

Next ==
  \/ \E c \in Cpus :
       \/ \E d \in 0 .. MaxDelta : Tick(c, d) \/ Put(c, d) \/ Leave(c, d)
       \/ TakeLast(c) \/ Enqueue(c) \/ SetNext(c) \/ SetCurr(c)
       \/ Assign(c) \/ Throttle(c) \/ Return(c)
  \/ \E c \in Hotplug : Offline(c) \/ Online(c)
  \/ \E w \in Timers : WalkStart(w) \/ WalkGive(w) \/ WalkNext(w)
  \/ Elapse \/ PeriodBegin \/ PeriodEnd \/ SlackBegin \/ SlackEnd

Spec == Init /\ [][Next]_vars

(* Time passes, interrupts are served, a call that has begun ends, and the
   waiters for an rq->lock get it though it is taken again and again. *)
Fairness ==
  /\ WF_vars(Elapse) /\ WF_vars(PeriodBegin) /\ WF_vars(PeriodEnd)
  /\ \A w \in Timers : /\ WF_vars(WalkStart(w)) /\ WF_vars(WalkNext(w))
                       /\ SF_vars(WalkGive(w))
  /\ \A c \in Cpus : WF_vars(Assign(c) \/ Throttle(c) \/ Return(c))

FairSpec == Spec /\ Fairness
----------------------------------------------------------------------------
Walks == [pc : {"idle", "start", "give", "next", "end"}, at : Cpus \cup {End},
          left : Nat, given : Nat, current : BOOLEAN]

BandwidthTypeOK ==
  /\ runtime \in Nat /\ idle \in BOOLEAN /\ period_active \in BOOLEAN
  /\ throttled_list \in Seq(Cpus)
  /\ timer \in {"off", "armed", "due"} /\ slack_timer \in {"off", "armed"}
  /\ remaining \in [Cpus -> Int]
  /\ current \in [Cpus -> BOOLEAN] /\ ahead \subseteq {c \in Cpus : ~current[c]}
  /\ throttled \in [Cpus -> BOOLEAN]
  /\ enabled \in [Cpus -> BOOLEAN]
  /\ \A c \in Cpus : throttled[c] <=> c \in ToSet(throttled_list)
  /\ sched \in [Cpus -> {"empty", "queued", "running"}]
  /\ pc \in [Cpus -> {"idle", "assign", "throttle", "return"}]
  /\ after \in [Cpus -> Cpus \cup {End}]
  /\ walk \in [Timers -> Walks]

(* "Forcing the timer to remain active while there are any throttled entities"
   (fair.c:4044): nobody is throttled while the period timer is off, whichever
   order the last walk, the idle test and a throttling come in. *)
TimerCoversThrottled ==
  /\ throttled_list # <<>> => period_active
  /\ period_active <=> timer # "off"

(* A walk never hands runtime to a cfs_rq that runs by it already: a cfs_rq is
   throttled with a debt only. *)
ThrottledInDebt == \A c \in Cpus : throttled[c] => remaining[c] <= 0

(* What the cpus may still return to the pool, and the pool, stay within the
   quota: runtime of an earlier period is not returned into a later one
   (fair.c:4110), and what a walk hands out while the pool is drained behind its
   back (fair.c:4022) cannot be returned. *)
Spare(c) ==
  IF enabled[c] /\ current[c] /\ remaining[c] > MinRuntime
    THEN remaining[c] - MinRuntime ELSE 0

\* The sum of a function on the cpus, as the number of its units.
Total(f) == Cardinality(UNION {{c} \X (1 .. f[c]) : c \in Cpus})

PoolWithinQuota == runtime + Total([c \in Cpus |-> Spare(c)]) <= Quota

(* The timer keeps at it until somebody can run again: the set of throttled
   cfs_rqs does not stay the same for ever (fair.c:3984-4052). *)
KeepsUnthrottling ==
  \A S \in SUBSET Cpus :
    S # {} => []<>({c \in Cpus : throttled[c]} # S)

(* "Responsible for refilling a task_group's bandwidth and unthrottling its
   cfs_rqs" (fair.c:3984): a throttled cfs_rq is unthrottled some day. *)
EachIsUnthrottled == \A c \in Cpus : throttled[c] ~> ~throttled[c]
=============================================================================
