----------------------------- MODULE CfsGroups -----------------------------
(***************************************************************************)
(* The task groups of one cpu under bandwidth control, from the annotated  *)
(* fair.c: enqueue_task_fair(), dequeue_task_fair(), the picking of the    *)
(* next task and throttling, each of which walks up the groups and adjusts *)
(* h_nr_running on the way as far as the first throttled group.  All of it *)
(* runs under the cpu's rq->lock, so a call is one action.                 *)
(*                                                                         *)
(* Whether a group has runtime left is CfsBandwidth's matter: here any set *)
(* of groups may be found exhausted.  The vruntime order is CfsTimeline's: *)
(* here any queued entity may be the leftmost one.                         *)
(***************************************************************************)
EXTENDS Integers, FiniteSets, Sequences, SequencesExt

CONSTANTS
  Groups,   \* the task groups apart from the root, each with a cfs_rq here
  Tasks,
  Root,     \* the root group: rq->cfs
  up,       \* se->cfs_rq: the group in whose queue an entity is queued
  None

VARIABLE rq \* what rq->lock protects

Entities == Groups \cup Tasks
Queues   == Groups \cup {Root}

\* Every group is one level below the one it is in, and that leads to the root.
ASSUME GroupsAssumption ==
  /\ IsFiniteSet(Groups) /\ IsFiniteSet(Tasks) /\ Groups \cap Tasks = {}
  /\ Root \notin Entities /\ None \notin Entities
  /\ up \in [Entities -> Queues]
  /\ \E depth \in [Queues -> 0 .. Cardinality(Groups)] :
       depth[Root] = 0 /\ \A g \in Groups : depth[g] = depth[up[g]] + 1

\* for_each_sched_entity(): an entity and the groups above it, bottom up.
Path[e \in Entities] == <<e>> \o (IF up[e] = Root THEN <<>> ELSE Path[up[e]])

Above(e) == ToSet(Path[e])

\* What a loop makes of a that does L at each entity of p in turn, and the way there.
Run(L(_, _), a, p) ==
  LET w[k \in 0 .. Len(p)] == IF k = 0 THEN a ELSE L(w[k - 1], p[k]) IN w

Walk(L(_, _), a, p) == Run(L, a, p)[Len(p)]

Subtree(g) == {d \in Groups : g \in Above(d)}

\* cfs_rq->nr_running and cfs_rq->load.weight: what is queued, or runs.
Queued(s, q) == {e \in s.on_rq : up[e] = q}

\* The queues that have a cfs_rq->curr.
Running(s) == IF s.curr = None THEN {} ELSE {up[e] : e \in Above(s.curr)}

GroupsInit ==
  rq = [on_rq           |-> {},
        h_nr_running    |-> [q \in Queues |-> 0],
        nr_running      |-> 0,
        throttled       |-> {},
        throttle_count  |-> [q \in Queues |-> 0],
        runtime_enabled |-> Groups,
        next            |-> [q \in Queues |-> None],
        leaf            |-> <<>>,
        curr            |-> None]
----------------------------------------------------------------------------
(* Queues and buddies: rq, or what a call has made of it so far, is s.      *)

SetNextBuddy(s, e) ==
  [s EXCEPT !.next = [q \in Queues |->
     IF \E x \in Above(e) : up[x] = q THEN CHOOSE x \in Above(e) : up[x] = q
                                      ELSE @[q]]]

\* Only as far up as the buddies lead to e.
ClearBuddies(s, e) ==
  LET leads(x) == \A y \in Above(e) : x \in Above(y) => s.next[up[y]] = y
  IN  [s EXCEPT !.next = [q \in Queues |->
         IF \E x \in Above(e) : up[x] = q /\ leads(x) THEN None ELSE @[q]]]

DequeueEntity(s, e) == [ClearBuddies(s, e) EXCEPT !.on_rq = @ \ {e}]

(* Broken: the walks do not stop at a throttled queue. *)
ThrottledNowhere(s, q) == FALSE

\* cfs_rq_throttled()
Throttled(s, q) == q \in s.throttled

\* A loop up the groups: what it has made of rq, whether it still changes queues
\* and whether it goes on.
From(s) == [s |-> s, queue |-> TRUE, go |-> TRUE]

\* Up from the group's own entity: leave its parents' queues while those
\* become empty, and take its tasks off every count on the way.
LowerLevel(a, e, delta) ==
  IF ~a.go \/ e \notin a.s.on_rq THEN [a EXCEPT !.go = FALSE]
  ELSE LET t == IF a.queue THEN DequeueEntity(a.s, e) ELSE a.s
       IN  [s     |-> [t EXCEPT !.h_nr_running[up[e]] = @ - delta],
            queue |-> a.queue /\ Queued(t, up[e]) = {},
            go    |-> TRUE]

\* tg_throttle_down() and tg_unthrottle_up()
Freeze(s, g, d) ==
  [s EXCEPT !.throttle_count =
     [q \in Queues |-> IF q \in Subtree(g) THEN @[q] + d ELSE @[q]]]

ThrottleGroup(s, g) ==
  LET delta == s.h_nr_running[g]
      end   == Walk(LAMBDA a, e : LowerLevel(a, e, delta), From(Freeze(s, g, 1)), Path[g])
  IN  [end.s EXCEPT !.throttled = @ \cup {g},
                    !.nr_running = IF end.go THEN @ - delta ELSE @]

(* Broken: only a running queue is left alone. *)
ExhaustedAgain(s, q, X) == q \in X \cap s.runtime_enabled /\ q \notin Running(s)

\* check_enqueue_throttle() for a queue that has just got its first entity.
Exhausted(s, q, X) ==
  q \in X \cap s.runtime_enabled /\ q \notin Running(s) \cup s.throttled

\* list_add_leaf_cfs_rq(): before everything if the parent is on the list already.
AddLeaf(s, q) ==
  IF q \in ToSet(s.leaf) THEN s
  ELSE IF q # Root /\ up[q] \in ToSet(s.leaf) THEN [s EXCEPT !.leaf = <<q>> \o @]
  ELSE [s EXCEPT !.leaf = Append(@, q)]

EnqueueEntity(s, e, X) ==
  LET t == [s EXCEPT !.on_rq = @ \cup {e}]
  IN  IF Queued(t, up[e]) # {e} THEN t
      ELSE IF Exhausted(t, up[e], X) THEN ThrottleGroup(AddLeaf(t, up[e]), up[e])
      ELSE AddLeaf(t, up[e])

\* A level of enqueue_task_fair() and unthrottle_cfs_rq(): queue the entities as
\* far as they are not queued, then only count; a throttled queue is counted and
\* ends either loop.
RaiseLevel(a, e, delta, X) ==
  IF ~a.go THEN a
  ELSE LET queue == a.queue /\ e \notin a.s.on_rq
           t == IF queue THEN EnqueueEntity(a.s, e, X) ELSE a.s
       IN  [s     |-> [t EXCEPT !.h_nr_running[up[e]] = @ + delta],
            queue |-> queue,
            go    |-> ~Throttled(t, up[e])]

RaiseAll(s, e, delta, X) ==
  LET end == Walk(LAMBDA a, x : RaiseLevel(a, x, delta, X), From(s), Path[e])
  IN  [end.s EXCEPT !.nr_running = IF end.go THEN @ + delta ELSE @]

UnthrottleGroup(s, g, X) ==
  LET thawed == [Freeze(s, g, -1) EXCEPT !.throttled = @ \ {g}]
  IN  IF Queued(s, g) = {} THEN thawed ELSE RaiseAll(thawed, g, s.h_nr_running[g], X)
----------------------------------------------------------------------------
(* The scheduling class' entry points.                                      *)

EnqueueTask(s, t, X) == RaiseAll(s, t, 1, X)

\* Likewise; a sleeping task makes its group the next buddy where the walk
\* meets the first queue that something is left in.
LeaveLevel(a, e, sleep) ==
  IF ~a.go THEN a
  ELSE LET n == IF a.queue THEN DequeueEntity(a.s, e) ELSE a.s
           m == [n EXCEPT !.h_nr_running[up[e]] = @ - 1]
           left == a.queue /\ Queued(n, up[e]) # {}
           go == ~Throttled(n, up[e])
       IN  [s     |-> IF left /\ go /\ sleep /\ up[e] # Root
                        THEN SetNextBuddy(m, up[e]) ELSE m,
            queue |-> a.queue /\ ~left,
            go    |-> go]

DequeueTask(s, t, sleep) ==
  LET end == Walk(LAMBDA a, e : LeaveLevel(a, e, sleep), From(s), Path[t])
  IN  [end.s EXCEPT !.nr_running = IF end.go THEN @ - 1 ELSE @]

(* Broken: a queue that was forced to run is throttled a second time. *)
CheckAgain(s, q, X) == IF q \in X \cap s.runtime_enabled THEN ThrottleGroup(s, q) ELSE s

\* check_cfs_rq_runtime() in put_prev_entity() and in the picking loop.
Check(s, q, X) ==
  IF q \in (X \cap s.runtime_enabled) \ s.throttled THEN ThrottleGroup(s, q) ELSE s

PutPrev(s, X) ==
  [Walk(LAMBDA a, e : Check(a, up[e], X), s, Path[s.curr]) EXCEPT !.curr = None]

\* try_to_wake_up(), with the next buddy check_preempt_wakeup() may name: the
\* task, or the group of it that competes with the running task.
Wake(t, X) ==
  /\ t \notin rq.on_rq
  /\ LET s == EnqueueTask(rq, t, X)
         rival == {e \in Above(t) : up[e] \in Running(s) /\ e \notin Above(s.curr)}
     IN  \/ rq' = s
         \/ /\ s.curr # None /\ s.throttle_count[up[t]] = 0
            /\ \E e \in {t} \cup rival : rq' = SetNextBuddy(s, e)

\* The running task goes to sleep, or another, queued one is taken away.
Sleep(t, X) ==
  /\ t \in rq.on_rq
  /\ rq' = IF t = rq.curr THEN PutPrev(DequeueTask(rq, t, TRUE), X)
                          ELSE DequeueTask(rq, t, FALSE)

\* schedule(): the picking loop may find a queue of the running task exhausted
\* before put_prev_task() sees the ones below it.
Preempt(X) ==
  /\ rq.curr # None
  /\ \E q \in Running(rq) : rq' = PutPrev(Check(rq, q, X), X)

\* pick_next_entity() at every level: the leftmost, which may be any, or the
\* next buddy; a picked buddy is forgotten.
PickNext(t) ==
  /\ rq.curr = None /\ Queued(rq, Root) # {}
  /\ \A e \in Above(t) : e \in rq.on_rq \/ rq.next[up[e]] = e
  /\ rq' = [Walk(ClearBuddies, rq, Reverse(Path[t])) EXCEPT !.curr = t]

\* The running task changes priority or group: dequeue_task(), put_prev_task(),
\* enqueue_task() and set_curr_task(), whatever was throttled by them.
Requeue(X) ==
  /\ rq.curr # None
  /\ rq' = [EnqueueTask(PutPrev(DequeueTask(rq, rq.curr, FALSE), X), rq.curr, X)
              EXCEPT !.curr = rq.curr]

\* yield_to_task_fair(); the running task yields, unless it is the only one, or the
\* one that yields runs on another cpu.
YieldTo(t) ==
  /\ t \in rq.on_rq /\ rq.throttle_count[up[t]] = 0
  /\ LET s == SetNextBuddy(rq, t)
     IN  \/ rq' = s
         \/ rq.curr # None /\ rq' = ClearBuddies(s, rq.curr)

\* distribute_cfs_runtime() has paid the group's debt.
Refill(g, X) ==
  /\ g \in rq.throttled
  /\ rq' = UnthrottleGroup(rq, g, X)

\* rq_offline_fair(): no group is left throttled, and none can be any more.
OfflineOne(s, g, X) ==
  LET n == [s EXCEPT !.runtime_enabled = @ \ {g}]
  IN  IF g \in s.runtime_enabled \cap s.throttled THEN UnthrottleGroup(n, g, X) ELSE n

\* for_each_leaf_cfs_rq(), along a list that grows while it is walked.
NextLeaf(s, q) ==
  LET later == {i \in 2 .. Len(s.leaf) : s.leaf[i - 1] = q}
  IN  IF later = {} THEN None ELSE s.leaf[CHOOSE i \in later : TRUE]

OfflineNext(a, X) ==
  IF a.at = None THEN a
  ELSE LET n == OfflineOne(a.s, a.at, X) IN [s |-> n, at |-> NextLeaf(n, a.at)]

FirstLeaf(s) == [s |-> s, at |-> IF s.leaf = <<>> THEN None ELSE Head(s.leaf)]

\* One step for each queue there is, and no more than that are on the list.
OfflineGroups(X) ==
  rq' = Walk(LAMBDA a, k : OfflineNext(a, X), FirstLeaf(rq),
             [k \in 1 .. Cardinality(Queues) |-> k]).s

\* The root has no quota.
OnlineGroups ==
  rq' = [rq EXCEPT !.runtime_enabled = @ \cup (ToSet(rq.leaf) \cap Groups)]

GroupsNext ==
  \/ \E X \in SUBSET Groups :
       \/ \E t \in Tasks : Wake(t, X) \/ Sleep(t, X)
       \/ \E g \in Groups : Refill(g, X)
       \/ Preempt(X) \/ Requeue(X) \/ OfflineGroups(X)
  \/ \E t \in Tasks : PickNext(t) \/ YieldTo(t)
  \/ OnlineGroups

GroupsSpec == GroupsInit /\ [][GroupsNext]_rq
----------------------------------------------------------------------------
GroupsTypeOK ==
  /\ rq.on_rq \subseteq Entities
  /\ rq.h_nr_running \in [Queues -> Nat] /\ rq.nr_running \in Nat
  /\ rq.throttled \subseteq Groups /\ rq.throttle_count \in [Queues -> Nat]
  /\ rq.runtime_enabled \subseteq Groups
  /\ rq.next \in [Queues -> Entities \cup {None}]
  /\ ToSet(rq.leaf) \subseteq Queues
  /\ rq.curr \in Tasks \cup {None}

\* A task is not counted in q when a group between it and q is throttled.
HiddenFrom(q, t) ==
  \E g \in Above(t) \cap rq.throttled : q # g /\ q \in {Root} \cup Above(g)

(* "We will post the final h_nr_running increment below" (fair.c:4437): each
   queue counts exactly the queued tasks under it that no throttled group
   hides, and rq->nr_running those that can run, after any sequence of wakeups,
   sleeps, throttlings in the middle of an enqueue, and refills. *)
Accounting ==
  /\ \A q \in Queues : rq.h_nr_running[q] =
       Cardinality({t \in Tasks \cap rq.on_rq :
                      q \in {Root} \cup Above(t) /\ ~HiddenFrom(q, t)})
  /\ rq.nr_running = rq.h_nr_running[Root]

(* A group is queued in its parent exactly when it has something to run and is
   not throttled: a picking loop that takes queued entities neither descends into
   an empty queue, which would dereference a null entity (fair.c:5607), nor misses
   a group that was refilled while its parent was throttled; and throttle_count
   says how many throttled groups are above (fair.c:3813-3841).  It does not speak
   of a next buddy that is not queued: the picking loop follows one below a
   throttled group, which ThrottledNotPicked is about. *)
QueuedIffRunnable ==
  \A g \in Groups :
    /\ g \in rq.on_rq <=> Queued(rq, g) # {} /\ g \notin rq.throttled
    /\ rq.throttle_count[g] = Cardinality(rq.throttled \cap Above(g))

(* "Throttled hierarchies are not runnable" (fair.c:5757): the next task is
   never picked from below a throttled group. *)
ThrottledNotPicked ==
  [][rq.curr = None /\ rq'.curr # None
       => rq.throttle_count[up[rq'.curr]] = 0]_rq
=============================================================================
