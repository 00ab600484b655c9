----------------------------- MODULE CfsTimeline -----------------------------
(***************************************************************************)
(* The timeline of a cfs_rq in fair.c: the entities that are queued and do *)
(* not run, in a red-black tree ordered by vruntime, and a cache of its    *)
(* leftmost.  An entity's vruntime does not change while it is in the      *)
(* tree.  vruntime is a u64 that starts 2^20 before its overflow           *)
(* (init_cfs_rq()) and is compared by the sign of a difference.  The       *)
(* runqueue's lock makes each operation one step.  The tree is the one the *)
(* repository keeps, rbtree.c.                                             *)
(***************************************************************************)
EXTENDS RbTree, FiniteSets

CONSTANTS
  start,      \* the vruntime that all others are less than Modulus / 2 ahead of
  vruntime,   \* of each entity, below Modulus
  Modulus     \* bound: 2^64 in the code

VARIABLES tasks_timeline, rb_leftmost

timeVars == <<tasks_timeline, rb_leftmost>>

(* A u64 taken as an s64. *)
Signed(x) == IF x % Modulus < Modulus \div 2 THEN x % Modulus ELSE (x % Modulus) - Modulus

(* Broken: compares the values. *)
EntityBeforeValue(a, b) == vruntime[a] < vruntime[b]

EntityBefore(a, b) == Signed(vruntime[a] - vruntime[b]) < 0

(* The place for se below n, and whether every turn on the way was to the left. *)
RECURSIVE Place(_, _, _)
Place(se, n, leftmost) ==
  LET s == IF EntityBefore(se, n) THEN "left" ELSE "right"
      k == tasks_timeline.kid[n][s]
      l == leftmost /\ s = "left"
  IN  IF k = Null THEN [parent |-> n, side |-> s, leftmost |-> l] ELSE Place(se, k, l)

Queued == {e \in Nodes : tasks_timeline.root = e \/ tasks_timeline.parent[e] # Null}

EnqueueEntity(se) ==
  LET at == IF tasks_timeline.root = Null
              THEN [parent |-> Null, side |-> "left", leftmost |-> TRUE]
              ELSE Place(se, tasks_timeline.root, TRUE)
  IN  /\ se \notin Queued
      /\ rb_leftmost' = IF at.leftmost THEN se ELSE rb_leftmost
      /\ tasks_timeline' = InsertColor(Link(tasks_timeline, se, at.parent, at.side), se)

DequeueEntity(se) ==
  /\ se \in Queued
  /\ rb_leftmost' = IF rb_leftmost = se THEN RbNext(tasks_timeline, se) ELSE rb_leftmost
  /\ tasks_timeline' = Erase(tasks_timeline, se)

Init == tasks_timeline = EmptyTree /\ rb_leftmost = Null

Next == \E se \in Nodes : EnqueueEntity(se) \/ DequeueEntity(se)

Spec == Init /\ [][Next]_timeVars

-----------------------------------------------------------------------------
\* Properties

(* However entities come and go, the tree is balanced, so that no path in it is
   more than twice as long as another, and every parent pointer is that of the
   node that has it as a child (rbtree.c:87, 232). *)
TreeBalanced ==
  /\ IsRedBlack(tasks_timeline)
  /\ \A n \in Queued : \A s \in Sides :
       LET k == tasks_timeline.kid[n][s]
       IN  k # Null => tasks_timeline.parent[k] = n

(* Whether a has run less than b, had vruntime not overflowed. *)
RanLess(a, b) == (vruntime[a] - start) % Modulus < (vruntime[b] - start) % Modulus

Order == INSTANCE SortedQueue WITH
  Entities <- Nodes, NoEntity <- Null, Before <- RanLess,
  queue <- InOrder(tasks_timeline, tasks_timeline.root), first <- rb_leftmost

(* Through every rotation the tree is a queue sorted by how long the entities
   have run, also when vruntime overflows, with equals in order of arrival
   ("nodes with the same key stay together", fair.c:507), and the cached
   leftmost is its first. *)
ImplementsQueue == Order!Spec
=============================================================================
