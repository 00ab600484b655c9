-------------------------- MODULE CfsGroupsProofs --------------------------
(***************************************************************************)
(* Theorems about CfsGroups for any tree of groups, any tasks, and any     *)
(* groups out of runtime at any point of any call: the queues' counts, the *)
(* queueing of the groups and the throttle counts agree after every call.  *)
(*                                                                         *)
(* A call walks up the tree.  What each walk still owes the queues when it *)
(* stands at an entity is its loop invariant: Lowering, Leaving, Raising.  *)
(***************************************************************************)
EXTENDS CfsGroups, FiniteSetTheorems, SequenceTheorems, WellFoundedInduction, TLAPS

(* Induction over the numbers, for a set of them: what holds of 0 and of the
   next of each number it holds of holds of all of them.  It is the principle of
   the smallest counterexample, so it names no predicate. *)
LEMMA NatSetInduction ==
  ASSUME NEW T, 0 \in T, \A n \in Nat : n \in T => n + 1 \in T
  PROVE  \A n \in Nat : n \in T
<1> DEFINE U == Nat \ T
<1>1. SUFFICES ASSUME U # {}  PROVE FALSE
  OBVIOUS
<1> DEFINE R == OpToRel(<, Nat)
<1>2. U \subseteq Nat /\ IsWellFoundedOn(R, Nat)
  BY NatLessThanWellFounded
<1>3. \A x, y \in Nat : <<y, x>> \in R <=> y < x
  BY DEF OpToRel
<1> HIDE DEF R
<1>4. PICK x \in U : \A y \in U : ~(<<y, x>> \in R)
  <2> HIDE DEF U
  <2> QED BY <1>1, <1>2, WFMin
<1>5. x \in Nat /\ x # 0 /\ x - 1 \in Nat
  BY <1>4
<1>6. x - 1 \in U
  BY <1>4, <1>5
<1>7. <<x - 1, x>> \in R
  BY <1>3, <1>5
<1> QED BY <1>4, <1>6, <1>7

(* One pass through the body of the walk that k names: the lowering of a
   throttled group, the raising of an enqueued entity, the leaving of a task, the
   runtime checks, the clearing of buddies, and the cpu going offline. *)
Level(k, a, e, y, X) ==
  CASE k = "lower" -> LowerLevel(a, e, y)
    [] k = "raise" -> RaiseLevel(a, e, y, X)
    [] k = "leave" -> LeaveLevel(a, e, y)
    [] k = "check" -> Check(a, up[e], X)
    [] k = "clear" -> ClearBuddies(a, e)
    [] OTHER       -> OfflineNext(a, X)

Solves(v, k, b, p, y, X) ==
  v = [j \in 0 .. Len(p) |-> IF j = 0 THEN b ELSE Level(k, v[j - 1], p[j], y, X)]

(* The recursion that Run states has a solution for each of the walks. *)
LEMMA WalkSolution ==
  ASSUME NEW kind, NEW b, NEW p, Len(p) \in Nat, NEW y, NEW X
  PROVE  \E v : Solves(v, kind, b, p, y, X)
<1> DEFINE Good(m, v) ==
             v = [k \in 0 .. m |-> IF k = 0 THEN b ELSE Level(kind, v[k - 1], p[k], y, X)]
           T == {m \in Nat : \E v : Good(m, v)}
<1>1. 0 \in T
  <2> DEFINE v == [k \in 0 .. 0 |-> b]
  <2>1. Good(0, v)
    OBVIOUS
  <2> QED BY <2>1
<1>2. ASSUME NEW m \in Nat, m \in T  PROVE m + 1 \in T
  <2>1. PICK w : Good(m, w)
    BY <1>2
  <2> DEFINE v == [k \in 0 .. m + 1 |->
                     IF k = m + 1 THEN Level(kind, w[m], p[k], y, X) ELSE w[k]]
  <2>2. ASSUME NEW k \in 0 .. m + 1
        PROVE  v[k] = IF k = 0 THEN b ELSE Level(kind, v[k - 1], p[k], y, X)
    <3>1. CASE k = 0
      BY <2>1, <3>1
    <3>2. CASE k # 0
      <4>1. k - 1 \in 0 .. m /\ v[k - 1] = w[k - 1]
        BY <3>2
      <4>2. CASE k = m + 1
        BY <3>2, <4>1, <4>2
      <4>3. CASE k # m + 1
        BY <2>1, <3>2, <4>1, <4>3
      <4> QED BY <4>2, <4>3
    <3> QED BY <3>1, <3>2
  <2>3. Good(m + 1, v)
    BY <2>2
  <2>4. \E u : Good(m + 1, u)
    <3> HIDE DEF v, Good
    <3> QED BY <2>3
  <2>5. m + 1 \in Nat
    OBVIOUS
  <2> HIDE DEF Good
  <2> QED BY <2>4, <2>5
<1>3. Len(p) \in T
  <2> HIDE DEF T
  <2> QED BY <1>1, <1>2, NatSetInduction
<1> QED BY <1>3 DEF Solves

(* What is known of the walk of throttle_cfs_rq(): one LowerLevel for each entity
   of the path, in turn. *)
LowerEnd(b, p, y) == Walk(LAMBDA a, e : LowerLevel(a, e, y), b, p)

LEMMA LowerWalk ==
  ASSUME NEW b, NEW p, Len(p) \in Nat, NEW y
  PROVE  \E w : /\ w[0] = b
                /\ \A k \in 1 .. Len(p) : w[k] = LowerLevel(w[k - 1], p[k], y)
                /\ LowerEnd(b, p, y) = w[Len(p)]
<1> DEFINE Good(v) ==
             v = [k \in 0 .. Len(p) |-> IF k = 0 THEN b ELSE LowerLevel(v[k - 1], p[k], y)]
           w == Run(LAMBDA a, e : LowerLevel(a, e, y), b, p)
           end == LowerEnd(b, p, y)
<1> SUFFICES \E u : /\ u[0] = b
                    /\ \A k \in 1 .. Len(p) : u[k] = LowerLevel(u[k - 1], p[k], y)
                    /\ end = u[Len(p)]
  OBVIOUS
<1>1. \E v : Good(v)
  <2>1. \E v : Solves(v, "lower", b, p, y, 0)
    BY WalkSolution
  <2> QED BY <2>1 DEF Solves, Level
<1>2. w = CHOOSE v : Good(v)
  BY DEF Run
<1>3. Good(w)
  <2> HIDE DEF Good, w
  <2> QED BY <1>1, <1>2
<1>4. end = w[Len(p)]
  BY DEF Walk, LowerEnd
<1> HIDE DEF w, end
<1>5. w[0] = b
  BY <1>3
<1>6. \A k \in 1 .. Len(p) : w[k] = LowerLevel(w[k - 1], p[k], y)
  BY <1>3
<1> QED BY <1>4, <1>5, <1>6

(* Likewise of enqueue_task_fair() and unthrottle_cfs_rq(). *)
RaiseEnd(b, p, y, X) == Walk(LAMBDA a, e : RaiseLevel(a, e, y, X), b, p)

LEMMA RaiseWalk ==
  ASSUME NEW b, NEW p, Len(p) \in Nat, NEW y, NEW X
  PROVE  \E w : /\ w[0] = b
                /\ \A k \in 1 .. Len(p) : w[k] = RaiseLevel(w[k - 1], p[k], y, X)
                /\ RaiseEnd(b, p, y, X) = w[Len(p)]
<1> DEFINE Good(v) ==
             v = [k \in 0 .. Len(p) |-> IF k = 0 THEN b ELSE RaiseLevel(v[k - 1], p[k], y, X)]
           w == Run(LAMBDA a, e : RaiseLevel(a, e, y, X), b, p)
           end == RaiseEnd(b, p, y, X)
<1> SUFFICES \E u : /\ u[0] = b
                    /\ \A k \in 1 .. Len(p) : u[k] = RaiseLevel(u[k - 1], p[k], y, X)
                    /\ end = u[Len(p)]
  OBVIOUS
<1>1. \E v : Good(v)
  <2>1. \E v : Solves(v, "raise", b, p, y, X)
    BY WalkSolution
  <2> QED BY <2>1 DEF Solves, Level
<1>2. w = CHOOSE v : Good(v)
  BY DEF Run
<1>3. Good(w)
  <2> HIDE DEF Good, w
  <2> QED BY <1>1, <1>2
<1>4. end = w[Len(p)]
  BY DEF Walk, RaiseEnd
<1> HIDE DEF w, end
<1>5. w[0] = b
  BY <1>3
<1>6. \A k \in 1 .. Len(p) : w[k] = RaiseLevel(w[k - 1], p[k], y, X)
  BY <1>3
<1> QED BY <1>4, <1>5, <1>6

(* Likewise of dequeue_task_fair(). *)
LeaveEnd(b, p, y) == Walk(LAMBDA a, e : LeaveLevel(a, e, y), b, p)

LEMMA LeaveWalk ==
  ASSUME NEW b, NEW p, Len(p) \in Nat, NEW y
  PROVE  \E w : /\ w[0] = b
                /\ \A k \in 1 .. Len(p) : w[k] = LeaveLevel(w[k - 1], p[k], y)
                /\ LeaveEnd(b, p, y) = w[Len(p)]
<1> DEFINE Good(v) ==
             v = [k \in 0 .. Len(p) |-> IF k = 0 THEN b ELSE LeaveLevel(v[k - 1], p[k], y)]
           w == Run(LAMBDA a, e : LeaveLevel(a, e, y), b, p)
           end == LeaveEnd(b, p, y)
<1> SUFFICES \E u : /\ u[0] = b
                    /\ \A k \in 1 .. Len(p) : u[k] = LeaveLevel(u[k - 1], p[k], y)
                    /\ end = u[Len(p)]
  OBVIOUS
<1>1. \E v : Good(v)
  <2>1. \E v : Solves(v, "leave", b, p, y, 0)
    BY WalkSolution
  <2> QED BY <2>1 DEF Solves, Level
<1>2. w = CHOOSE v : Good(v)
  BY DEF Run
<1>3. Good(w)
  <2> HIDE DEF Good, w
  <2> QED BY <1>1, <1>2
<1>4. end = w[Len(p)]
  BY DEF Walk, LeaveEnd
<1> HIDE DEF w, end
<1>5. w[0] = b
  BY <1>3
<1>6. \A k \in 1 .. Len(p) : w[k] = LeaveLevel(w[k - 1], p[k], y)
  BY <1>3
<1> QED BY <1>4, <1>5, <1>6

(* Likewise of put_prev_task_fair(). *)
CheckEnd(b, p, X) == Walk(LAMBDA a, e : Check(a, up[e], X), b, p)

LEMMA CheckWalk ==
  ASSUME NEW b, NEW p, Len(p) \in Nat, NEW X
  PROVE  \E w : /\ w[0] = b
                /\ \A k \in 1 .. Len(p) : w[k] = Check(w[k - 1], up[p[k]], X)
                /\ CheckEnd(b, p, X) = w[Len(p)]
<1> DEFINE Good(v) ==
             v = [k \in 0 .. Len(p) |-> IF k = 0 THEN b ELSE Check(v[k - 1], up[p[k]], X)]
           w == Run(LAMBDA a, e : Check(a, up[e], X), b, p)
           end == CheckEnd(b, p, X)
<1> SUFFICES \E u : /\ u[0] = b
                    /\ \A k \in 1 .. Len(p) : u[k] = Check(u[k - 1], up[p[k]], X)
                    /\ end = u[Len(p)]
  OBVIOUS
<1>1. \E v : Good(v)
  <2>1. \E v : Solves(v, "check", b, p, 0, X)
    BY WalkSolution
  <2> QED BY <2>1 DEF Solves, Level
<1>2. w = CHOOSE v : Good(v)
  BY DEF Run
<1>3. Good(w)
  <2> HIDE DEF Good, w
  <2> QED BY <1>1, <1>2
<1>4. end = w[Len(p)]
  BY DEF Walk, CheckEnd
<1> HIDE DEF w, end
<1>5. w[0] = b
  BY <1>3
<1>6. \A k \in 1 .. Len(p) : w[k] = Check(w[k - 1], up[p[k]], X)
  BY <1>3
<1> QED BY <1>4, <1>5, <1>6

(* Likewise of the picking loop, which goes down. *)
ClearEnd(b, p) == Walk(ClearBuddies, b, p)

LEMMA ClearWalk ==
  ASSUME NEW b, NEW p, Len(p) \in Nat
  PROVE  \E w : /\ w[0] = b
                /\ \A k \in 1 .. Len(p) : w[k] = ClearBuddies(w[k - 1], p[k])
                /\ ClearEnd(b, p) = w[Len(p)]
<1> DEFINE Good(v) ==
             v = [k \in 0 .. Len(p) |-> IF k = 0 THEN b ELSE ClearBuddies(v[k - 1], p[k])]
           w == Run(ClearBuddies, b, p)
           end == ClearEnd(b, p)
<1> SUFFICES \E u : /\ u[0] = b
                    /\ \A k \in 1 .. Len(p) : u[k] = ClearBuddies(u[k - 1], p[k])
                    /\ end = u[Len(p)]
  OBVIOUS
<1>1. \E v : Good(v)
  <2>1. \E v : Solves(v, "clear", b, p, 0, 0)
    BY WalkSolution
  <2> QED BY <2>1 DEF Solves, Level
<1>2. w = CHOOSE v : Good(v)
  BY DEF Run
<1>3. Good(w)
  <2> HIDE DEF Good, w
  <2> QED BY <1>1, <1>2
<1>4. end = w[Len(p)]
  BY DEF Walk, ClearEnd
<1> HIDE DEF w, end
<1>5. w[0] = b
  BY <1>3
<1>6. \A k \in 1 .. Len(p) : w[k] = ClearBuddies(w[k - 1], p[k])
  BY <1>3
<1> QED BY <1>4, <1>5, <1>6

(* Likewise of the loop over the leaves when the cpu goes offline. *)
OfflineEnd(b, p, X) == Walk(LAMBDA a, k : OfflineNext(a, X), b, p)

OfflineRun(w, b, p, X) ==
  /\ w[0] = b
  /\ \A k \in 1 .. Len(p) : w[k] = OfflineNext(w[k - 1], X)
  /\ OfflineEnd(b, p, X) = w[Len(p)]

LEMMA OfflineWalk ==
  ASSUME NEW b, NEW p, Len(p) \in Nat, NEW X
  PROVE  \E w : OfflineRun(w, b, p, X)
<1> DEFINE Good(v) ==
             v = [k \in 0 .. Len(p) |-> IF k = 0 THEN b ELSE OfflineNext(v[k - 1], X)]
           w == Run(LAMBDA a, k : OfflineNext(a, X), b, p)
           end == OfflineEnd(b, p, X)
<1> SUFFICES \E u : /\ u[0] = b
                    /\ \A k \in 1 .. Len(p) : u[k] = OfflineNext(u[k - 1], X)
                    /\ end = u[Len(p)]
  BY DEF OfflineRun
<1>1. \E v : Good(v)
  <2>1. \E v : Solves(v, "offline", b, p, 0, X)
    BY WalkSolution
  <2> QED BY <2>1 DEF Solves, Level
<1>2. w = CHOOSE v : Good(v)
  BY DEF Run
<1>3. Good(w)
  <2> HIDE DEF Good, w
  <2> QED BY <1>1, <1>2
<1>4. end = w[Len(p)]
  BY DEF Walk, OfflineEnd
<1> HIDE DEF w, end
<1>5. w[0] = b
  BY <1>3
<1>6. \A k \in 1 .. Len(p) : w[k] = OfflineNext(w[k - 1], X)
  BY <1>3
<1> QED BY <1>4, <1>5, <1>6

(* The groups form a tree under the root: no group is above one that is above it,
   so that going up from any entity ends. *)
LEMMA TreeDepth ==
  /\ up \in [Entities -> Queues]
  /\ Root \notin Entities /\ Groups \cap Tasks = {}
  /\ \E N \in Nat : \E depth \in [Queues -> 0 .. N] :
       \A g \in Groups : depth[g] = depth[up[g]] + 1
<1>1. PICK depth \in [Queues -> 0 .. Cardinality(Groups)] :
        \A g \in Groups : depth[g] = depth[up[g]] + 1
  BY GroupsAssumption
<1>2. Cardinality(Groups) \in Nat
  BY GroupsAssumption, FS_CardinalityType
<1> QED BY <1>1, <1>2, GroupsAssumption

(* for_each_sched_entity() as the recursion it is: the path of an entity is the
   entity and then the path of its parent, up to the root. *)
LEMMA PathUnfolds ==
  \A e \in Entities : Path[e] = IF up[e] = Root THEN <<e>> ELSE <<e>> \o Path[up[e]]
<1>0. PICK N \in Nat : \E depth \in [Queues -> 0 .. N] :
        \A g \in Groups : depth[g] = depth[up[g]] + 1
  BY TreeDepth
<1>1. PICK depth \in [Queues -> 0 .. N] : \A g \in Groups : depth[g] = depth[up[g]] + 1
  BY <1>0
<1> DEFINE Low(m) == {e \in Entities : depth[up[e]] < m}
           Next(f, e) == <<e>> \o (IF up[e] = Root THEN <<>> ELSE f[up[e]])
           Good(m, f) == f = [e \in Low(m) |-> Next(f, e)]
           T == {m \in Nat : \E f : Good(m, f)}
<1>2. ASSUME NEW m \in Nat, NEW e \in Low(m + 1), up[e] # Root
      PROVE  up[e] \in Low(m)
  <2>1. up[e] \in Groups /\ e \in Entities
    BY <1>2, TreeDepth DEF Queues
  <2>2. up[up[e]] \in Queues
    BY <2>1, TreeDepth DEF Entities
  <2>3. depth[up[e]] \in Nat /\ depth[up[up[e]]] \in Nat /\ depth[up[e]] = depth[up[up[e]]] + 1
    BY <1>1, <2>1, <2>2 DEF Queues
  <2> QED BY <1>2, <2>1, <2>3 DEF Entities
<1>3. 0 \in T
  <2>1. Low(0) = {}
    BY <1>1, TreeDepth
  <2> DEFINE f == [e \in {} |-> e]
  <2>2. Good(0, f)
    BY <2>1
  <2>3. \E v : Good(0, v)
    <3> HIDE DEF f, Good
    <3> QED BY <2>2
  <2> HIDE DEF Good
  <2> QED BY <2>3
<1>4. ASSUME NEW m \in Nat, m \in T  PROVE m + 1 \in T
  <2>1. PICK f : Good(m, f)
    BY <1>4
  <2> DEFINE h == [e \in Low(m + 1) |-> IF e \in Low(m) THEN f[e] ELSE Next(f, e)]
  <2>2. ASSUME NEW e \in Low(m + 1)  PROVE h[e] = Next(h, e)
    <3>1. h[e] = Next(f, e)
      BY <2>1
    <3>2. CASE up[e] = Root
      BY <3>1, <3>2
    <3>3. CASE up[e] # Root
      <4>1. up[e] \in Low(m)
        BY <1>2, <3>3
      <4>2. up[e] \in Low(m + 1)
        BY <4>1, <1>1, TreeDepth
      <4>3. h[up[e]] = f[up[e]]
        BY <4>1, <4>2
      <4> QED BY <3>1, <4>3
    <3> QED BY <3>2, <3>3
  <2>3. Good(m + 1, h)
    BY <2>2
  <2>4. \E v : Good(m + 1, v)
    <3> HIDE DEF h, Good
    <3> QED BY <2>3
  <2>5. m + 1 \in Nat
    OBVIOUS
  <2> HIDE DEF Good
  <2> QED BY <2>4, <2>5
<1>5. \A m \in Nat : \E f : Good(m, f)
  <2>1. \A m \in Nat : m \in T
    <3> HIDE DEF T
    <3> QED BY <1>3, <1>4, NatSetInduction
  <2> QED BY <2>1
<1>6. Low(N + 1) = Entities
  BY <1>1, TreeDepth
<1>7. \E f : f = [e \in Entities |-> Next(f, e)]
  <2>1. PICK f : Good(N + 1, f)
    <3>1. N + 1 \in Nat
      OBVIOUS
    <3> HIDE DEF Good
    <3> QED BY <1>5, <3>1
  <2> QED BY <1>6, <2>1
<1>8. Path = CHOOSE f : f = [e \in Entities |-> Next(f, e)]
  BY DEF Path
<1>9. Path = [e \in Entities |-> Next(Path, e)]
  BY <1>7, <1>8
<1>10. ASSUME NEW e \in Entities, up[e] = Root  PROVE Path[e] = <<e>>
  <2>1. Path[e] = <<e>> \o <<>>
    BY <1>9, <1>10
  <2> QED BY <2>1
<1> QED BY <1>9, <1>10

(* A property that holds of an entity when it holds of the group it is in, if
   that is not the root, holds of every entity. *)
LEMMA TreeInduction ==
  ASSUME NEW T, \A e \in Entities : (up[e] # Root => up[e] \in T) => e \in T
  PROVE  Entities \subseteq T
<1>0. PICK N \in Nat : \E depth \in [Queues -> 0 .. N] :
        \A g \in Groups : depth[g] = depth[up[g]] + 1
  BY TreeDepth
<1>1. PICK depth \in [Queues -> 0 .. N] : \A g \in Groups : depth[g] = depth[up[g]] + 1
  BY <1>0
<1> DEFINE U == {m \in Nat : \A e \in Entities : depth[up[e]] < m => e \in T}
<1>2. 0 \in U
  BY <1>1, TreeDepth
<1>3. ASSUME NEW m \in Nat, m \in U  PROVE m + 1 \in U
  <2>1. ASSUME NEW e \in Entities, depth[up[e]] < m + 1, up[e] # Root  PROVE up[e] \in T
    <3>1. up[e] \in Groups
      BY <2>1, TreeDepth DEF Queues
    <3>2. up[up[e]] \in Queues /\ up[e] \in Entities /\ up[e] \in Queues
      BY <3>1, TreeDepth DEF Entities, Queues
    <3>3. depth[up[e]] = depth[up[up[e]]] + 1
      BY <1>1, <3>1
    <3>4. depth[up[up[e]]] < m
      BY <1>1, <2>1, <3>2, <3>3
    <3> QED BY <1>3, <3>2, <3>4
  <2> QED BY <2>1
<1>4. N + 1 \in U
  <2> HIDE DEF U
  <2> QED BY <1>2, <1>3, NatSetInduction
<1> QED BY <1>1, <1>4, TreeDepth

(* Whether y is a queue strictly above the entity x. *)
Below(x, y) == x \in Entities /\ x # y /\ y \in {Root} \cup Above(x)

(* The path of an entity starts with it, goes on with parents and ends under the
   root. *)
LEMMA PathProperties ==
  ASSUME NEW e \in Entities
  PROVE  /\ Path[e] \in Seq(Entities) /\ Len(Path[e]) \in Nat \ {0}
         /\ Path[e][1] = e
         /\ \A k \in 1 .. Len(Path[e]) - 1 :
              /\ Path[e][k + 1] = up[Path[e][k]]
              /\ Path[e][k + 1] \in Groups
         /\ up[Path[e][Len(Path[e])]] = Root
<1> DEFINE Fine(p, x) ==
             /\ p \in Seq(Entities) /\ Len(p) \in Nat \ {0}
             /\ p[1] = x
             /\ \A k \in 1 .. Len(p) - 1 : p[k + 1] = up[p[k]] /\ p[k + 1] \in Groups
             /\ up[p[Len(p)]] = Root
           T == {x \in Entities : Fine(Path[x], x)}
<1>1. ASSUME NEW x \in Entities, up[x] # Root => up[x] \in T  PROVE x \in T
  <2>1. CASE up[x] = Root
    <3>1. Path[x] = <<x>>
      BY <2>1, PathUnfolds
    <3>2. Fine(<<x>>, x)
      BY <2>1
    <3> QED BY <3>1, <3>2
  <2>2. CASE up[x] # Root
    <3> DEFINE p == Path[up[x]]
               r == Path[x]
    <3>1. Fine(p, up[x])
      BY <1>1, <2>2
    <3>2. r = <<x>> \o p
      BY <2>2, PathUnfolds
    <3>3. up[x] \in Groups
      BY <2>2, TreeDepth DEF Queues
    <3> HIDE DEF p, r
    <3>4. /\ r \in Seq(Entities) /\ Len(r) = Len(p) + 1 /\ r[1] = x
          /\ \A k \in 2 .. Len(r) : r[k] = p[k - 1]
      BY <3>1, <3>2
    <3>5. ASSUME NEW k \in 1 .. Len(r) - 1  PROVE r[k + 1] = up[r[k]] /\ r[k + 1] \in Groups
      <4>1. k + 1 \in 2 .. Len(r) /\ r[k + 1] = p[k]
        BY <3>1, <3>4
      <4>2. CASE k = 1
        BY <3>1, <3>3, <3>4, <4>1, <4>2
      <4>3. CASE k # 1
        <5>1. k \in 2 .. Len(r) /\ k - 1 \in 1 .. Len(p) - 1 /\ r[k] = p[k - 1]
          BY <3>1, <3>4, <4>3
        <5>2. p[(k - 1) + 1] = up[p[k - 1]] /\ p[(k - 1) + 1] \in Groups
          BY <3>1, <5>1
        <5> QED BY <4>1, <5>1, <5>2
      <4> QED BY <4>2, <4>3
    <3>6. up[r[Len(r)]] = Root
      <4>1. Len(r) \in 2 .. Len(r) /\ Len(r) - 1 = Len(p)
        BY <3>1, <3>4
      <4> QED BY <3>1, <3>4, <4>1
    <3>7. Fine(r, x)
      BY <3>1, <3>4, <3>5, <3>6
    <3> QED BY <3>7 DEF r
  <2> QED BY <2>1, <2>2
<1>2. Entities \subseteq T
  <2> HIDE DEF T
  <2> QED BY <1>1, TreeInduction
<1> QED BY <1>2

(* What is above an entity: the entity, and what is above its parent. *)
LEMMA AboveUnfolds ==
  ASSUME NEW e \in Entities
  PROVE  /\ Above(e) = {e} \cup (IF up[e] = Root THEN {} ELSE Above(up[e]))
         /\ up[e] \in Queues
         /\ up[e] # Root => up[e] \in Groups /\ up[e] \in Entities
<1>1. up[e] \in Queues /\ (up[e] # Root => up[e] \in Groups /\ up[e] \in Entities)
  BY TreeDepth DEF Queues, Entities
<1>2. CASE up[e] = Root
  <2>1. Path[e] = <<e>>
    BY <1>2, PathUnfolds
  <2> QED BY <1>1, <1>2, <2>1 DEF Above, ToSet
<1>3. CASE up[e] # Root
  <2> DEFINE p == Path[up[e]]
  <2>1. p \in Seq(Entities)
    BY <1>1, <1>3, PathProperties
  <2>2. Path[e] = <<e>> \o p
    BY <1>3, PathUnfolds
  <2> HIDE DEF p
  <2>3. ToSet(<<e>> \o p) = {e} \cup ToSet(p)
    <3> DEFINE r == <<e>> \o p
    <3>1. Len(r) = Len(p) + 1 /\ r[1] = e /\ \A k \in 2 .. Len(r) : r[k] = p[k - 1]
      BY <2>1
    <3>2. Len(p) \in Nat
      BY <2>1
    <3> HIDE DEF r
    <3>3. ASSUME NEW k \in 1 .. Len(p)  PROVE k + 1 \in 1 .. Len(r) /\ r[k + 1] = p[k]
      BY <3>1, <3>2
    <3>4. ASSUME NEW k \in 1 .. Len(r), k # 1
          PROVE  k - 1 \in 1 .. Len(p) /\ r[k] = p[k - 1]
      BY <3>1, <3>2, <3>4
    <3>5. 1 \in 1 .. Len(r)
      BY <3>1, <3>2
    <3>6. DOMAIN p = 1 .. Len(p) /\ DOMAIN r = 1 .. Len(r)
      BY <2>1 DEF r
    <3>7. ToSet(r) = {r[i] : i \in 1 .. Len(r)} /\ ToSet(p) = {p[i] : i \in 1 .. Len(p)}
      BY <3>6 DEF ToSet
    <3>8. ToSet(r) \subseteq {e} \cup ToSet(p)
      BY <3>1, <3>4, <3>7
    <3>9. e \in ToSet(r) /\ ToSet(p) \subseteq ToSet(r)
      BY <3>1, <3>3, <3>5, <3>7
    <3> QED BY <3>8, <3>9 DEF r
  <2> QED BY <1>1, <1>3, <2>2, <2>3 DEF Above, p
<1> QED BY <1>2, <1>3

(* Going up is an order, in which what is above an entity is a chain. *)
LEMMA AboveEntity ==
  ASSUME NEW e \in Entities
  PROVE  Above(e) \subseteq Entities /\ e \in Above(e) /\ Above(e) \ {e} \subseteq Groups
<1> DEFINE T == {x \in Entities : Above(x) \subseteq Entities /\ Above(x) \ {x} \subseteq Groups}
<1>1. ASSUME NEW x \in Entities, up[x] # Root => up[x] \in T  PROVE x \in T
  BY <1>1, AboveUnfolds
<1>2. Entities \subseteq T
  <2> HIDE DEF T
  <2> QED BY <1>1, TreeInduction
<1> QED BY <1>2, AboveUnfolds

LEMMA AboveTransitive ==
  ASSUME NEW e \in Entities, NEW x \in Above(e)
  PROVE  Above(x) \subseteq Above(e)
<1> DEFINE T == {d \in Entities : \A y \in Above(d) : Above(y) \subseteq Above(d)}
<1>1. ASSUME NEW d \in Entities, up[d] # Root => up[d] \in T  PROVE d \in T
  <2>1. ASSUME NEW y \in Above(d)  PROVE Above(y) \subseteq Above(d)
    BY <1>1, <2>1, AboveUnfolds
  <2> QED BY <2>1
<1>2. Entities \subseteq T
  <2> HIDE DEF T
  <2> QED BY <1>1, TreeInduction
<1> QED BY <1>2

LEMMA AboveTotal ==
  ASSUME NEW e \in Entities, NEW x \in Above(e), NEW y \in Above(e)
  PROVE  x \in Above(y) \/ y \in Above(x)
<1> DEFINE T == {d \in Entities : \A v, w \in Above(d) : v \in Above(w) \/ w \in Above(v)}
<1>1. ASSUME NEW d \in Entities, up[d] # Root => up[d] \in T  PROVE d \in T
  <2>1. ASSUME NEW v \in Above(d), NEW w \in Above(d)  PROVE v \in Above(w) \/ w \in Above(v)
    <3>1. CASE v = d \/ w = d
      BY <3>1
    <3>2. CASE v # d /\ w # d
      BY <1>1, <3>2, AboveUnfolds
    <3> QED BY <3>1, <3>2
  <2> QED BY <2>1
<1>2. Entities \subseteq T
  <2> HIDE DEF T
  <2> QED BY <1>1, TreeInduction
<1> QED BY <1>2

LEMMA AboveAntisymmetric ==
  ASSUME NEW x \in Entities, NEW y \in Above(x), x \in Above(y)
  PROVE  x = y
<1>0. PICK N \in Nat : \E depth \in [Queues -> 0 .. N] :
        \A g \in Groups : depth[g] = depth[up[g]] + 1
  BY TreeDepth
<1>1. PICK depth \in [Queues -> 0 .. N] : \A g \in Groups : depth[g] = depth[up[g]] + 1
  BY <1>0
<1> DEFINE T == {e \in Entities :
                   \A z \in Above(e) : z # e => z \in Groups /\ depth[z] <= depth[up[e]]}
<1>2. ASSUME NEW e \in Entities, up[e] # Root => up[e] \in T  PROVE e \in T
  <2>1. ASSUME NEW z \in Above(e), z # e
        PROVE  z \in Groups /\ depth[z] <= depth[up[e]]
    <3>1. z \in Above(up[e]) /\ up[e] \in Groups /\ up[e] \in T /\ up[e] # Root
      BY <1>2, <2>1, AboveUnfolds
    <3>2. CASE z = up[e]
      BY <1>1, <3>1, <3>2, AboveUnfolds
    <3>3. CASE z # up[e]
      <4>1. z \in Groups /\ depth[z] <= depth[up[up[e]]]
        BY <3>1, <3>3
      <4>2. up[e] \in Queues /\ up[up[e]] \in Queues /\ z \in Queues
        BY <3>1, <4>1, TreeDepth DEF Queues, Entities
      <4> QED BY <1>1, <3>1, <4>1, <4>2
    <3> QED BY <3>2, <3>3
  <2> QED BY <2>1
<1>3. Entities \subseteq T
  <2> HIDE DEF T
  <2> QED BY <1>2, TreeInduction
<1>4. SUFFICES ASSUME x # y  PROVE FALSE
  OBVIOUS
<1>5. y \in Entities
  BY AboveEntity
<1>6. /\ x \in Groups /\ depth[x] <= depth[up[y]]
      /\ y \in Groups /\ depth[y] <= depth[up[x]]
  BY <1>3, <1>4, <1>5
<1>7. x \in Queues /\ y \in Queues /\ up[x] \in Queues /\ up[y] \in Queues
  BY <1>5, <1>6, TreeDepth DEF Queues
<1> QED BY <1>1, <1>6, <1>7

(* No step up comes back, and each queue above an entity is the parent of
   something on the way. *)
LEMMA AboveSteps ==
  ASSUME NEW e \in Entities
  PROVE  /\ up[e] # e /\ e # Root
         /\ up[e] # Root => e \notin Above(up[e])
         /\ \A x \in {Root} \cup Above(e) : x # e => \E z \in Above(e) : up[z] = x
<1>1. e # Root
  BY TreeDepth
<1>2. ASSUME up[e] # Root, e \in Above(up[e])  PROVE FALSE
  <2>1. up[e] \in Above(e) /\ up[e] \in Groups
    BY <1>2, AboveUnfolds, AboveEntity
  <2>2. up[e] = e
    BY <1>2, <2>1, AboveAntisymmetric
  <2>3. \E N \in Nat : \E depth \in [Queues -> 0 .. N] : depth[e] = depth[e] + 1
    BY <2>1, <2>2, TreeDepth
  <2>4. e \in Queues
    BY <2>1, <2>2 DEF Queues
  <2> QED BY <2>3, <2>4
<1>3. up[e] # e
  BY <1>1, <1>2, AboveUnfolds
<1> DEFINE T == {d \in Entities :
                   \A x \in {Root} \cup Above(d) : x # d => \E z \in Above(d) : up[z] = x}
<1>4. ASSUME NEW d \in Entities, up[d] # Root => up[d] \in T  PROVE d \in T
  <2>1. ASSUME NEW x \in {Root} \cup Above(d), x # d  PROVE \E z \in Above(d) : up[z] = x
    <3>1. CASE x = up[d]
      BY <3>1, AboveUnfolds
    <3>2. CASE x # up[d]
      <4>1. up[d] # Root /\ x \in {Root} \cup Above(up[d])
        BY <2>1, <3>2, AboveUnfolds
      <4>2. PICK z \in Above(up[d]) : up[z] = x
        BY <1>4, <3>2, <4>1
      <4> QED BY <4>1, <4>2, AboveUnfolds
    <3> QED BY <3>1, <3>2
  <2> QED BY <2>1
<1>5. Entities \subseteq T
  <2> HIDE DEF T
  <2> QED BY <1>4, TreeInduction
<1> QED BY <1>1, <1>2, <1>3, <1>5

(* Everything from x up to what is queued in y is in Q: an entity added to the
   queue of x is then counted in y. *)
Chain(Q, x, y) == Below(x, y) /\ \A z \in Above(x) : Below(z, y) => z \in Q

(* The tasks counted in y, or y itself, when the entities in Q are queued. *)
Reach(Q, y) == {t \in Tasks : t = y \/ Chain(Q, t, y)}

Count(Q, y) == Cardinality(Reach(Q, y))

(* One step of a walk: what is counted above x is counted in its parent and
   above that. *)
LEMMA ChainUnfolds ==
  ASSUME NEW Q, NEW x \in Entities, NEW y
  PROVE  /\ Chain(Q, x, y) <=> x \in Q /\ (y = up[x] \/ Chain(Q, up[x], y))
         /\ ~Chain(Q, up[x], up[x])
         /\ Chain(Q \ {x}, up[x], y) <=> Chain(Q, up[x], y)
         /\ Chain(Q \cup {x}, up[x], y) <=> Chain(Q, up[x], y)
<1>1. ASSUME Chain(Q, x, y)  PROVE x \in Q /\ (y = up[x] \/ Chain(Q, up[x], y))
  <2>1. x \in Q
    BY <1>1, AboveUnfolds DEF Chain
  <2>2. ASSUME y # up[x]  PROVE Chain(Q, up[x], y)
    <3>1. up[x] # Root /\ Below(up[x], y)
      BY <1>1, <2>2, AboveUnfolds DEF Chain, Below
    <3> QED BY <1>1, <3>1, AboveUnfolds DEF Chain
  <2> QED BY <2>1, <2>2
<1>2. ASSUME x \in Q, y = up[x]  PROVE Chain(Q, x, y)
  <2>1. Below(x, y)
    BY <1>2, AboveUnfolds, AboveSteps, AboveEntity DEF Below
  <2>2. ASSUME NEW z \in Above(x), Below(z, y)  PROVE z = x
    <3>1. SUFFICES ASSUME z # x  PROVE FALSE
      OBVIOUS
    <3>2. up[x] # Root /\ z \in Above(up[x]) /\ up[x] \in Entities
      BY <3>1, AboveUnfolds
    <3>3. up[x] \in Above(z) /\ up[x] # z
      BY <1>2, <2>2, <3>2 DEF Below
    <3> QED BY <3>2, <3>3, AboveAntisymmetric
  <2> QED BY <1>2, <2>1, <2>2 DEF Chain
<1>3. ASSUME x \in Q, Chain(Q, up[x], y)  PROVE Chain(Q, x, y)
  <2>1. up[x] \in Entities /\ up[x] # Root
    BY <1>3, TreeDepth DEF Chain, Below
  <2>2. Below(x, y)
    BY <1>3, <2>1, AboveUnfolds, AboveSteps DEF Chain, Below
  <2> QED BY <1>3, <2>1, <2>2, AboveUnfolds DEF Chain
<1>4. ~Chain(Q, up[x], up[x])
  BY DEF Chain, Below
<1>5. up[x] \in Entities => x \notin Above(up[x])
  BY AboveSteps, TreeDepth
<1>6. Chain(Q \ {x}, up[x], y) <=> Chain(Q, up[x], y)
  BY <1>5 DEF Chain, Below
<1>7. Chain(Q \cup {x}, up[x], y) <=> Chain(Q, up[x], y)
  BY <1>5 DEF Chain, Below
<1> QED BY <1>1, <1>2, <1>3, <1>4, <1>6, <1>7

(* Queueing e adds exactly what was counted below e to the queues above it. *)
LEMMA ChainSplit ==
  ASSUME NEW Q, NEW e \in Entities, NEW x \in Entities, NEW y
  PROVE  /\ Chain(Q \cup {e}, x, y) <=>
              \/ Chain(Q \ {e}, x, y)
              \/ Chain(Q \cup {e}, e, y) /\ (x = e \/ Chain(Q \ {e}, x, e))
         /\ ~(/\ Chain(Q \ {e}, x, y)
              /\ Chain(Q \cup {e}, e, y) /\ (x = e \/ Chain(Q \ {e}, x, e)))
<1>1. ASSUME Chain(Q \cup {e}, x, y), ~Chain(Q \ {e}, x, y)
      PROVE  Chain(Q \cup {e}, e, y) /\ (x = e \/ Chain(Q \ {e}, x, e))
  <2>1. e \in Above(x) /\ Below(e, y)
    BY <1>1 DEF Chain
  <2>2. Chain(Q \cup {e}, e, y)
    BY <1>1, <2>1, AboveTransitive DEF Chain
  <2>3. ASSUME x # e  PROVE Chain(Q \ {e}, x, e)
    <3>1. Below(x, e)
      BY <2>1, <2>3 DEF Below
    <3>2. ASSUME NEW z \in Above(x), Below(z, e)  PROVE z \in Q \ {e}
      <4>1. z \in Entities /\ e \in Above(z) /\ z # e
        BY <3>2, AboveSteps DEF Below
      <4>2. y \in {Root} \cup Above(e) /\ e # y
        BY <2>1 DEF Below
      <4>3. y \in {Root} \cup Above(z)
        BY <4>1, <4>2, AboveTransitive
      <4>4. z # y
        <5>1. SUFFICES ASSUME z = y  PROVE FALSE
          OBVIOUS
        <5>2. z \in Above(e)
          BY <4>1, <4>2, <5>1, AboveSteps
        <5> QED BY <4>1, <5>2, AboveAntisymmetric
      <4> QED BY <1>1, <3>2, <4>1, <4>3, <4>4 DEF Chain, Below
    <3> QED BY <3>1, <3>2 DEF Chain
  <2> QED BY <2>2, <2>3
<1>2. ASSUME Chain(Q \ {e}, x, y)  PROVE Chain(Q \cup {e}, x, y)
  BY <1>2 DEF Chain
<1>3. ASSUME Chain(Q \cup {e}, e, y), x = e \/ Chain(Q \ {e}, x, e)
      PROVE  e \in Above(x) /\ Below(e, y) /\ Chain(Q \cup {e}, x, y)
  <2>1. CASE x = e
    BY <1>3, <2>1, AboveEntity DEF Chain
  <2>2. CASE x # e
    <3>1. Below(x, e) /\ e \in Above(x) /\ Below(e, y)
      BY <1>3, <2>2, AboveSteps DEF Chain, Below
    <3>2. x # y
      <4>1. SUFFICES ASSUME x = y  PROVE FALSE
        OBVIOUS
      <4>2. x \in Above(e)
        BY <3>1, <4>1, AboveSteps DEF Below
      <4> QED BY <2>2, <3>1, <4>2, AboveAntisymmetric
    <3>3. Below(x, y)
      BY <3>1, <3>2, AboveTransitive DEF Below
    <3>4. ASSUME NEW z \in Above(x), Below(z, y)  PROVE z \in Q \cup {e}
      <4>1. z \in Above(e) \/ e \in Above(z)
        BY <3>1, AboveTotal
      <4>2. CASE z \in Above(e)
        BY <1>3, <3>4, <4>2 DEF Chain
      <4>3. CASE e \in Above(z) /\ z # e
        <5>1. Below(z, e)
          BY <4>3, AboveEntity DEF Below
        <5> QED BY <1>3, <2>2, <5>1 DEF Chain
      <4> QED BY <4>1, <4>2, <4>3
    <3> QED BY <3>1, <3>3, <3>4 DEF Chain
  <2> QED BY <2>1, <2>2
<1>4. ASSUME Chain(Q \ {e}, x, y), e \in Above(x), Below(e, y)  PROVE FALSE
  BY <1>4 DEF Chain
<1> QED BY <1>1, <1>2, <1>3, <1>4

(* How many tasks are counted in y: a number; none where nothing is queued; one
   in a task; and queueing e counts what is below it in the queues above it. *)
LEMMA CountType ==
  ASSUME NEW Q, NEW y
  PROVE  IsFiniteSet(Reach(Q, y)) /\ Count(Q, y) \in Nat
<1>1. Reach(Q, y) \subseteq Tasks
  BY DEF Reach
<1>2. IsFiniteSet(Reach(Q, y))
  BY <1>1, GroupsAssumption, FS_Subset
<1> QED BY <1>2, FS_CardinalityType DEF Count

LEMMA CountEmpty ==
  ASSUME NEW Q, NEW y \in Queues, \A e \in Entities \cap Q : up[e] # y
  PROVE  Count(Q, y) = 0
<1>1. ASSUME NEW t \in Reach(Q, y)  PROVE FALSE
  <2>1. t \in Tasks /\ t \in Entities /\ t # y
    BY <1>1, TreeDepth DEF Reach, Entities, Queues
  <2>2. Chain(Q, t, y)
    BY <1>1, <2>1 DEF Reach
  <2>3. PICK z \in Above(t) : up[z] = y
    BY <2>1, <2>2, AboveSteps DEF Chain, Below
  <2>4. z \in Entities
    BY <2>1, <2>3, AboveEntity
  <2>5. Below(z, y)
    BY <2>3, <2>4, AboveUnfolds, AboveSteps, AboveEntity DEF Below
  <2> QED BY <2>2, <2>3, <2>4, <2>5 DEF Chain
<1>2. Reach(Q, y) = {}
  BY <1>1
<1> QED BY <1>2, FS_EmptySet DEF Count

LEMMA CountTask ==
  ASSUME NEW Q, NEW t \in Tasks
  PROVE  Count(Q, t) = 1
<1>1. ASSUME NEW x \in Tasks, Chain(Q, x, t)  PROVE FALSE
  <2>1. x \in Entities /\ t # Root /\ t \notin Groups
    BY TreeDepth DEF Entities
  <2>2. t \in Above(x) /\ t # x
    BY <1>1, <2>1 DEF Chain, Below
  <2> QED BY <2>1, <2>2, AboveEntity
<1>2. Reach(Q, t) = {t}
  BY <1>1 DEF Reach
<1> QED BY <1>2, FS_Singleton DEF Count

LEMMA CountSplit ==
  ASSUME NEW Q, NEW e \in Entities, NEW y \in Queues
  PROVE  Count(Q \cup {e}, y) =
           Count(Q \ {e}, y) + (IF Chain(Q \cup {e}, e, y) THEN Count(Q \ {e}, e) ELSE 0)
<1> DEFINE A == Reach(Q \ {e}, y)
           B == Reach(Q \ {e}, e)
           C == Reach(Q \cup {e}, y)
<1>1. \A t \in Tasks : t # y /\ t \in Entities
  BY TreeDepth DEF Entities, Queues
<1>2. IsFiniteSet(A) /\ IsFiniteSet(B)
  BY CountType
<1>3. CASE ~Chain(Q \cup {e}, e, y)
  <2>1. \A t \in Tasks : Chain(Q \cup {e}, t, y) <=> Chain(Q \ {e}, t, y)
    BY <1>1, <1>3, ChainSplit
  <2>2. C = A
    BY <2>1 DEF Reach
  <2> QED BY <1>3, <2>2, CountType DEF Count
<1>4. CASE Chain(Q \cup {e}, e, y)
  <2>1. \A t \in Tasks : Chain(Q \cup {e}, t, y) <=>
                           Chain(Q \ {e}, t, y) \/ t = e \/ Chain(Q \ {e}, t, e)
    BY <1>1, <1>4, ChainSplit
  <2>2. \A t \in Tasks : ~(Chain(Q \ {e}, t, y) /\ (t = e \/ Chain(Q \ {e}, t, e)))
    BY <1>1, <1>4, ChainSplit
  <2>3. C = A \cup B /\ A \cap B = {}
    BY <1>1, <2>1, <2>2 DEF Reach
  <2>4. Cardinality(C) = Cardinality(A) + Cardinality(B)
    <3>1. Cardinality({}) = 0
      BY FS_EmptySet
    <3>2. Cardinality(A) \in Nat /\ Cardinality(B) \in Nat
      BY CountType DEF Count
    <3> HIDE DEF A, B, C
    <3>3. Cardinality(A \cup B) = Cardinality(A) + Cardinality(B) - Cardinality(A \cap B)
      BY <1>2, FS_Union
    <3>4. Cardinality(A \cap B) = 0
      BY <2>3, <3>1
    <3>5. Cardinality(C) = Cardinality(A \cup B)
      BY <2>3
    <3> QED BY <3>2, <3>3, <3>4, <3>5
  <2> QED BY <1>4, <2>4 DEF Count
<1> QED BY <1>3, <1>4

LEMMA CountSame ==
  ASSUME NEW Q, NEW e \in Entities
  PROVE  Count(Q \cup {e}, e) = Count(Q \ {e}, e)
<1>1. ~Chain(Q \cup {e}, e, e)
  BY DEF Chain, Below
<1>2. \A t \in Tasks : t \in Entities
  BY DEF Entities
<1>3. \A t \in Tasks : Chain(Q \cup {e}, t, e) <=> Chain(Q \ {e}, t, e)
  BY <1>1, <1>2, ChainSplit
<1>4. Reach(Q \cup {e}, e) = Reach(Q \ {e}, e)
  BY <1>3 DEF Reach
<1> QED BY <1>4 DEF Count

LEMMA CountQueued ==
  ASSUME NEW Q, NEW e \in Entities, e \in Q, NEW y \in Queues
  PROVE  Count(Q, y) = Count(Q \ {e}, y) + (IF Chain(Q, e, y) THEN Count(Q, e) ELSE 0)
<1>1. Q \cup {e} = Q
  OBVIOUS
<1>2. Count(Q \cup {e}, y) =
        Count(Q \ {e}, y) + (IF Chain(Q \cup {e}, e, y) THEN Count(Q \ {e}, e) ELSE 0)
  BY CountSplit
<1>3. Count(Q \cup {e}, e) = Count(Q \ {e}, e)
  BY CountSame
<1> QED BY <1>1, <1>2, <1>3

(* An entity that nothing is counted in can be left out. *)
LEMMA CountWithout ==
  ASSUME NEW Q, NEW e \in Entities, Count(Q, e) = 0, NEW y \in Queues
  PROVE  Count(Q \ {e}, y) = Count(Q, y)
<1>1. CASE e \in Q
  <2>1. Q \cup {e} = Q
    BY <1>1
  <2>2. Count(Q \ {e}, e) = 0
    BY <2>1, CountSame
  <2>3. Count(Q \cup {e}, y) =
          Count(Q \ {e}, y) + (IF Chain(Q \cup {e}, e, y) THEN Count(Q \ {e}, e) ELSE 0)
    BY CountSplit
  <2>4. Count(Q \cup {e}, y) = Count(Q, y)
    BY <2>1
  <2>5. Count(Q \ {e}, y) \in Nat
    BY CountType
  <2> QED BY <2>2, <2>3, <2>4, <2>5
<1>2. CASE e \notin Q
  <2>1. Q \ {e} = Q
    BY <1>2
  <2> QED BY <2>1
<1> QED BY <1>1, <1>2

----------------------------------------------------------------------------
(* What rq->lock protects, with counts that may be any integer in the middle
   of a call. *)
States ==
  [on_rq : SUBSET Entities, h_nr_running : [Queues -> Int], nr_running : Int,
   throttled : SUBSET Groups, throttle_count : [Queues -> Int],
   runtime_enabled : SUBSET Groups, next : [Queues -> Entities \cup {None}],
   leaf : Seq(Queues), curr : Tasks \cup {None}]

(* A group is queued when it has something to run and is not throttled. *)
Settled(s, g) == g \in s.on_rq <=> Queued(s, g) # {} /\ g \notin s.throttled

(* throttle_count says how many throttled groups there are from here up. *)
Frozen(s) ==
  /\ s.throttle_count[Root] = 0
  /\ \A g \in Groups : s.throttle_count[g] = Cardinality(s.throttled \cap Above(g))

(* A task that its queue names next is queued. *)
Named(s) == \A t \in Tasks : s.next[up[t]] = t => t \in s.on_rq

(* Each queue counts the tasks that lead up to it through what is queued. *)
Balanced(s) ==
  /\ \A q \in Queues : s.h_nr_running[q] = Count(s.on_rq, q)
  /\ s.nr_running = s.h_nr_running[Root]

(* What holds before and after every call. *)
Sound(s) ==
  /\ s \in States /\ \A g \in Groups : Settled(s, g)
  /\ Frozen(s) /\ Named(s) /\ Balanced(s)

(* What the walks of the dequeueing side leave alone. *)
SameButQueues(s, r) ==
  /\ r.throttled = s.throttled /\ r.throttle_count = s.throttle_count
  /\ r.runtime_enabled = s.runtime_enabled /\ r.leaf = s.leaf
  /\ r.curr = s.curr /\ r.nr_running = s.nr_running

LEMMA NoneIsOther ==
  None \notin Entities /\ \A t \in Tasks : t \in Entities /\ up[t] \in Queues /\ t \notin Queues
BY GroupsAssumption DEF Entities, Queues

LEMMA SetNextBuddyEffect ==
  ASSUME NEW s \in States, NEW e \in Entities
  PROVE  LET r == SetNextBuddy(s, e)
         IN  /\ r \in States /\ SameButQueues(s, r)
             /\ r.on_rq = s.on_rq /\ r.h_nr_running = s.h_nr_running
             /\ \A q \in Queues : r.next[q] = s.next[q] \/ r.next[q] \in Above(e)
<1> DEFINE f == [q \in Queues |->
                   IF \E x \in Above(e) : up[x] = q THEN CHOOSE x \in Above(e) : up[x] = q
                                                    ELSE s.next[q]]
<1>1. Above(e) \subseteq Entities
  BY AboveEntity
<1>2. \A q \in Queues : f[q] = s.next[q] \/ f[q] \in Above(e)
  OBVIOUS
<1>3. f \in [Queues -> Entities \cup {None}]
  BY <1>1, <1>2 DEF States
<1>4. SetNextBuddy(s, e) = [s EXCEPT !.next = f]
  BY DEF SetNextBuddy
<1> HIDE DEF f
<1> QED BY <1>2, <1>3, <1>4 DEF States, SameButQueues

LEMMA ClearBuddiesEffect ==
  ASSUME NEW s \in States, NEW e \in Entities
  PROVE  LET r == ClearBuddies(s, e)
         IN  /\ r \in States /\ SameButQueues(s, r)
             /\ r.on_rq = s.on_rq /\ r.h_nr_running = s.h_nr_running
             /\ \A q \in Queues : r.next[q] \in {s.next[q], None}
             /\ r.next[up[e]] # e
<1> DEFINE leads(x) == \A y \in Above(e) : x \in Above(y) => s.next[up[y]] = y
           f == [q \in Queues |->
                   IF \E x \in Above(e) : up[x] = q /\ leads(x) THEN None ELSE s.next[q]]
<1>1. \A q \in Queues : f[q] \in {s.next[q], None}
  OBVIOUS
<1>2. f \in [Queues -> Entities \cup {None}]
  BY <1>1 DEF States
<1>3. f[up[e]] # e
  <2>1. up[e] \in Queues /\ e \in Above(e)
    BY AboveUnfolds, AboveEntity
  <2>2. ASSUME s.next[up[e]] = e  PROVE leads(e)
    BY <2>2, AboveAntisymmetric
  <2>3. CASE s.next[up[e]] = e
    <3>1. f[up[e]] = None
      BY <2>1, <2>2, <2>3
    <3> QED BY <3>1, NoneIsOther
  <2>4. CASE s.next[up[e]] # e
    BY <1>1, <2>1, <2>4, NoneIsOther
  <2> QED BY <2>3, <2>4
<1>4. ClearBuddies(s, e) = [s EXCEPT !.next = f]
  BY DEF ClearBuddies
<1> HIDE DEF f
<1> QED BY <1>1, <1>2, <1>3, <1>4 DEF States, SameButQueues

LEMMA DequeueEntityEffect ==
  ASSUME NEW s \in States, NEW e \in Entities
  PROVE  LET r == DequeueEntity(s, e)
         IN  /\ r \in States /\ SameButQueues(s, r)
             /\ r.on_rq = s.on_rq \ {e} /\ r.h_nr_running = s.h_nr_running
             /\ \A q \in Queues : r.next[q] \in {s.next[q], None}
             /\ r.next[up[e]] # e
<1> DEFINE c == ClearBuddies(s, e)
<1>1. /\ c \in States /\ SameButQueues(s, c)
      /\ c.on_rq = s.on_rq /\ c.h_nr_running = s.h_nr_running
      /\ \A q \in Queues : c.next[q] \in {s.next[q], None}
      /\ c.next[up[e]] # e
  BY ClearBuddiesEffect
<1>2. DequeueEntity(s, e) = [c EXCEPT !.on_rq = @ \ {e}]
  BY DEF DequeueEntity
<1> HIDE DEF c
<1> QED BY <1>1, <1>2 DEF States, SameButQueues

(* Counting: only the one queue's h_nr_running changes. *)
LEMMA CountedEffect ==
  ASSUME NEW s \in States, NEW q \in Queues, NEW v \in Int,
         NEW r, r = [s EXCEPT !.h_nr_running[q] = v]
  PROVE  /\ r \in States /\ SameButQueues(s, r)
         /\ r.on_rq = s.on_rq /\ r.next = s.next
         /\ r.h_nr_running[q] = v
         /\ \A y \in Queues \ {q} : r.h_nr_running[y] = s.h_nr_running[y]
<1>1. s.h_nr_running \in [Queues -> Int]
  BY DEF States
<1> DEFINE f == [s.h_nr_running EXCEPT ![q] = v]
<1>2. /\ f \in [Queues -> Int] /\ f[q] = v
      /\ \A y \in Queues \ {q} : f[y] = s.h_nr_running[y]
  BY <1>1
<1>3. r = [s EXCEPT !.h_nr_running = f]
  OBVIOUS
<1> HIDE DEF f
<1> QED BY <1>2, <1>3 DEF States, SameButQueues

(* Freezing g or thawing it: the counts below g, and no others, go by one. *)
LEMMA FreezeEffect ==
  ASSUME NEW s \in States, NEW g \in Groups, NEW d \in Int
  PROVE  LET r == Freeze(s, g, d)
         IN  /\ r \in States
             /\ r = [s EXCEPT !.throttle_count = r.throttle_count]
             /\ r.throttle_count[Root] = s.throttle_count[Root]
             /\ \A x \in Groups : r.throttle_count[x] =
                  s.throttle_count[x] + (IF g \in Above(x) THEN d ELSE 0)
<1> DEFINE f == [q \in Queues |-> IF q \in Subtree(g) THEN s.throttle_count[q] + d
                                                   ELSE s.throttle_count[q]]
<1>1. s.throttle_count \in [Queues -> Int]
  BY DEF States
<1>2. f \in [Queues -> Int]
  BY <1>1
<1>3. f[Root] = s.throttle_count[Root]
  BY GroupsAssumption DEF Subtree, Queues, Entities
<1>4. \A x \in Groups : f[x] = s.throttle_count[x] + (IF g \in Above(x) THEN d ELSE 0)
  BY <1>1 DEF Subtree, Queues
<1>5. Freeze(s, g, d) = [s EXCEPT !.throttle_count = f]
  BY DEF Freeze
<1> HIDE DEF f
<1> QED BY <1>2, <1>3, <1>4, <1>5 DEF States

LEMMA AddLeafEffect ==
  ASSUME NEW s \in States, NEW q \in Queues
  PROVE  LET r == AddLeaf(s, q)
         IN  r \in States /\ r = [s EXCEPT !.leaf = r.leaf]
<1>1. s.leaf \in Seq(Queues) /\ s = [s EXCEPT !.leaf = s.leaf]
  BY DEF States
<1>2. <<q>> \o s.leaf \in Seq(Queues) /\ Append(s.leaf, q) \in Seq(Queues)
  BY <1>1
<1>3. \E l \in Seq(Queues) : AddLeaf(s, q) = [s EXCEPT !.leaf = l]
  BY <1>1, <1>2 DEF AddLeaf
<1> QED BY <1>3 DEF States

(* One more throttled group counts once for each group below it. *)
LEMMA ThrottledAbove ==
  ASSUME NEW T \in SUBSET Groups, NEW g \in Groups \ T, NEW x \in Groups
  PROVE  Cardinality((T \cup {g}) \cap Above(x)) =
           Cardinality(T \cap Above(x)) + (IF g \in Above(x) THEN 1 ELSE 0)
<1>1. IsFiniteSet(T \cap Above(x))
  <2>1. IsFiniteSet(T)
    BY GroupsAssumption, FS_Subset
  <2> QED BY <2>1, FS_Subset
<1>2. CASE g \in Above(x)
  <2>1. (T \cup {g}) \cap Above(x) = (T \cap Above(x)) \cup {g} /\ g \notin T \cap Above(x)
    BY <1>2
  <2>2. Cardinality((T \cap Above(x)) \cup {g}) = Cardinality(T \cap Above(x)) + 1
    BY <1>1, <2>1, FS_AddElement
  <2> QED BY <1>2, <2>1, <2>2
<1>3. CASE g \notin Above(x)
  <2>1. (T \cup {g}) \cap Above(x) = T \cap Above(x)
    BY <1>3
  <2>2. Cardinality(T \cap Above(x)) \in Nat
    BY <1>1, FS_CardinalityType
  <2> QED BY <1>3, <2>1, <2>2
<1> QED BY <1>2, <1>3

(* What a walk that has come to x still has to add to the count of y. *)
Due(a, x, delta, y) == IF a.go /\ Chain(a.s.on_rq, x, y) THEN delta ELSE 0

(* What has been, or is about to be, taken off the queues. *)
Kept(a, x) == IF a.go /\ a.queue THEN a.s.on_rq \ {x} ELSE a.s.on_rq

Stages == [s : States, queue : BOOLEAN, go : BOOLEAN]

(* The walk that takes g, with delta tasks, out of the queues of s, at x: but for
   g, the one group that is not settled is x, which has become empty, and the
   counts of the queues above x that it is counted in are too high by delta. *)
Lowering(s, g, delta, a, x) ==
  /\ a \in Stages /\ SameButQueues(s, a.s)
  /\ a.s.on_rq \subseteq s.on_rq /\ (Tasks \cap s.on_rq) \ {g} \subseteq a.s.on_rq
  /\ Named(a.s)
  /\ g \in a.s.on_rq => x = g /\ a.go /\ a.queue
  /\ \A d \in Groups \ {g} : Settled(a.s, d) \/ (d = x /\ a.go /\ a.queue)
  /\ a.go /\ a.queue /\ x \in Groups \ {g} => Queued(a.s, x) = {}
  /\ \A y \in Queues : a.s.h_nr_running[y] = Count(Kept(a, x), y) + Due(a, x, delta, y)
  /\ a.s.h_nr_running[Root] = s.h_nr_running[Root] - (IF x = Root /\ a.go THEN delta ELSE 0)

(* LowerLevel takes the walk from an entity to its parent. *)
LEMMA LowerStep ==
  ASSUME NEW s \in States, NEW g \in Entities, NEW delta \in Int,
         NEW a, NEW e \in Groups \cup {g}, Lowering(s, g, delta, a, e)
  PROVE  Lowering(s, g, delta, LowerLevel(a, e, delta), up[e])
<1> DEFINE n == LowerLevel(a, e, delta)
           q == up[e]
           On == a.s.on_rq
           O == IF a.queue THEN On \ {e} ELSE On
           t == IF a.queue THEN DequeueEntity(a.s, e) ELSE a.s
           h == a.s.h_nr_running
<1> SUFFICES Lowering(s, g, delta, n, q)
  OBVIOUS
<1>0. e \in Entities
  BY DEF Entities
<1>1. /\ e \in Entities /\ q \in Queues /\ q # e /\ e # Root /\ Root \notin Groups
      /\ \A y : Chain(On, e, y) <=> e \in On /\ (y = q \/ Chain(On, q, y))
      /\ \A y : ~Chain(On, q, q)
      /\ \A y : Chain(On \ {e}, q, y) <=> Chain(On, q, y)
  <2>1. q \in Queues /\ q # e /\ e # Root /\ Root \notin Groups
    BY <1>0, AboveSteps, AboveUnfolds, GroupsAssumption DEF Entities
  <2> QED BY <1>0, <2>1, ChainUnfolds
<1>2. /\ a \in Stages /\ a.s \in States /\ a.queue \in BOOLEAN /\ a.go \in BOOLEAN
      /\ On \subseteq Entities /\ h \in [Queues -> Int]
  BY DEF Lowering, Stages, States
<1>3. CASE ~a.go \/ e \notin On
  <2>1. n = [a EXCEPT !.go = FALSE]
    BY <1>3 DEF LowerLevel
  <2>2. n \in Stages /\ n.s = a.s /\ n.go = FALSE /\ n.queue = a.queue
    BY <1>2, <2>1 DEF Stages
  <2> HIDE DEF n
  <2>3. g \notin On
    BY <1>3 DEF Lowering
  <2>4. \A d \in Groups \ {g} : Settled(a.s, d)
    BY <1>3 DEF Lowering, Settled
  <2>5. ASSUME NEW y \in Queues  PROVE h[y] = Count(Kept(n, q), y) + Due(n, q, delta, y)
    <3>1. Kept(a, e) = On /\ Kept(n, q) = On /\ Due(n, q, delta, y) = 0
      BY <1>3, <2>2 DEF Kept, Due
    <3>2. Due(a, e, delta, y) = 0
      BY <1>1, <1>3 DEF Due
    <3>3. h[y] = Count(Kept(a, e), y) + Due(a, e, delta, y)
      BY DEF Lowering
    <3> QED BY <3>1, <3>2, <3>3
  <2>6. h[Root] = s.h_nr_running[Root] - (IF q = Root /\ n.go THEN delta ELSE 0)
    BY <1>1, <2>2 DEF Lowering
  <2> QED BY <2>2, <2>3, <2>4, <2>5, <2>6 DEF Lowering
<1>4. CASE a.go /\ e \in On
  <2>1. /\ t \in States /\ SameButQueues(a.s, t) /\ t.on_rq = O /\ t.h_nr_running = h
        /\ Named(t)
    <3>1. CASE a.queue
      <4>1. /\ t \in States /\ SameButQueues(a.s, t)
            /\ t.on_rq = On \ {e} /\ t.h_nr_running = h
            /\ \A y \in Queues : t.next[y] \in {a.s.next[y], None}
            /\ t.next[q] # e
        BY <1>1, <1>2, <3>1, DequeueEntityEffect
      <4> HIDE DEF t
      <4>2. Named(t)
        BY <4>1, NoneIsOther DEF Lowering, Named
      <4> QED BY <3>1, <4>1, <4>2
    <3>2. CASE ~a.queue
      BY <1>2, <3>2 DEF SameButQueues, Lowering
    <3> QED BY <3>1, <3>2
  <2>2. n = [s |-> [t EXCEPT !.h_nr_running[q] = @ - delta],
             queue |-> a.queue /\ Queued(t, q) = {}, go |-> TRUE]
    BY <1>4 DEF LowerLevel
  <2> HIDE DEF t, n
  <2>3. /\ n.s \in States /\ SameButQueues(t, n.s) /\ n.s.on_rq = O /\ n.s.next = t.next
        /\ n.s.h_nr_running[q] = h[q] - delta
        /\ \A y \in Queues \ {q} : n.s.h_nr_running[y] = h[y]
    <3> DEFINE v == h[q] - delta
    <3>1. v \in Int /\ v = h[q] - delta
      BY <1>1, <1>2
    <3>2. n.s = [t EXCEPT !.h_nr_running[q] = v]
      BY <2>1, <2>2
    <3> HIDE DEF v
    <3>3. /\ n.s \in States /\ SameButQueues(t, n.s)
          /\ n.s.on_rq = t.on_rq /\ n.s.next = t.next
          /\ n.s.h_nr_running[q] = v
          /\ \A y \in Queues \ {q} : n.s.h_nr_running[y] = t.h_nr_running[y]
      BY <1>1, <2>1, <3>1, <3>2, CountedEffect
    <3>4. t.on_rq = O /\ \A y \in Queues : t.h_nr_running[y] = h[y]
      BY <2>1
    <3> HIDE DEF h, O
    <3> QED BY <3>1, <3>3, <3>4
  <2>4. /\ n.go = TRUE /\ n.queue \in BOOLEAN /\ n \in Stages
        /\ n.queue <=> a.queue /\ Queued(t, q) = {}
    BY <2>2, <2>3 DEF Stages
  <2>5. SameButQueues(s, n.s) /\ Named(n.s)
    BY <2>1, <2>3 DEF Lowering, SameButQueues, Named
  <2>6. O \subseteq s.on_rq /\ (Tasks \cap s.on_rq) \ {g} \subseteq O
    BY TreeDepth DEF Lowering
  <2>7. g \notin O
    BY <1>4 DEF Lowering
  <2>8. \A d \in Groups : Queued(n.s, d) = {x \in O : up[x] = d} /\ Queued(t, d) = Queued(n.s, d)
    BY <2>1, <2>3 DEF Queued
  <2>9. ASSUME NEW d \in Groups \ {g}  PROVE Settled(n.s, d) \/ (d = q /\ n.go /\ n.queue)
    <3>1. CASE d = e
      <4>1. Queued(n.s, d) = Queued(a.s, d)
        BY <1>1, <2>8, <3>1 DEF Queued
      <4> QED BY <1>4, <2>1, <2>3, <3>1, <4>1 DEF Lowering, Settled, SameButQueues
    <3>2. CASE d # e /\ d # q
      <4>1. Queued(n.s, d) = Queued(a.s, d)
        BY <2>8, <3>2 DEF Queued
      <4>2. Settled(a.s, d)
        BY <3>2 DEF Lowering
      <4> QED BY <2>1, <2>3, <3>2, <4>1, <4>2 DEF Settled, SameButQueues
    <3>3. CASE d = q
      <4>1. Settled(a.s, d) /\ e \in Queued(a.s, d)
        BY <1>1, <1>4, <3>3 DEF Lowering, Queued
      <4>2. CASE Queued(n.s, d) # {}
        BY <1>1, <2>1, <2>3, <3>3, <4>1, <4>2 DEF Settled, SameButQueues
      <4>3. CASE Queued(n.s, d) = {}
        <5>1. a.queue
          BY <2>8, <4>1, <4>3 DEF Queued
        <5> QED BY <2>4, <2>8, <3>3, <4>3, <5>1
      <4> QED BY <4>2, <4>3
    <3> QED BY <3>1, <3>2, <3>3
  <2>10. n.go /\ n.queue /\ q \in Groups \ {g} => Queued(n.s, q) = {}
    BY <2>4, <2>8
  <2>11. ASSUME NEW y \in Queues
         PROVE  n.s.h_nr_running[y] = Count(Kept(n, q), y) + Due(n, q, delta, y)
    <3>1. h[y] = Count(O, y) + (IF Chain(On, e, y) THEN delta ELSE 0)
      BY <1>4 DEF Lowering, Kept, Due
    <3>2. Chain(O, q, y) <=> Chain(On, q, y)
      BY <1>1
    <3>3. Due(n, q, delta, y) = IF Chain(O, q, y) THEN delta ELSE 0
      BY <2>3, <2>4 DEF Due
    <3>4. n.s.h_nr_running[y] = Count(O, y) + Due(n, q, delta, y)
      <4>1. Count(O, y) \in Nat
        BY CountType
      <4>2. CASE y = q
        BY <1>1, <1>4, <2>3, <3>1, <3>2, <3>3, <4>1, <4>2
      <4>3. CASE y # q
        BY <1>1, <1>4, <2>3, <3>1, <3>2, <3>3, <4>3
      <4> QED BY <4>2, <4>3
    <3>5. Count(Kept(n, q), y) = Count(O, y)
      <4>1. CASE ~n.queue
        BY <2>3, <4>1 DEF Kept
      <4>2. CASE n.queue /\ q = Root
        <5>1. O \ {q} = O
          BY <1>2, <4>2, TreeDepth
        <5> QED BY <2>3, <2>4, <4>2, <5>1 DEF Kept
      <4>3. CASE n.queue /\ q \in Groups
        <5>1. \A x \in Entities \cap O : up[x] # q
          BY <2>4, <2>8, <4>3
        <5>2. Count(O, q) = 0
          BY <1>1, <5>1, CountEmpty
        <5>3. Count(O \ {q}, y) = Count(O, y)
          BY <4>3, <5>2, CountWithout DEF Entities
        <5> QED BY <2>3, <2>4, <4>3, <5>3 DEF Kept
      <4> QED BY <1>1, <2>4, <4>1, <4>2, <4>3 DEF Queues
    <3> QED BY <3>4, <3>5
  <2>12. n.s.h_nr_running[Root] = s.h_nr_running[Root] - (IF q = Root /\ n.go THEN delta ELSE 0)
    <3>1. h[Root] = s.h_nr_running[Root] - 0 /\ Root \in Queues /\ s.h_nr_running[Root] \in Int
      BY <1>1 DEF Lowering, Queues, States
    <3> QED BY <2>3, <2>4, <3>1
  <2> QED BY <2>3, <2>4, <2>5, <2>6, <2>7, <2>9, <2>10, <2>11, <2>12 DEF Lowering
<1> QED BY <1>2, <1>3, <1>4

(* Where a walk up from e is after k levels. *)
At(e, k) == IF k < Len(Path[e]) THEN Path[e][k + 1] ELSE Root

LEMMA AtSteps ==
  ASSUME NEW e \in Entities
  PROVE  /\ Len(Path[e]) \in Nat \ {0}
         /\ At(e, 0) = e /\ At(e, Len(Path[e])) = Root
         /\ \A k \in 1 .. Len(Path[e]) :
              /\ Path[e][k] = At(e, k - 1) /\ Path[e][k] \in Entities
              /\ At(e, k) = up[Path[e][k]]
              /\ Path[e][k] = e \/ Path[e][k] \in Groups
<1> DEFINE p == Path[e]
<1>1. /\ p \in Seq(Entities) /\ Len(p) \in Nat \ {0} /\ p[1] = e
      /\ \A k \in 1 .. Len(p) - 1 : p[k + 1] = up[p[k]] /\ p[k + 1] \in Groups
      /\ up[p[Len(p)]] = Root
  BY PathProperties
<1>2. /\ At(e, 0) = p[1] /\ At(e, Len(p)) = Root
  BY <1>1 DEF At
<1>3. ASSUME NEW k \in 1 .. Len(p)
      PROVE  /\ p[k] = At(e, k - 1) /\ p[k] \in Entities
             /\ At(e, k) = up[p[k]] /\ (p[k] = e \/ p[k] \in Groups)
  <2> HIDE DEF p
  <2>1. p[k] \in Entities
    BY <1>1
  <2>2. p[k] = At(e, k - 1)
    BY <1>1 DEF At, p
  <2>3. At(e, k) = up[p[k]]
    <3>1. CASE k < Len(p)
      BY <1>1, <3>1 DEF At, p
    <3>2. CASE k = Len(p)
      BY <1>1, <3>2 DEF At, p
    <3> QED BY <1>1, <3>1, <3>2
  <2>4. p[k] = e \/ p[k] \in Groups
    <3>1. CASE k # 1
      <4>1. k - 1 \in 1 .. Len(p) - 1 /\ (k - 1) + 1 = k
        BY <1>1, <3>1
      <4> QED BY <1>1, <4>1
    <3> QED BY <1>1, <3>1
  <2> QED BY <2>1, <2>2, <2>3, <2>4
<1> QED BY <1>1, <1>2, <1>3

(* So LowerLevel takes the walk to the root. *)
LEMMA LowerAll ==
  ASSUME NEW s \in States, NEW g \in Groups, NEW delta \in Int,
         Lowering(s, g, delta, From(s), g)
  PROVE  Lowering(s, g, delta,
                  Walk(LAMBDA a, e : LowerLevel(a, e, delta), From(s), Path[g]), Root)
<1> DEFINE end == Walk(LAMBDA a, e : LowerLevel(a, e, delta), From(s), Path[g])
           n == Len(Path[g])
<1> SUFFICES Lowering(s, g, delta, end, Root)
  OBVIOUS
<1>1. g \in Entities
  BY DEF Entities
<1>2. n \in Nat
  BY <1>1, AtSteps
<1>0. end = LowerEnd(From(s), Path[g], delta)
  BY DEF LowerEnd
<1> HIDE DEF end
<1>3. PICK w : /\ w[0] = From(s)
               /\ \A k \in 1 .. n : w[k] = LowerLevel(w[k - 1], Path[g][k], delta)
               /\ end = w[n]
  <2> DEFINE b == From(s)
             p == Path[g]
  <2>1. Len(p) \in Nat
    BY <1>2
  <2>2. end = LowerEnd(b, p, delta)
    BY <1>0
  <2> HIDE DEF b, p
  <2>3. \E w : /\ w[0] = b
               /\ \A k \in 1 .. Len(p) : w[k] = LowerLevel(w[k - 1], p[k], delta)
               /\ end = w[Len(p)]
    BY <2>1, <2>2, LowerWalk
  <2> QED BY <2>3 DEF b, p
<1> DEFINE T == {k \in Nat : k <= n => Lowering(s, g, delta, w[k], At(g, k))}
<1>4. 0 \in T
  BY <1>1, <1>3, AtSteps
<1>5. ASSUME NEW k \in Nat, k \in T  PROVE k + 1 \in T
  <2> SUFFICES ASSUME k + 1 <= n  PROVE Lowering(s, g, delta, w[k + 1], At(g, k + 1))
    OBVIOUS
  <2>1. k + 1 \in 1 .. n /\ (k + 1) - 1 = k /\ k <= n
    BY <1>2
  <2>2. /\ Path[g][k + 1] = At(g, k) /\ At(g, k + 1) = up[At(g, k)]
        /\ At(g, k) \in Groups \cup {g}
    BY <1>1, <2>1, AtSteps
  <2>3. Lowering(s, g, delta, w[k], At(g, k))
    BY <1>5, <2>1
  <2>4. w[k + 1] = LowerLevel(w[k], At(g, k), delta)
    BY <1>3, <2>1, <2>2
  <2> QED BY <1>1, <2>2, <2>3, <2>4, LowerStep
<1>6. n \in T
  <2> HIDE DEF T, n
  <2> QED BY <1>2, <1>4, <1>5, NatSetInduction
<1> QED BY <1>1, <1>2, <1>3, <1>6, AtSteps

(* At the root nothing is due any more, and nothing is missing. *)
LEMMA AtRoot ==
  ASSUME NEW a, a \in Stages, NEW delta, NEW y
  PROVE  Due(a, Root, delta, y) = 0 /\ Kept(a, Root) = a.s.on_rq
<1>1. Root \notin Entities
  BY TreeDepth
<1>2. ~Chain(a.s.on_rq, Root, y)
  BY <1>1 DEF Chain, Below
<1>3. a.s.on_rq \subseteq Entities
  BY DEF Stages, States
<1> QED BY <1>1, <1>2, <1>3 DEF Due, Kept

(* A throttled group counts for those below it. *)
LEMMA FrozenThrottle ==
  ASSUME NEW s \in States, Frozen(s), NEW g \in Groups \ s.throttled,
         NEW r \in States, r.throttled = s.throttled \cup {g},
         r.throttle_count = Freeze(s, g, 1).throttle_count
  PROVE  Frozen(r)
<1>1. /\ r.throttle_count[Root] = s.throttle_count[Root]
      /\ \A x \in Groups : r.throttle_count[x] =
           s.throttle_count[x] + (IF g \in Above(x) THEN 1 ELSE 0)
  BY FreezeEffect
<1>2. s.throttled \in SUBSET Groups
  BY DEF States
<1>3. ASSUME NEW x \in Groups
      PROVE  r.throttle_count[x] = Cardinality(r.throttled \cap Above(x))
  <2>1. Cardinality((s.throttled \cup {g}) \cap Above(x)) =
          Cardinality(s.throttled \cap Above(x)) + (IF g \in Above(x) THEN 1 ELSE 0)
    BY <1>2, ThrottledAbove
  <2>2. s.throttle_count[x] = Cardinality(s.throttled \cap Above(x))
    BY DEF Frozen
  <2> QED BY <1>1, <2>1, <2>2
<1> QED BY <1>1, <1>3 DEF Frozen

(* The walk starts below a sound state: all of g's tasks are due above it. *)
LEMMA LoweringStarts ==
  ASSUME NEW f \in States, \A d \in Groups : Settled(f, d), Named(f),
         \A y \in Queues : f.h_nr_running[y] = Count(f.on_rq, y),
         NEW g \in Entities, NEW delta, delta = Count(f.on_rq, g)
  PROVE  Lowering(f, g, delta, From(f), g)
<1> DEFINE b == From(f)
           On == f.on_rq
<1>1. b \in Stages /\ b.s = f /\ b.go = TRUE /\ b.queue = TRUE
  BY DEF From, Stages
<1> SUFFICES Lowering(f, g, delta, b, g)
  OBVIOUS
<1> HIDE DEF b
<1>2. ASSUME NEW y \in Queues
      PROVE  f.h_nr_running[y] = Count(Kept(b, g), y) + Due(b, g, delta, y)
  <2>1. f.h_nr_running[y] = Count(On, y) /\ Count(On, y) \in Nat
    BY CountType
  <2>2. Kept(b, g) = On \ {g} /\ Due(b, g, delta, y) = IF Chain(On, g, y) THEN delta ELSE 0
    BY <1>1 DEF Kept, Due
  <2>3. CASE g \in On
    <3>1. Count(On, y) = Count(On \ {g}, y) + (IF Chain(On, g, y) THEN Count(On, g) ELSE 0)
      BY <2>3, CountQueued
    <3> QED BY <2>1, <2>2, <3>1
  <2>4. CASE g \notin On
    <3>1. On \ {g} = On
      BY <2>4
    <3>2. ~Chain(On, g, y)
      BY <2>4, ChainUnfolds
    <3> QED BY <2>1, <2>2, <3>1, <3>2
  <2> QED BY <2>3, <2>4
<1>3. f.h_nr_running[Root] = f.h_nr_running[Root] - (IF g = Root /\ b.go THEN delta ELSE 0)
  <2>1. g # Root /\ f.h_nr_running[Root] \in Int
    BY TreeDepth DEF States, Queues
  <2> QED BY <2>1
<1>4. SameButQueues(f, f)
  BY DEF SameButQueues
<1> QED BY <1>1, <1>2, <1>3, <1>4 DEF Lowering

(* throttle_cfs_rq(), of a group that is not throttled. *)
LEMMA ThrottleSound ==
  ASSUME NEW s, Sound(s), NEW g \in Groups \ s.throttled
  PROVE  LET r == ThrottleGroup(s, g)
         IN  /\ Sound(r) /\ r.curr = s.curr /\ r.leaf = s.leaf
             /\ Tasks \cap r.on_rq = Tasks \cap s.on_rq
<1> DEFINE r == ThrottleGroup(s, g)
           f == Freeze(s, g, 1)
           delta == s.h_nr_running[g]
           end == Walk(LAMBDA a, e : LowerLevel(a, e, delta), From(f), Path[g])
           b == From(f)
           On == s.on_rq
<1> SUFFICES /\ Sound(r) /\ r.curr = s.curr /\ r.leaf = s.leaf
             /\ Tasks \cap r.on_rq = Tasks \cap s.on_rq
  OBVIOUS
<1>1. /\ s \in States /\ g \in Entities /\ g \in Queues /\ g # Root
      /\ delta \in Int /\ delta = Count(On, g) /\ Root \in Queues /\ Root \notin Groups
  BY TreeDepth DEF Sound, Balanced, Entities, Queues, States
<1>2. /\ f \in States /\ f = [s EXCEPT !.throttle_count = f.throttle_count]
  BY <1>1, FreezeEffect
<1>3. r = [end.s EXCEPT !.throttled = @ \cup {g},
                        !.nr_running = IF end.go THEN @ - delta ELSE @]
  BY DEF ThrottleGroup
<1> HIDE DEF r
<1>4. /\ f.on_rq = On /\ f.h_nr_running = s.h_nr_running /\ f.nr_running = s.nr_running
      /\ f.throttled = s.throttled /\ f.runtime_enabled = s.runtime_enabled
      /\ f.next = s.next /\ f.leaf = s.leaf /\ f.curr = s.curr
  <2> HIDE DEF f
  <2> QED BY <1>1, <1>2 DEF States
<1>5. Lowering(f, g, delta, b, g)
  <2> HIDE DEF f, delta
  <2>1. \A d \in Groups : Settled(f, d)
    BY <1>4 DEF Sound, Settled, Queued
  <2>2. Named(f)
    BY <1>4 DEF Sound, Named
  <2>3. \A y \in Queues : f.h_nr_running[y] = Count(f.on_rq, y)
    BY <1>4 DEF Sound, Balanced
  <2>4. delta = Count(f.on_rq, g)
    BY <1>1, <1>4
  <2> QED BY <1>1, <1>2, <2>1, <2>2, <2>3, <2>4, LoweringStarts
<1>6. Lowering(f, g, delta, end, Root)
  <2> HIDE DEF f, delta
  <2> QED BY <1>1, <1>2, <1>5, LowerAll
<1>7. f.throttle_count = Freeze(s, g, 1).throttle_count
  OBVIOUS
<1> HIDE DEF end, f, b, delta
<1>8. /\ end \in Stages /\ end.s \in States /\ end.go \in BOOLEAN /\ SameButQueues(f, end.s)
      /\ end.s.on_rq \subseteq On /\ Tasks \cap On \subseteq end.s.on_rq
      /\ Named(end.s) /\ g \notin end.s.on_rq /\ \A d \in Groups \ {g} : Settled(end.s, d)
      /\ end.s.h_nr_running[Root] = s.h_nr_running[Root] - (IF end.go THEN delta ELSE 0)
  BY <1>1, <1>4, <1>6, TreeDepth DEF Lowering, Stages
<1>9. \A y \in Queues : end.s.h_nr_running[y] = Count(end.s.on_rq, y)
  <2>1. ASSUME NEW y \in Queues  PROVE end.s.h_nr_running[y] = Count(end.s.on_rq, y)
    <3>1. end.s.h_nr_running[y] = Count(Kept(end, Root), y) + Due(end, Root, delta, y)
      BY <1>6 DEF Lowering
    <3> QED BY <1>8, <3>1, AtRoot, CountType
  <2> QED BY <2>1
<1>10. /\ r \in States /\ r.on_rq = end.s.on_rq /\ r.h_nr_running = end.s.h_nr_running
       /\ r.throttled = s.throttled \cup {g} /\ r.throttle_count = f.throttle_count
       /\ r.next = end.s.next /\ r.leaf = s.leaf /\ r.curr = s.curr
       /\ r.nr_running = s.nr_running - (IF end.go THEN delta ELSE 0)
  <2> DEFINE v == IF end.go THEN end.s.nr_running - delta ELSE end.s.nr_running
  <2>1. /\ v \in Int /\ v = s.nr_running - (IF end.go THEN delta ELSE 0)
        /\ end.s.throttled = s.throttled /\ end.s.throttle_count = f.throttle_count
        /\ end.s.leaf = s.leaf /\ end.s.curr = s.curr
    BY <1>1, <1>4, <1>8 DEF SameButQueues, States
  <2>2. r = [end.s EXCEPT !.throttled = @ \cup {g}, !.nr_running = v]
    BY <1>3
  <2> HIDE DEF v
  <2> QED BY <1>8, <2>1, <2>2 DEF States
<1>11. Frozen(r)
  BY <1>1, <1>7, <1>10, FrozenThrottle DEF Sound
<1>12. ASSUME NEW d \in Groups  PROVE Settled(r, d)
  BY <1>4, <1>8, <1>10 DEF Settled, Queued, SameButQueues
<1>13. Named(r)
  BY <1>8, <1>10 DEF Named
<1>14. Balanced(r)
  <2>1. r.nr_running = r.h_nr_running[Root]
    BY <1>8, <1>10 DEF Sound, Balanced
  <2> QED BY <1>9, <1>10, <2>1 DEF Balanced
<1> QED BY <1>8, <1>10, <1>11, <1>12, <1>13, <1>14 DEF Sound

(* Nothing in a sound state is about which task runs. *)
LEMMA CurrSound ==
  ASSUME NEW s, Sound(s), NEW c \in Tasks \cup {None}, NEW r, r = [s EXCEPT !.curr = c]
  PROVE  Sound(r) /\ r.curr = c /\ r.on_rq = s.on_rq
<1>1. /\ s \in States /\ r \in States /\ r.curr = c
      /\ r.on_rq = s.on_rq /\ r.h_nr_running = s.h_nr_running
      /\ r.nr_running = s.nr_running /\ r.throttled = s.throttled
      /\ r.throttle_count = s.throttle_count /\ r.next = s.next
  BY DEF Sound, States
<1>2. \A g \in Groups : Settled(r, g)
  BY <1>1 DEF Sound, Settled, Queued
<1>3. Frozen(r) /\ Named(r) /\ Balanced(r)
  BY <1>1 DEF Sound, Frozen, Named, Balanced
<1> QED BY <1>1, <1>2, <1>3 DEF Sound

(* Nor about the buddies, but that a task among them is queued. *)
LEMMA BuddySound ==
  ASSUME NEW s, Sound(s), NEW r \in States, SameButQueues(s, r),
         r.on_rq = s.on_rq, r.h_nr_running = s.h_nr_running, Named(r)
  PROVE  Sound(r)
<1>1. \A g \in Groups : Settled(r, g)
  BY DEF Sound, Settled, Queued, SameButQueues
<1>2. Frozen(r) /\ Balanced(r)
  BY DEF Sound, Frozen, Balanced, SameButQueues
<1> QED BY <1>1, <1>2 DEF Sound

LEMMA SetNextBuddySound ==
  ASSUME NEW s, Sound(s), NEW e \in Entities, e \in Groups \cup s.on_rq
  PROVE  LET r == SetNextBuddy(s, e)
         IN  Sound(r) /\ r.curr = s.curr /\ r.on_rq = s.on_rq
<1> DEFINE r == SetNextBuddy(s, e)
<1>1. s \in States
  BY DEF Sound
<1>2. /\ r \in States /\ SameButQueues(s, r)
      /\ r.on_rq = s.on_rq /\ r.h_nr_running = s.h_nr_running
      /\ \A q \in Queues : r.next[q] = s.next[q] \/ r.next[q] \in Above(e)
  BY <1>1, SetNextBuddyEffect
<1> SUFFICES Sound(r) /\ r.curr = s.curr /\ r.on_rq = s.on_rq
  OBVIOUS
<1> HIDE DEF r
<1>3. ASSUME NEW t \in Tasks, r.next[up[t]] = t  PROVE t \in r.on_rq
  <2>1. CASE s.next[up[t]] = t
    BY <1>2, <2>1 DEF Sound, Named
  <2>2. CASE t \in Above(e)
    <3>1. t \notin Groups
      BY TreeDepth
    <3>2. t = e
      BY <2>2, <3>1, AboveEntity
    <3> QED BY <1>2, <3>1, <3>2
  <2> QED BY <1>2, <1>3, <2>1, <2>2, NoneIsOther
<1>4. Named(r)
  BY <1>3 DEF Named
<1> QED BY <1>2, <1>4, BuddySound DEF SameButQueues

LEMMA ClearBuddiesSound ==
  ASSUME NEW s, Sound(s), NEW e \in Entities
  PROVE  LET r == ClearBuddies(s, e)
         IN  Sound(r) /\ r.curr = s.curr /\ r.on_rq = s.on_rq
             /\ r.next[up[e]] # e
             /\ \A q \in Queues : r.next[q] \in {s.next[q], None}
<1> DEFINE r == ClearBuddies(s, e)
<1>1. s \in States
  BY DEF Sound
<1>2. /\ r \in States /\ SameButQueues(s, r)
      /\ r.on_rq = s.on_rq /\ r.h_nr_running = s.h_nr_running
      /\ \A q \in Queues : r.next[q] \in {s.next[q], None}
      /\ r.next[up[e]] # e
  BY <1>1, ClearBuddiesEffect
<1> SUFFICES /\ Sound(r) /\ r.curr = s.curr /\ r.on_rq = s.on_rq
             /\ r.next[up[e]] # e
             /\ \A q \in Queues : r.next[q] \in {s.next[q], None}
  OBVIOUS
<1> HIDE DEF r
<1>3. Named(r)
  BY <1>2, NoneIsOther DEF Named, Sound
<1> QED BY <1>2, <1>3, BuddySound DEF SameButQueues

(* check_cfs_rq_runtime(), of any queue. *)
LEMMA CheckSound ==
  ASSUME NEW s, Sound(s), NEW q, NEW X
  PROVE  LET r == Check(s, q, X)
         IN  Sound(r) /\ r.curr = s.curr /\ Tasks \cap r.on_rq = Tasks \cap s.on_rq
<1>1. CASE q \in (X \cap s.runtime_enabled) \ s.throttled
  <2>1. q \in Groups \ s.throttled
    BY <1>1 DEF Sound, States
  <2>2. Check(s, q, X) = ThrottleGroup(s, q)
    BY <1>1 DEF Check
  <2> HIDE DEF Check
  <2> QED BY <2>1, <2>2, ThrottleSound
<1>2. CASE ~(q \in (X \cap s.runtime_enabled) \ s.throttled)
  BY <1>2 DEF Check
<1> QED BY <1>1, <1>2

LEMMA PutPrevSound ==
  ASSUME NEW s, Sound(s), s.curr \in Tasks, NEW X
  PROVE  LET r == PutPrev(s, X)
         IN  Sound(r) /\ r.curr = None /\ Tasks \cap r.on_rq = Tasks \cap s.on_rq
<1> DEFINE r == PutPrev(s, X)
           p == Path[s.curr]
           n == Len(p)
           end == CheckEnd(s, p, X)
<1>1. r = [end EXCEPT !.curr = None]
  BY DEF PutPrev, CheckEnd
<1> SUFFICES Sound(r) /\ r.curr = None /\ Tasks \cap r.on_rq = Tasks \cap s.on_rq
  OBVIOUS
<1>2. n \in Nat
  BY AtSteps DEF Entities
<1> HIDE DEF r, end, p
<1>3. PICK w : /\ w[0] = s
               /\ \A k \in 1 .. n : w[k] = Check(w[k - 1], up[p[k]], X)
               /\ end = w[n]
  BY <1>2, CheckWalk DEF end
<1> DEFINE T == {k \in Nat : k <= n =>
                   Sound(w[k]) /\ Tasks \cap w[k].on_rq = Tasks \cap s.on_rq}
<1>4. 0 \in T
  BY <1>3
<1>5. ASSUME NEW k \in Nat, k \in T  PROVE k + 1 \in T
  <2> SUFFICES ASSUME k + 1 <= n
               PROVE  Sound(w[k + 1]) /\ Tasks \cap w[k + 1].on_rq = Tasks \cap s.on_rq
    OBVIOUS
  <2>1. k + 1 \in 1 .. n /\ (k + 1) - 1 = k /\ k <= n
    BY <1>2
  <2>2. Sound(w[k]) /\ Tasks \cap w[k].on_rq = Tasks \cap s.on_rq
    BY <1>5, <2>1
  <2>3. w[k + 1] = Check(w[k], up[p[k + 1]], X)
    BY <1>3, <2>1
  <2> QED BY <2>2, <2>3, CheckSound
<1>6. n \in T
  <2> HIDE DEF T, n
  <2> QED BY <1>2, <1>4, <1>5, NatSetInduction
<1>7. Sound(end) /\ Tasks \cap end.on_rq = Tasks \cap s.on_rq
  BY <1>2, <1>3, <1>6
<1> QED BY <1>1, <1>7, CurrSound

(* The picking loop goes down the path of the task it picks. *)
LEMMA PickSound ==
  ASSUME NEW s, Sound(s), NEW t \in Tasks, \A e \in Above(t) : e \in s.on_rq \/ s.next[up[e]] = e
  PROVE  LET r == [Walk(ClearBuddies, s, Reverse(Path[t])) EXCEPT !.curr = t]
         IN  Sound(r) /\ r.curr = t /\ t \in r.on_rq
<1> DEFINE p == Reverse(Path[t])
           n == Len(p)
           end == ClearEnd(s, p)
           r == [end EXCEPT !.curr = t]
<1>1. [Walk(ClearBuddies, s, Reverse(Path[t])) EXCEPT !.curr = t] = r
  BY DEF ClearEnd
<1> SUFFICES Sound(r) /\ r.curr = t /\ t \in r.on_rq
  BY <1>1
<1>2. n \in Nat /\ \A k \in 1 .. n : p[k] \in Entities
  <2> DEFINE o == Path[t]
  <2>1. o \in Seq(Entities)
    BY PathProperties DEF Entities
  <2> HIDE DEF o
  <2>2. Len(Reverse(o)) \in Nat /\ \A k \in 1 .. Len(Reverse(o)) : Reverse(o)[k] \in Entities
    BY <2>1 DEF Reverse
  <2> QED BY <2>2 DEF o
<1>3. t \in s.on_rq
  <2>1. t \in Entities
    BY DEF Entities
  <2>2. t \in Above(t)
    BY <2>1, AboveEntity
  <2> QED BY <2>2 DEF Sound, Named
<1> HIDE DEF end, p
<1>4. PICK w : /\ w[0] = s
               /\ \A k \in 1 .. n : w[k] = ClearBuddies(w[k - 1], p[k])
               /\ end = w[n]
  BY <1>2, ClearWalk DEF end
<1> DEFINE T == {k \in Nat : k <= n => Sound(w[k]) /\ w[k].on_rq = s.on_rq}
<1>5. 0 \in T
  BY <1>4
<1>6. ASSUME NEW k \in Nat, k \in T  PROVE k + 1 \in T
  <2> SUFFICES ASSUME k + 1 <= n  PROVE Sound(w[k + 1]) /\ w[k + 1].on_rq = s.on_rq
    OBVIOUS
  <2>1. k + 1 \in 1 .. n /\ (k + 1) - 1 = k /\ k <= n
    BY <1>2
  <2>2. Sound(w[k]) /\ w[k].on_rq = s.on_rq
    BY <1>6, <2>1
  <2>3. w[k + 1] = ClearBuddies(w[k], p[k + 1])
    BY <1>4, <2>1
  <2> QED BY <1>2, <2>1, <2>2, <2>3, ClearBuddiesSound
<1>7. n \in T
  <2> HIDE DEF T, n
  <2> QED BY <1>2, <1>5, <1>6, NatSetInduction
<1>8. Sound(end) /\ end.on_rq = s.on_rq
  BY <1>2, <1>4, <1>7
<1> QED BY <1>3, <1>8, CurrSound

(* The walk that takes the task t away, at x: as a throttling walk, except that
   it stops under the first throttled queue, so that x is queued until then. *)
Leaving(s, t, a, x) == Lowering(s, t, 1, a, x) /\ (a.go /\ x # Root => x \in a.s.on_rq)

LEMMA LeaveStep ==
  ASSUME NEW s \in States, NEW t \in Tasks, NEW a, NEW e \in Groups \cup {t}, NEW sleep,
         Leaving(s, t, a, e)
  PROVE  Leaving(s, t, LeaveLevel(a, e, sleep), up[e])
<1> DEFINE l == LowerLevel(a, e, 1)
           r == LeaveLevel(a, e, sleep)
           q == up[e]
           O == IF a.queue THEN a.s.on_rq \ {e} ELSE a.s.on_rq
           n == IF a.queue THEN DequeueEntity(a.s, e) ELSE a.s
<1>1. /\ e \in Entities /\ t \in Entities /\ q \in Queues /\ q # e /\ q # t /\ e # Root
      /\ Lowering(s, t, 1, a, e)
  <2>1. e \in Entities /\ t \in Entities /\ t \notin Queues
    BY NoneIsOther DEF Entities
  <2> QED BY <2>1, AboveSteps, AboveUnfolds DEF Leaving
<1>2. a \in Stages /\ a.s \in States
  BY <1>1 DEF Lowering, Stages
<1>3. Lowering(s, t, 1, l, q)
  BY <1>1, LowerStep
<1> SUFFICES Leaving(s, t, r, q)
  OBVIOUS
<1>4. CASE ~a.go
  <2>1. r = a /\ l = [a EXCEPT !.go = FALSE]
    BY <1>4 DEF LeaveLevel, LowerLevel
  <2>2. r = l
    BY <1>2, <1>4, <2>1 DEF Stages
  <2>3. ~r.go
    BY <1>4, <2>1
  <2> HIDE DEF r, l
  <2> QED BY <1>3, <2>2, <2>3 DEF Leaving
<1>5. CASE a.go
  <2>1. e \in a.s.on_rq
    BY <1>1, <1>5 DEF Leaving
  <2>2. n.on_rq = O /\ n.throttled = a.s.throttled /\ n \in States
    <3>1. CASE a.queue
      BY <1>1, <1>2, <3>1, DequeueEntityEffect DEF SameButQueues
    <3>2. CASE ~a.queue
      BY <1>2, <3>2
    <3> QED BY <3>1, <3>2
  <2> DEFINE m == [n EXCEPT !.h_nr_running[q] = @ - 1]
             left == a.queue /\ Queued(n, q) # {}
             go == ~Throttled(n, q)
  <2>3. l = [s |-> m, queue |-> a.queue /\ Queued(n, q) = {}, go |-> TRUE]
    BY <1>5, <2>1 DEF LowerLevel
  <2>4. r = [s |-> IF left /\ go /\ sleep /\ q # Root THEN SetNextBuddy(m, q) ELSE m,
             queue |-> a.queue /\ ~left, go |-> go]
    BY <1>5 DEF LeaveLevel
  <2>5. m.on_rq = O /\ m.throttled = a.s.throttled
    BY <2>2 DEF States
  <2> HIDE DEF n, l, r, m
  <2>6. /\ l.s = m /\ l.go = TRUE /\ r.queue = l.queue
        /\ r.go <=> q \notin a.s.throttled
        /\ r.s = m \/ (q # Root /\ r.s = SetNextBuddy(m, q))
        /\ r.go \in BOOLEAN /\ r.queue \in BOOLEAN
    BY <1>2, <2>2, <2>3, <2>4 DEF Throttled, Stages
  <2>7. m \in States /\ Named(m)
    BY <1>3, <2>6 DEF Lowering, Stages
  <2>8. /\ r.s \in States /\ SameButQueues(m, r.s)
        /\ r.s.on_rq = m.on_rq /\ r.s.h_nr_running = m.h_nr_running /\ Named(r.s)
    <3>1. CASE r.s = m
      BY <2>7, <3>1 DEF SameButQueues
    <3>2. CASE q # Root /\ r.s = SetNextBuddy(m, q)
      <4>1. q \in Groups /\ q \in Entities
        BY <1>1, <3>2, AboveUnfolds
      <4>2. /\ r.s \in States /\ SameButQueues(m, r.s)
            /\ r.s.on_rq = m.on_rq /\ r.s.h_nr_running = m.h_nr_running
            /\ \A y \in Queues : r.s.next[y] = m.next[y] \/ r.s.next[y] \in Above(q)
        BY <2>7, <3>2, <4>1, SetNextBuddyEffect
      <4>3. \A x \in Tasks : x \notin Above(q)
        BY <4>1, AboveEntity, TreeDepth
      <4>4. Named(r.s)
        BY <2>7, <4>2, <4>3, NoneIsOther DEF Named
      <4> QED BY <4>2, <4>4
    <3> QED BY <2>6, <3>1, <3>2
  <2>9. r \in Stages
    BY <2>4, <2>6, <2>8 DEF Stages
  <2>10. ASSUME q # Root
         PROVE  Settled(a.s, q) /\ e \in Queued(a.s, q) /\ q \in Groups
    BY <1>1, <1>2, <2>1, <2>10, AboveUnfolds DEF Lowering, Queued
  <2>11. r.go /\ q # Root => q \in r.s.on_rq
    <3> SUFFICES ASSUME r.go, q # Root  PROVE q \in r.s.on_rq
      OBVIOUS
    <3>1. q \in a.s.on_rq
      BY <2>6, <2>10 DEF Settled
    <3> QED BY <1>1, <2>5, <2>8, <3>1
  <2>12. ASSUME ~r.go
         PROVE  q \in Groups /\ q \in r.s.throttled /\ q \notin r.s.on_rq
    <3>1. q \in a.s.throttled
      BY <2>6, <2>12
    <3>2. q # Root
      BY <1>2, <3>1, TreeDepth DEF States, Stages, Entities
    <3>3. q \notin a.s.on_rq /\ q \in Groups
      BY <2>10, <3>1, <3>2 DEF Settled
    <3> QED BY <2>5, <2>8, <3>1, <3>3 DEF SameButQueues
  <2>13. \A d \in Groups : Queued(r.s, d) = Queued(l.s, d) /\ (Settled(r.s, d) <=> Settled(l.s, d))
    BY <2>6, <2>8 DEF Settled, Queued, SameButQueues
  <2>14. ASSUME NEW d \in Groups \ {t}  PROVE Settled(r.s, d) \/ (d = q /\ r.go /\ r.queue)
    <3>1. Settled(l.s, d) \/ (d = q /\ l.queue)
      BY <1>3 DEF Lowering
    <3>2. CASE d = q /\ ~r.go
      BY <2>12, <3>2 DEF Settled
    <3> QED BY <2>6, <2>13, <3>1, <3>2
  <2>15. ASSUME NEW y \in Queues
         PROVE  r.s.h_nr_running[y] = Count(Kept(r, q), y) + Due(r, q, 1, y)
    <3>1. r.s.h_nr_running[y] = Count(Kept(l, q), y) + Due(l, q, 1, y)
      BY <1>3, <2>6, <2>8 DEF Lowering
    <3>2. CASE r.go
      BY <2>6, <2>8, <3>1, <3>2 DEF Kept, Due
    <3>3. CASE ~r.go
      <4>1. q \notin l.s.on_rq /\ q \in Entities
        BY <2>6, <2>8, <2>12, <3>3 DEF Entities
      <4>2. ~Chain(l.s.on_rq, q, y)
        BY <4>1, ChainUnfolds
      <4>3. Kept(l, q) = Kept(r, q)
        BY <2>6, <2>8, <3>3, <4>1 DEF Kept
      <4> QED BY <3>1, <3>3, <4>2, <4>3 DEF Due
    <3> QED BY <3>2, <3>3
  <2>16. r.s.h_nr_running[Root] = s.h_nr_running[Root] - (IF q = Root /\ r.go THEN 1 ELSE 0)
    <3>1. r.s.h_nr_running[Root] = s.h_nr_running[Root] - (IF q = Root THEN 1 ELSE 0)
      BY <1>3, <2>6, <2>8 DEF Lowering
    <3>2. q = Root => r.go
      BY <2>12, TreeDepth DEF Entities
    <3> QED BY <3>1, <3>2
  <2>17. SameButQueues(s, r.s)
    BY <1>3, <2>6, <2>8 DEF Lowering, SameButQueues
  <2>18. /\ r.s.on_rq \subseteq s.on_rq /\ (Tasks \cap s.on_rq) \ {t} \subseteq r.s.on_rq
         /\ t \notin r.s.on_rq
    BY <1>1, <1>3, <2>6, <2>8 DEF Lowering
  <2>19. r.go /\ r.queue /\ q \in Groups \ {t} => Queued(r.s, q) = {}
    BY <1>3, <2>6, <2>13 DEF Lowering
  <2> QED BY <2>8, <2>9, <2>11, <2>14, <2>15, <2>16, <2>17, <2>18, <2>19 DEF Leaving, Lowering
<1> QED BY <1>4, <1>5

(* dequeue_task_fair(), of a queued task. *)
LEMMA DequeueSound ==
  ASSUME NEW s, Sound(s), NEW t \in Tasks, t \in s.on_rq, NEW sleep
  PROVE  LET r == DequeueTask(s, t, sleep)
         IN  /\ Sound(r) /\ r.curr = s.curr
             /\ Tasks \cap r.on_rq = (Tasks \cap s.on_rq) \ {t}
<1> DEFINE end == LeaveEnd(From(s), Path[t], sleep)
           r == DequeueTask(s, t, sleep)
           n == Len(Path[t])
<1>1. /\ s \in States /\ t \in Entities /\ t \notin Groups /\ t # Root /\ Root \in Queues
  BY TreeDepth DEF Sound, Entities, Queues
<1>2. r = [end.s EXCEPT !.nr_running = IF end.go THEN @ - 1 ELSE @]
  BY DEF DequeueTask, LeaveEnd
<1> SUFFICES /\ Sound(r) /\ r.curr = s.curr
             /\ Tasks \cap r.on_rq = (Tasks \cap s.on_rq) \ {t}
  OBVIOUS
<1> HIDE DEF r
<1>3. n \in Nat
  BY <1>1, AtSteps
<1>4. PICK w : /\ w[0] = From(s)
               /\ \A k \in 1 .. n : w[k] = LeaveLevel(w[k - 1], Path[t][k], sleep)
               /\ end = w[n]
  <2> DEFINE b == From(s)
             p == Path[t]
             d == LeaveEnd(b, p, sleep)
  <2>1. Len(p) \in Nat /\ end = d
    BY <1>3
  <2>2. d = LeaveEnd(b, p, sleep)
    OBVIOUS
  <2> HIDE DEF b, p, d, end
  <2>3. \E w : /\ w[0] = b
               /\ \A k \in 1 .. Len(p) : w[k] = LeaveLevel(w[k - 1], p[k], sleep)
               /\ d = w[Len(p)]
    BY <2>1, <2>2, LeaveWalk
  <2> QED BY <2>1, <2>3 DEF b, p
<1> DEFINE T == {k \in Nat : k <= n => Leaving(s, t, w[k], At(t, k))}
<1>5. 0 \in T
  <2>1. Count(s.on_rq, t) = 1
    BY CountTask
  <2>2. Lowering(s, t, 1, From(s), t)
    BY <1>1, <2>1, LoweringStarts DEF Sound, Balanced
  <2>3. From(s).s = s
    BY DEF From
  <2>4. Leaving(s, t, From(s), t)
    BY <2>2, <2>3 DEF Leaving
  <2> QED BY <1>1, <1>4, <2>4, AtSteps
<1>6. ASSUME NEW k \in Nat, k \in T  PROVE k + 1 \in T
  <2> SUFFICES ASSUME k + 1 <= n  PROVE Leaving(s, t, w[k + 1], At(t, k + 1))
    OBVIOUS
  <2>1. k + 1 \in 1 .. n /\ (k + 1) - 1 = k /\ k <= n
    BY <1>3
  <2>2. /\ Path[t][k + 1] = At(t, k) /\ At(t, k + 1) = up[At(t, k)]
        /\ At(t, k) \in Groups \cup {t}
    BY <1>1, <2>1, AtSteps
  <2>3. Leaving(s, t, w[k], At(t, k))
    BY <1>6, <2>1
  <2>4. w[k + 1] = LeaveLevel(w[k], At(t, k), sleep)
    BY <1>4, <2>1, <2>2
  <2> QED BY <1>1, <2>2, <2>3, <2>4, LeaveStep
<1>7. n \in T
  <2> HIDE DEF T, n
  <2> QED BY <1>3, <1>5, <1>6, NatSetInduction
<1>8. Lowering(s, t, 1, end, Root)
  BY <1>1, <1>3, <1>4, <1>7, AtSteps DEF Leaving
<1> HIDE DEF end, n, T
<1>9. /\ end \in Stages /\ end.s \in States /\ end.go \in BOOLEAN /\ SameButQueues(s, end.s)
      /\ end.s.on_rq \subseteq s.on_rq /\ (Tasks \cap s.on_rq) \ {t} \subseteq end.s.on_rq
      /\ Named(end.s) /\ t \notin end.s.on_rq /\ \A d \in Groups : Settled(end.s, d)
      /\ end.s.h_nr_running[Root] = s.h_nr_running[Root] - (IF end.go THEN 1 ELSE 0)
  BY <1>1, <1>8, TreeDepth DEF Lowering, Stages, Entities
<1>10. \A y \in Queues : end.s.h_nr_running[y] = Count(end.s.on_rq, y)
  <2>1. ASSUME NEW y \in Queues  PROVE end.s.h_nr_running[y] = Count(end.s.on_rq, y)
    <3>1. end.s.h_nr_running[y] = Count(Kept(end, Root), y) + Due(end, Root, 1, y)
      BY <1>8 DEF Lowering
    <3> QED BY <1>9, <3>1, AtRoot, CountType
  <2> QED BY <2>1
<1>11. /\ r \in States /\ r.on_rq = end.s.on_rq /\ r.h_nr_running = end.s.h_nr_running
       /\ r.throttled = s.throttled /\ r.throttle_count = s.throttle_count
       /\ r.next = end.s.next /\ r.curr = s.curr
       /\ r.nr_running = s.nr_running - (IF end.go THEN 1 ELSE 0)
  <2> DEFINE v == IF end.go THEN end.s.nr_running - 1 ELSE end.s.nr_running
  <2>1. /\ v \in Int /\ v = s.nr_running - (IF end.go THEN 1 ELSE 0)
        /\ end.s.throttled = s.throttled /\ end.s.throttle_count = s.throttle_count
        /\ end.s.curr = s.curr
    BY <1>1, <1>9 DEF SameButQueues, States
  <2>2. r = [end.s EXCEPT !.nr_running = v]
    BY <1>2
  <2> HIDE DEF v
  <2> QED BY <1>9, <2>1, <2>2 DEF States
<1>12. Frozen(r) /\ Named(r)
  BY <1>9, <1>11 DEF Sound, Frozen, Named
<1>13. ASSUME NEW d \in Groups  PROVE Settled(r, d)
  BY <1>9, <1>11 DEF Settled, Queued, SameButQueues
<1>14. Balanced(r)
  <2>1. r.nr_running = r.h_nr_running[Root]
    BY <1>9, <1>11 DEF Sound, Balanced
  <2> QED BY <1>10, <1>11, <2>1 DEF Balanced
<1> QED BY <1>9, <1>11, <1>12, <1>13, <1>14 DEF Sound

(* Throttling a group that is not queued takes nothing off any queue: the walk
   ends where it starts. *)
LEMMA ThrottleUnqueued ==
  ASSUME NEW s \in States, NEW g \in Groups, g \notin s.on_rq
  PROVE  LET r == ThrottleGroup(s, g)
         IN  /\ r \in States /\ r.on_rq = s.on_rq /\ r.h_nr_running = s.h_nr_running
             /\ r.nr_running = s.nr_running /\ r.throttled = s.throttled \cup {g}
             /\ r.throttle_count = Freeze(s, g, 1).throttle_count
             /\ r.next = s.next /\ r.curr = s.curr
<1> DEFINE r == ThrottleGroup(s, g)
           f == Freeze(s, g, 1)
           delta == s.h_nr_running[g]
           p == Path[g]
           n == Len(p)
           b == From(f)
           end == LowerEnd(b, p, delta)
<1>1. r = [end.s EXCEPT !.throttled = @ \cup {g},
                        !.nr_running = IF end.go THEN @ - delta ELSE @]
  BY DEF ThrottleGroup, LowerEnd
<1> SUFFICES /\ r \in States /\ r.on_rq = s.on_rq /\ r.h_nr_running = s.h_nr_running
             /\ r.nr_running = s.nr_running /\ r.throttled = s.throttled \cup {g}
             /\ r.throttle_count = f.throttle_count
             /\ r.next = s.next /\ r.curr = s.curr
  OBVIOUS
<1> HIDE DEF r, delta
<1>2. f \in States /\ f = [s EXCEPT !.throttle_count = f.throttle_count]
  BY FreezeEffect
<1>3. /\ n \in Nat \ {0} /\ p[1] = g
      /\ b \in Stages /\ b.s = f
  <2>1. g \in Entities
    BY DEF Entities
  <2> QED BY <1>2, <2>1, PathProperties DEF From, Stages
<1> HIDE DEF f, p, b
<1>4. PICK w : /\ w[0] = b
               /\ \A k \in 1 .. n : w[k] = LowerLevel(w[k - 1], p[k], delta)
               /\ end = w[n]
  <2>1. end = LowerEnd(b, p, delta)
    OBVIOUS
  <2> HIDE DEF end
  <2> QED BY <1>3, <2>1, LowerWalk
<1> HIDE DEF end
<1>5. f.on_rq = s.on_rq
  BY <1>2 DEF States
<1> DEFINE J(k) == w[k] \in Stages /\ w[k].s = f /\ (k # 0 => w[k].go = FALSE)
           T == {k \in Nat : k <= n => J(k)}
<1>6. 0 \in T
  BY <1>3, <1>4
<1>7. ASSUME NEW k \in Nat, k \in T  PROVE k + 1 \in T
  <2> SUFFICES ASSUME k + 1 <= n
               PROVE  J(k + 1)
    <3> HIDE DEF J
    <3> QED OBVIOUS
  <2>1. k + 1 \in 1 .. n /\ (k + 1) - 1 = k /\ k <= n
    BY <1>3
  <2>2. w[k] \in Stages /\ w[k].s = f /\ (k # 0 => w[k].go = FALSE)
    BY <1>7, <2>1
  <2>3. w[k + 1] = LowerLevel(w[k], p[k + 1], delta)
    BY <1>4, <2>1
  <2>4. ~w[k].go \/ p[k + 1] \notin w[k].s.on_rq
    BY <1>3, <1>5, <2>2
  <2>5. w[k + 1] = [w[k] EXCEPT !.go = FALSE]
    BY <2>3, <2>4 DEF LowerLevel
  <2> QED BY <2>2, <2>5 DEF Stages
<1>8. n \in T
  <2> HIDE DEF T, n
  <2> QED BY <1>3, <1>6, <1>7, NatSetInduction
<1>9. end.s = f /\ end.go = FALSE
  BY <1>3, <1>4, <1>8
<1> QED BY <1>1, <1>2, <1>9 DEF States

(* enqueue_entity(), which may throttle the queue that has got its first entity
   and is therefore not queued itself. *)
LEMMA EnqueueEntityEffect ==
  ASSUME NEW s \in States, Frozen(s), NEW e \in Entities \ s.on_rq, NEW X,
         up[e] \in Groups /\ Queued(s, up[e]) = {} => up[e] \notin s.on_rq
  PROVE  LET r == EnqueueEntity(s, e, X)
         IN  /\ r \in States /\ Frozen(r)
             /\ r.on_rq = s.on_rq \cup {e} /\ r.h_nr_running = s.h_nr_running
             /\ r.nr_running = s.nr_running /\ r.next = s.next /\ r.curr = s.curr
             /\ \/ r.throttled = s.throttled
                \/ /\ up[e] \in Groups /\ up[e] \notin s.on_rq
                   /\ r.throttled = s.throttled \cup {up[e]}
<1> DEFINE q == up[e]
           t == [s EXCEPT !.on_rq = @ \cup {e}]
           u == AddLeaf(t, q)
           r == EnqueueEntity(s, e, X)
<1>1. q \in Queues /\ q # e
  BY AboveUnfolds, AboveSteps
<1>2. /\ t \in States /\ t.on_rq = s.on_rq \cup {e} /\ t.h_nr_running = s.h_nr_running
      /\ t.nr_running = s.nr_running /\ t.next = s.next /\ t.curr = s.curr
      /\ t.throttled = s.throttled /\ t.throttle_count = s.throttle_count
      /\ t.runtime_enabled = s.runtime_enabled
  BY DEF States
<1>3. r = IF Queued(t, q) # {e} THEN t
          ELSE IF Exhausted(t, q, X) THEN ThrottleGroup(u, q) ELSE u
  BY DEF EnqueueEntity
<1> SUFFICES /\ r \in States /\ Frozen(r)
             /\ r.on_rq = s.on_rq \cup {e} /\ r.h_nr_running = s.h_nr_running
             /\ r.nr_running = s.nr_running /\ r.next = s.next /\ r.curr = s.curr
             /\ \/ r.throttled = s.throttled
                \/ /\ q \in Groups /\ q \notin s.on_rq
                   /\ r.throttled = s.throttled \cup {q}
  OBVIOUS
<1> HIDE DEF t, r
<1>4. /\ u \in States /\ u.on_rq = s.on_rq \cup {e} /\ u.h_nr_running = s.h_nr_running
      /\ u.nr_running = s.nr_running /\ u.next = s.next /\ u.curr = s.curr
      /\ u.throttled = s.throttled /\ u.throttle_count = s.throttle_count
  <2>1. u \in States /\ u = [t EXCEPT !.leaf = u.leaf]
    BY <1>1, <1>2, AddLeafEffect
  <2> HIDE DEF u
  <2> QED BY <1>2, <2>1 DEF States
<1> HIDE DEF u
<1>5. Frozen(t) /\ Frozen(u)
  BY <1>2, <1>4 DEF Frozen
<1>6. CASE Queued(t, q) # {e}
  BY <1>2, <1>3, <1>5, <1>6
<1>7. CASE Queued(t, q) = {e} /\ ~Exhausted(t, q, X)
  BY <1>3, <1>4, <1>5, <1>7
<1>8. CASE Queued(t, q) = {e} /\ Exhausted(t, q, X)
  <2>1. q \in Groups \ s.throttled
    BY <1>2, <1>8 DEF Exhausted, States
  <2>2. r = ThrottleGroup(u, q)
    BY <1>3, <1>8
  <2>3. e \notin s.on_rq
    OBVIOUS
  <2>4. Queued(s, q) = {}
    BY <1>2, <1>8, <2>3 DEF Queued
  <2>5. q \notin s.on_rq /\ q \notin u.on_rq
    BY <1>1, <1>4, <2>1, <2>4
  <2>6. /\ r \in States /\ r.on_rq = u.on_rq /\ r.h_nr_running = u.h_nr_running
        /\ r.nr_running = u.nr_running /\ r.throttled = u.throttled \cup {q}
        /\ r.throttle_count = Freeze(u, q, 1).throttle_count
        /\ r.next = u.next /\ r.curr = u.curr
    BY <1>4, <2>1, <2>2, <2>5, ThrottleUnqueued
  <2>7. Frozen(r)
    BY <1>4, <1>5, <2>1, <2>6, FrozenThrottle
  <2> QED BY <1>4, <2>1, <2>5, <2>6, <2>7
<1> QED BY <1>6, <1>7, <1>8

(* The walk that puts e0, with delta tasks, into the queues of s, at x: while it
   queues, the one group that is not settled is x, which has something to run;
   and the counts of the queues above x that it is counted in are too low by
   delta. *)
Raising(s, e0, delta, a, x) ==
  /\ a \in Stages /\ a.s.curr = s.curr /\ a.s.nr_running = s.nr_running
  /\ s.on_rq \subseteq a.s.on_rq /\ Tasks \cap a.s.on_rq \subseteq s.on_rq \cup {e0}
  /\ Named(a.s) /\ Frozen(a.s)
  /\ e0 \notin a.s.on_rq => x = e0 /\ a.go /\ a.queue
  /\ \A d \in Groups : Settled(a.s, d) \/ (d = x /\ a.go /\ a.queue)
  /\ a.go /\ a.queue /\ x \in Groups => Queued(a.s, x) # {} /\ x \notin a.s.throttled
  /\ a.go /\ a.queue /\ x # Root /\ x \notin a.s.on_rq => Count(a.s.on_rq, x) = delta
  /\ a.go /\ ~a.queue /\ x # Root => x \in a.s.on_rq
  /\ \A y \in Queues : a.s.h_nr_running[y] = Count(a.s.on_rq, y) - Due(a, x, delta, y)
  /\ a.s.h_nr_running[Root] = s.h_nr_running[Root] + (IF x = Root /\ a.go THEN delta ELSE 0)

LEMMA RaiseStep ==
  ASSUME NEW s \in States, NEW e0 \in Entities, NEW delta \in Int, NEW X,
         NEW a, NEW e \in Groups \cup {e0}, Raising(s, e0, delta, a, e)
  PROVE  Raising(s, e0, delta, RaiseLevel(a, e, delta, X), up[e])
<1> DEFINE r == RaiseLevel(a, e, delta, X)
           q == up[e]
           On == a.s.on_rq
           h == a.s.h_nr_running
           queue == a.queue /\ e \notin On
           t == IF queue THEN EnqueueEntity(a.s, e, X) ELSE a.s
           O == On \cup {e}
<1> SUFFICES Raising(s, e0, delta, r, q)
  OBVIOUS
<1>1. /\ e \in Entities /\ q \in Queues /\ q # e /\ e # Root /\ Root \notin Groups
      /\ q # Root => q \in Groups /\ q \in Entities
      /\ Root \in Queues /\ Root \notin Entities
  <2>1. e \in Entities
    BY DEF Entities
  <2> QED BY <2>1, AboveSteps, AboveUnfolds, TreeDepth DEF Entities, Queues
<1>2. /\ a \in Stages /\ a.s \in States /\ a.go \in BOOLEAN /\ a.queue \in BOOLEAN
      /\ On \subseteq Entities /\ a.s.throttled \subseteq Groups
      /\ h \in [Queues -> Int] /\ Frozen(a.s) /\ Named(a.s)
  BY DEF Raising, Stages, States
<1>3. \A y : Chain(O, e, y) <=> y = q \/ Chain(O, q, y)
  <2>1. e \in O
    OBVIOUS
  <2> HIDE DEF O, q
  <2> QED BY <1>1, <2>1, ChainUnfolds DEF q
<1>4. ~Chain(O, q, q)
  BY <1>1 DEF Chain, Below
<1>5. CASE ~a.go
  <2>1. r = a
    BY <1>5 DEF RaiseLevel
  <2> HIDE DEF r
  <2>2. \A y : Due(a, e, delta, y) = 0 /\ Due(a, q, delta, y) = 0
    BY <1>5 DEF Due
  <2> QED BY <1>1, <1>5, <2>1, <2>2 DEF Raising
<1>6. CASE a.go
  <2>1. \A d \in Groups : Settled(a.s, d) \/ (d = e /\ queue)
    <3>1. ASSUME e \in Groups, a.queue, e \in On  PROVE Settled(a.s, e)
      BY <1>6, <3>1 DEF Raising, Settled
    <3> QED BY <3>1 DEF Raising
  <2>2. e \in On \/ queue
    BY <1>1, <1>6 DEF Raising
  <2>3. q \in Groups => Settled(a.s, q)
    BY <1>1, <2>1
  <2>4. /\ t \in States /\ Frozen(t) /\ t.on_rq = O /\ t.h_nr_running = h
        /\ t.nr_running = a.s.nr_running /\ t.next = a.s.next /\ t.curr = a.s.curr
        /\ \/ t.throttled = a.s.throttled
           \/ queue /\ q \in Groups /\ q \notin On /\ t.throttled = a.s.throttled \cup {q}
    <3>1. CASE queue
      <4>1. q \in Groups /\ Queued(a.s, q) = {} => q \notin On
        BY <2>3 DEF Settled
      <4>2. t = EnqueueEntity(a.s, e, X)
        BY <3>1
      <4> HIDE DEF t
      <4> QED BY <1>1, <1>2, <3>1, <4>1, <4>2, EnqueueEntityEffect
    <3>2. CASE ~queue
      BY <1>2, <2>2, <3>2
    <3> QED BY <3>1, <3>2
  <2>5. r = [s |-> [t EXCEPT !.h_nr_running[q] = @ + delta],
             queue |-> queue, go |-> ~Throttled(t, q)]
    BY <1>6 DEF RaiseLevel
  <2> HIDE DEF t, r
  <2>6. /\ r.s \in States /\ r.s.on_rq = O /\ r.s.throttled = t.throttled
        /\ r.s.throttle_count = t.throttle_count
        /\ r.s.nr_running = s.nr_running /\ r.s.next = a.s.next /\ r.s.curr = s.curr
        /\ r.s.h_nr_running[q] = h[q] + delta
        /\ \A y \in Queues \ {q} : r.s.h_nr_running[y] = h[y]
    <3> DEFINE v == h[q] + delta
    <3>1. v \in Int
      BY <1>1, <1>2
    <3>2. r.s = [t EXCEPT !.h_nr_running[q] = v]
      BY <2>4, <2>5
    <3> HIDE DEF v
    <3>3. /\ r.s \in States /\ SameButQueues(t, r.s)
          /\ r.s.on_rq = t.on_rq /\ r.s.next = t.next
          /\ r.s.h_nr_running[q] = v
          /\ \A y \in Queues \ {q} : r.s.h_nr_running[y] = t.h_nr_running[y]
      <4>1. t \in States /\ q \in Queues
        BY <1>1, <2>4
      <4> HIDE DEF q, h, On, O, queue
      <4> QED BY <3>1, <3>2, <4>1, CountedEffect
    <3> QED BY <2>4, <3>3 DEF v, SameButQueues, Raising
  <2>7. /\ r.queue = queue /\ (r.go <=> q \notin t.throttled) /\ r.go \in BOOLEAN
        /\ r \in Stages
    BY <1>2, <2>5, <2>6 DEF Throttled, Stages
  <2>8. Frozen(r.s) /\ Named(r.s)
    <3>1. Frozen(r.s)
      BY <2>4, <2>6 DEF Frozen
    <3>2. Named(r.s)
      BY <1>2, <2>6 DEF Named
    <3> QED BY <3>1, <3>2
  <2>9. /\ s.on_rq \subseteq O /\ Tasks \cap O \subseteq s.on_rq \cup {e0} /\ e0 \in O
    BY <1>1, <1>6, TreeDepth DEF Raising
  <2>10. ~r.go => q \in Groups /\ q \notin O /\ q \in r.s.throttled
    <3> SUFFICES ASSUME ~r.go  PROVE q \in Groups /\ q \notin O /\ q \in r.s.throttled
      OBVIOUS
    <3>1. q \in t.throttled /\ q \in Groups
      BY <2>4, <2>7 DEF States
    <3>2. q \notin On
      BY <2>3, <2>4, <3>1 DEF Settled
    <3> QED BY <1>1, <2>6, <3>1, <3>2
  <2>11. r.go => q \notin r.s.throttled /\ q \notin a.s.throttled /\ r.s.throttled = a.s.throttled
    BY <2>4, <2>6, <2>7
  <2>12. /\ q \in Groups => Queued(r.s, q) # {}
         /\ \A d \in Groups \ {q} : Queued(r.s, d) = Queued(a.s, d)
         /\ \A d \in Groups \ {q} : d \in r.s.throttled <=> d \in a.s.throttled
    BY <1>1, <2>4, <2>6 DEF Queued
  <2>13. ASSUME NEW d \in Groups  PROVE Settled(r.s, d) \/ (d = q /\ r.go /\ r.queue)
    <3>1. CASE d = e
      <4>1. CASE queue
        <5>1. Queued(a.s, e) # {} /\ e \notin a.s.throttled
          BY <1>6, <2>13, <3>1, <4>1 DEF Raising
        <5> QED BY <1>1, <2>6, <2>12, <2>13, <3>1, <5>1 DEF Settled
      <4>2. CASE ~queue
        <5>1. Settled(a.s, e) /\ e \in On
          BY <2>1, <2>2, <2>13, <3>1, <4>2
        <5> QED BY <1>1, <2>6, <2>12, <2>13, <3>1, <5>1 DEF Settled
      <4> QED BY <4>1, <4>2
    <3>2. CASE d # e /\ d # q
      <4>1. Settled(a.s, d)
        BY <2>1, <2>13, <3>2
      <4> QED BY <2>6, <2>12, <2>13, <3>2, <4>1 DEF Settled
    <3>3. CASE d = q
      <4>1. CASE ~r.go
        BY <2>6, <2>10, <3>3, <4>1 DEF Settled
      <4>2. CASE r.go /\ ~queue
        <5>1. e \in On /\ O = On
          BY <2>2, <4>2
        <5>2. e \in Queued(a.s, q)
          BY <1>2, <5>1 DEF Queued
        <5>3. q \in On
          BY <2>3, <2>11, <2>13, <3>3, <4>2, <5>2 DEF Settled
        <5> QED BY <2>6, <2>11, <2>12, <2>13, <3>3, <4>2, <5>1, <5>3 DEF Settled
      <4> QED BY <2>7, <3>3, <4>1, <4>2
    <3> QED BY <3>1, <3>2, <3>3
  <2>14. r.go /\ ~r.queue /\ q # Root => q \in r.s.on_rq
    <3> SUFFICES ASSUME r.go, ~r.queue, q # Root  PROVE q \in r.s.on_rq
      OBVIOUS
    <3>1. q \in Groups /\ Settled(r.s, q)
      BY <1>1, <2>13
    <3> QED BY <2>11, <2>12, <3>1 DEF Settled
  <2>15. ASSUME NEW y \in Queues
         PROVE  Count(O, y) = h[y] + (IF Chain(O, e, y) THEN delta ELSE 0)
    <3>1. h[y] = Count(On, y) - Due(a, e, delta, y) /\ h[y] \in Int /\ Count(On, y) \in Nat
      BY <1>2, <2>15, CountType DEF Raising
    <3>2. CASE e \in On
      <4>1. O = On
        BY <3>2
      <4>2. Due(a, e, delta, y) = IF Chain(O, e, y) THEN delta ELSE 0
        BY <1>6, <4>1 DEF Due
      <4> HIDE DEF O
      <4> QED BY <3>1, <4>1, <4>2
    <3>3. CASE e \notin On
      <4>1. Count(On, e) = delta
        BY <1>1, <1>6, <2>2, <3>3 DEF Raising
      <4>2. Due(a, e, delta, y) = 0
        <5>1. ~Chain(On, e, y)
          BY <1>1, <3>3, AboveEntity DEF Chain
        <5> QED BY <5>1 DEF Due
      <4>3. e \in O /\ O \ {e} = On
        BY <3>3
      <4> HIDE DEF O
      <4>4. Count(O, y) = Count(O \ {e}, y) + (IF Chain(O, e, y) THEN Count(O, e) ELSE 0)
        <5> HIDE DEF q, h, On, queue
        <5> QED BY <1>1, <2>15, <4>3, CountQueued
      <4>5. Count(O, e) = Count(On, e)
        <5>1. O \cup {e} = O
          BY <4>3
        <5> QED BY <1>1, <4>3, <5>1, CountSame
      <4>6. Count(O \ {e}, y) = Count(On, y)
        BY <4>3
      <4> QED BY <3>1, <4>1, <4>2, <4>4, <4>5, <4>6
    <3> QED BY <3>2, <3>3
  <2>16. ASSUME NEW y \in Queues
         PROVE  r.s.h_nr_running[y] = Count(O, y) - Due(r, q, delta, y)
    <3>1. Due(r, q, delta, y) = IF Chain(O, q, y) THEN delta ELSE 0
      <4>1. CASE r.go
        BY <2>6, <4>1 DEF Due
      <4>2. CASE ~r.go
        <5>1. q \in Entities /\ q \notin O
          BY <2>10, <4>2 DEF Entities
        <5>2. ~Chain(O, q, y)
          BY <5>1, AboveEntity DEF Chain
        <5> QED BY <4>2, <5>2 DEF Due
      <4> QED BY <4>1, <4>2
    <3>2. Count(O, y) = h[y] + (IF Chain(O, e, y) THEN delta ELSE 0) /\ h[y] \in Int
      BY <1>2, <2>15, <2>16
    <3> HIDE DEF O
    <3>3. CASE y = q
      <4>1. Chain(O, e, y) /\ ~Chain(O, q, y)
        BY <1>3, <1>4, <3>3
      <4> QED BY <2>6, <3>1, <3>2, <3>3, <4>1
    <3>4. CASE y # q
      <4>1. Chain(O, e, y) <=> Chain(O, q, y)
        BY <1>3, <3>4
      <4> QED BY <2>6, <2>16, <3>1, <3>2, <3>4, <4>1
    <3> QED BY <3>3, <3>4
  <2>17. r.go /\ r.queue /\ q # Root /\ q \notin r.s.on_rq => Count(r.s.on_rq, q) = delta
    <3> SUFFICES ASSUME r.go, queue, q # Root, q \notin O  PROVE Count(O, q) = delta
      BY <2>6, <2>7
    <3>1. q \in Groups /\ q \notin On /\ q \notin a.s.throttled
      BY <1>1, <2>11
    <3>2. Queued(a.s, q) = {}
      BY <2>3, <3>1 DEF Settled
    <3>3. Count(On, q) = 0
      <4>1. \A x \in Entities \cap On : up[x] # q
        BY <3>2 DEF Queued
      <4> QED BY <1>1, <4>1, CountEmpty
    <3>4. Count(O, q) = h[q] + delta
      BY <1>1, <1>3, <2>15
    <3>5. h[q] = 0
      <4>1. Due(a, e, delta, q) = 0
        <5>1. ~Chain(On, e, q)
          BY <1>1, AboveEntity DEF Chain
        <5> QED BY <5>1 DEF Due
      <4> QED BY <1>1, <3>3, <4>1 DEF Raising
    <3> QED BY <3>4, <3>5
  <2>18. r.s.h_nr_running[Root] = s.h_nr_running[Root] + (IF q = Root /\ r.go THEN delta ELSE 0)
    <3>1. h[Root] = s.h_nr_running[Root] + 0 /\ s.h_nr_running[Root] \in Int
      BY <1>1 DEF Raising, States
    <3>2. q = Root => r.go
      BY <1>1, <2>10
    <3> QED BY <1>1, <2>6, <3>1, <3>2
  <2>19. r.go /\ r.queue /\ q \in Groups => Queued(r.s, q) # {} /\ q \notin r.s.throttled
    BY <2>11, <2>12
  <2> HIDE DEF O
  <2> QED BY <2>6, <2>7, <2>8, <2>9, <2>13, <2>14, <2>16, <2>17, <2>18, <2>19 DEF Raising
<1> QED BY <1>2, <1>5, <1>6

(* What a walk makes of s level by level. *)
RaiseRun(w, s, e, delta, X) ==
  /\ w[0] = From(s)
  /\ \A k \in 1 .. Len(Path[e]) : w[k] = RaiseLevel(w[k - 1], Path[e][k], delta, X)
  /\ RaiseEnd(From(s), Path[e], delta, X) = w[Len(Path[e])]

LEMMA RaisePath ==
  ASSUME NEW s, NEW e \in Entities, NEW delta, NEW X
  PROVE  \E w : RaiseRun(w, s, e, delta, X)
<1> DEFINE b == From(s)
           p == Path[e]
           d == RaiseEnd(b, p, delta, X)
<1>1. Len(p) \in Nat
  BY AtSteps
<1>2. d = RaiseEnd(b, p, delta, X)
  OBVIOUS
<1> SUFFICES \E w : /\ w[0] = b
                    /\ \A k \in 1 .. Len(p) : w[k] = RaiseLevel(w[k - 1], p[k], delta, X)
                    /\ d = w[Len(p)]
  BY DEF RaiseRun
<1> HIDE DEF b, p, d
<1> QED BY <1>1, <1>2, RaiseWalk

(* The walk of enqueue_task_fair() and of unthrottle_cfs_rq(): from a state that
   is sound but for e, which is not queued yet, it leads to a sound one. *)
LEMMA RaiseSound ==
  ASSUME NEW s \in States, NEW e \in Entities, e \notin s.on_rq, NEW X,
         Frozen(s), Named(s), Balanced(s),
         \A d \in Groups \ {e} : Settled(s, d),
         e \in Groups => Queued(s, e) # {} /\ e \notin s.throttled,
         NEW delta \in Int, Count(s.on_rq, e) = delta
  PROVE  LET r == RaiseAll(s, e, delta, X)
         IN  /\ Sound(r) /\ r.curr = s.curr
             /\ Tasks \cap r.on_rq = Tasks \cap (s.on_rq \cup {e})
<1> DEFINE end == RaiseEnd(From(s), Path[e], delta, X)
           r == RaiseAll(s, e, delta, X)
           n == Len(Path[e])
<1>1. e # Root /\ Root \in Queues /\ Root \notin Groups /\ Root \notin Entities
  BY TreeDepth DEF Entities, Queues
<1>2. r = [end.s EXCEPT !.nr_running = IF end.go THEN @ + delta ELSE @]
  BY DEF RaiseAll, RaiseEnd
<1> SUFFICES /\ Sound(r) /\ r.curr = s.curr
             /\ Tasks \cap r.on_rq = Tasks \cap (s.on_rq \cup {e})
  OBVIOUS
<1> HIDE DEF r
<1>3. n \in Nat
  BY <1>1, AtSteps
<1>4. PICK w : /\ w[0] = From(s)
               /\ \A k \in 1 .. n : w[k] = RaiseLevel(w[k - 1], Path[e][k], delta, X)
               /\ end = w[n]
  <2>1. PICK w : RaiseRun(w, s, e, delta, X)
    BY RaisePath
  <2> QED BY <2>1 DEF RaiseRun
<1> DEFINE T == {k \in Nat : k <= n => Raising(s, e, delta, w[k], At(e, k))}
<1>5. 0 \in T
  <2> DEFINE b == From(s)
  <2>1. b \in Stages /\ b.s = s /\ b.go = TRUE /\ b.queue = TRUE
    BY DEF From, Stages
  <2> HIDE DEF b
  <2>2. ASSUME NEW y \in Queues
        PROVE  s.h_nr_running[y] = Count(s.on_rq, y) - Due(b, e, delta, y)
    <3>1. ~Chain(s.on_rq, e, y)
      <4>1. e \in Above(e)
        BY AboveEntity
      <4> QED BY <4>1 DEF Chain
    <3>2. Due(b, e, delta, y) = 0
      BY <2>1, <3>1 DEF Due
    <3>3. s.h_nr_running[y] = Count(s.on_rq, y) /\ Count(s.on_rq, y) \in Nat
      BY <2>2, CountType DEF Balanced
    <3> QED BY <3>2, <3>3
  <2>3. s.h_nr_running[Root] = s.h_nr_running[Root] + (IF e = Root /\ b.go THEN delta ELSE 0)
    BY <1>1 DEF States
  <2>4. Raising(s, e, delta, b, e)
    BY <1>1, <2>1, <2>2, <2>3 DEF Raising
  <2> QED BY <1>4, <2>4, AtSteps DEF b
<1>6. ASSUME NEW k \in Nat, k \in T  PROVE k + 1 \in T
  <2> SUFFICES ASSUME k + 1 <= n  PROVE Raising(s, e, delta, w[k + 1], At(e, k + 1))
    OBVIOUS
  <2>1. k + 1 \in 1 .. n /\ (k + 1) - 1 = k /\ k <= n
    BY <1>3
  <2>2. /\ Path[e][k + 1] = At(e, k) /\ At(e, k + 1) = up[At(e, k)]
        /\ At(e, k) \in Groups \cup {e}
    BY <2>1, AtSteps
  <2>3. Raising(s, e, delta, w[k], At(e, k))
    BY <1>6, <2>1
  <2>4. w[k + 1] = RaiseLevel(w[k], At(e, k), delta, X)
    BY <1>4, <2>1, <2>2
  <2> QED BY <2>2, <2>3, <2>4, RaiseStep
<1>7. n \in T
  <2> HIDE DEF T, n
  <2> QED BY <1>3, <1>5, <1>6, NatSetInduction
<1>8. Raising(s, e, delta, end, Root)
  BY <1>3, <1>4, <1>7, AtSteps
<1> HIDE DEF end, n, T
<1>9. /\ end \in Stages /\ end.s \in States /\ end.go \in BOOLEAN
      /\ end.s.curr = s.curr /\ end.s.nr_running = s.nr_running
      /\ s.on_rq \subseteq end.s.on_rq /\ Tasks \cap end.s.on_rq \subseteq s.on_rq \cup {e}
      /\ e \in end.s.on_rq
      /\ Named(end.s) /\ Frozen(end.s) /\ \A d \in Groups : Settled(end.s, d)
      /\ end.s.h_nr_running[Root] = s.h_nr_running[Root] + (IF end.go THEN delta ELSE 0)
  BY <1>1, <1>8 DEF Raising, Stages
<1>10. \A y \in Queues : end.s.h_nr_running[y] = Count(end.s.on_rq, y)
  <2>1. ASSUME NEW y \in Queues  PROVE end.s.h_nr_running[y] = Count(end.s.on_rq, y)
    <3>1. end.s.h_nr_running[y] = Count(end.s.on_rq, y) - Due(end, Root, delta, y)
      BY <1>8 DEF Raising
    <3> QED BY <1>9, <3>1, AtRoot, CountType
  <2> QED BY <2>1
<1>11. /\ r \in States /\ r.on_rq = end.s.on_rq /\ r.h_nr_running = end.s.h_nr_running
       /\ r.throttled = end.s.throttled /\ r.throttle_count = end.s.throttle_count
       /\ r.next = end.s.next /\ r.curr = s.curr
       /\ r.nr_running = s.nr_running + (IF end.go THEN delta ELSE 0)
  <2> DEFINE v == IF end.go THEN end.s.nr_running + delta ELSE end.s.nr_running
  <2>1. v \in Int /\ v = s.nr_running + (IF end.go THEN delta ELSE 0)
    BY <1>9 DEF States
  <2>2. r = [end.s EXCEPT !.nr_running = v]
    BY <1>2
  <2> HIDE DEF v
  <2> QED BY <1>9, <2>1, <2>2 DEF States
<1>12. Frozen(r) /\ Named(r)
  BY <1>9, <1>11 DEF Frozen, Named
<1>13. ASSUME NEW d \in Groups  PROVE Settled(r, d)
  BY <1>9, <1>11 DEF Settled, Queued
<1>14. Balanced(r)
  <2>1. r.nr_running = r.h_nr_running[Root]
    BY <1>9, <1>11 DEF Balanced
  <2> QED BY <1>10, <1>11, <2>1 DEF Balanced
<1> QED BY <1>9, <1>11, <1>12, <1>13, <1>14 DEF Sound

(* enqueue_task_fair(), of a task that is not queued. *)
LEMMA EnqueueSound ==
  ASSUME NEW s, Sound(s), NEW t \in Tasks, t \notin s.on_rq, NEW X
  PROVE  LET r == EnqueueTask(s, t, X)
         IN  /\ Sound(r) /\ r.curr = s.curr
             /\ Tasks \cap r.on_rq = (Tasks \cap s.on_rq) \cup {t}
<1>1. s \in States /\ t \in Entities /\ t \notin Groups
  BY TreeDepth DEF Sound, Entities
<1>2. Count(s.on_rq, t) = 1
  BY CountTask
<1> DEFINE r == RaiseAll(s, t, 1, X)
<1>3. /\ Sound(r) /\ r.curr = s.curr
      /\ Tasks \cap r.on_rq = Tasks \cap (s.on_rq \cup {t})
  BY <1>1, <1>2, RaiseSound DEF Sound
<1>4. EnqueueTask(s, t, X) = r
  BY DEF EnqueueTask
<1> HIDE DEF r
<1> QED BY <1>3, <1>4

(* unthrottle_cfs_rq(), of a throttled group. *)
LEMMA UnthrottleSound ==
  ASSUME NEW s, Sound(s), NEW g \in s.throttled, NEW X
  PROVE  LET r == UnthrottleGroup(s, g, X)
         IN  Sound(r) /\ r.curr = s.curr /\ Tasks \cap r.on_rq = Tasks \cap s.on_rq
<1> DEFINE f == Freeze(s, g, -1)
           t == [f EXCEPT !.throttled = @ \ {g}]
           delta == s.h_nr_running[g]
<1>1. /\ s \in States /\ g \in Groups /\ g \in Entities /\ g \in Queues /\ g \notin Tasks
      /\ g \notin s.on_rq /\ s.throttled \in SUBSET Groups
  BY TreeDepth DEF Sound, States, Entities, Queues, Settled
<1>2. /\ f \in States /\ f = [s EXCEPT !.throttle_count = f.throttle_count]
      /\ f.throttle_count[Root] = s.throttle_count[Root]
      /\ \A x \in Groups : f.throttle_count[x] =
           s.throttle_count[x] + (IF g \in Above(x) THEN -1 ELSE 0)
  BY <1>1, FreezeEffect
<1> HIDE DEF f
<1>3. /\ t \in States /\ t.on_rq = s.on_rq /\ t.h_nr_running = s.h_nr_running
      /\ t.nr_running = s.nr_running /\ t.throttled = s.throttled \ {g}
      /\ t.throttle_count = f.throttle_count /\ t.next = s.next /\ t.curr = s.curr
  BY <1>2 DEF States
<1>4. UnthrottleGroup(s, g, X) =
        IF Queued(s, g) = {} THEN t ELSE RaiseAll(t, g, delta, X)
  BY DEF UnthrottleGroup, f
<1> HIDE DEF t
<1>5. Frozen(t)
  <2>1. ASSUME NEW x \in Groups
        PROVE  t.throttle_count[x] = Cardinality(t.throttled \cap Above(x))
    <3>1. (s.throttled \ {g}) \in SUBSET Groups /\ (s.throttled \ {g}) \cup {g} = s.throttled
      BY <1>1
    <3>2. Cardinality(((s.throttled \ {g}) \cup {g}) \cap Above(x)) =
            Cardinality((s.throttled \ {g}) \cap Above(x)) + (IF g \in Above(x) THEN 1 ELSE 0)
      BY <1>1, <3>1, ThrottledAbove
    <3>3. Cardinality((s.throttled \ {g}) \cap Above(x)) \in Nat
      <4>1. IsFiniteSet(s.throttled \ {g})
        BY <3>1, GroupsAssumption, FS_Subset
      <4>2. IsFiniteSet((s.throttled \ {g}) \cap Above(x))
        BY <4>1, FS_Subset
      <4> QED BY <4>2, FS_CardinalityType
    <3>4. s.throttle_count[x] = Cardinality(s.throttled \cap Above(x))
      BY DEF Sound, Frozen
    <3>5. Cardinality(s.throttled \cap Above(x)) =
            Cardinality((s.throttled \ {g}) \cap Above(x)) + (IF g \in Above(x) THEN 1 ELSE 0)
      BY <3>1, <3>2
    <3> QED BY <1>2, <1>3, <3>3, <3>4, <3>5
  <2> QED BY <1>2, <1>3, <2>1 DEF Sound, Frozen
<1>6. Named(t) /\ Balanced(t)
  BY <1>3 DEF Sound, Named, Balanced
<1>7. \A d \in Groups \ {g} : Settled(t, d)
  BY <1>3 DEF Sound, Settled, Queued
<1>8. g \notin t.throttled /\ Queued(t, g) = Queued(s, g)
  BY <1>3 DEF Queued
<1>9. CASE Queued(s, g) = {}
  <2>1. Settled(t, g)
    BY <1>1, <1>3, <1>8, <1>9 DEF Settled
  <2>2. Sound(t)
    BY <1>3, <1>5, <1>6, <1>7, <2>1 DEF Sound
  <2> QED BY <1>3, <1>4, <1>9, <2>2
<1>10. CASE Queued(s, g) # {}
  <2>1. delta \in Int /\ Count(t.on_rq, g) = delta
    BY <1>1, <1>3 DEF Sound, Balanced, States
  <2> DEFINE r == RaiseAll(t, g, delta, X)
  <2> HIDE DEF delta
  <2>2. /\ Sound(r) /\ r.curr = t.curr
        /\ Tasks \cap r.on_rq = Tasks \cap (t.on_rq \cup {g})
    BY <1>1, <1>3, <1>5, <1>6, <1>7, <1>8, <1>10, <2>1, RaiseSound
  <2>3. UnthrottleGroup(s, g, X) = r
    BY <1>4, <1>10
  <2> HIDE DEF r
  <2> QED BY <1>1, <1>3, <2>2, <2>3
<1> QED BY <1>9, <1>10

(* The cpu goes offline for one group: what it was throttled for is queued again. *)
LEMMA OfflineOneSound ==
  ASSUME NEW s, Sound(s), NEW g \in Queues, NEW X
  PROVE  LET r == OfflineOne(s, g, X)
         IN  Sound(r) /\ r.curr = s.curr /\ Tasks \cap r.on_rq = Tasks \cap s.on_rq
<1> DEFINE m == [s EXCEPT !.runtime_enabled = @ \ {g}]
<1>1. /\ m \in States /\ m.curr = s.curr
      /\ m.on_rq = s.on_rq /\ m.h_nr_running = s.h_nr_running
      /\ m.nr_running = s.nr_running /\ m.throttled = s.throttled
      /\ m.throttle_count = s.throttle_count /\ m.next = s.next
  BY DEF Sound, States
<1>2. OfflineOne(s, g, X) =
        IF g \in s.runtime_enabled \cap s.throttled THEN UnthrottleGroup(m, g, X) ELSE m
  BY DEF OfflineOne
<1> HIDE DEF m
<1>3. \A d \in Groups : Settled(m, d)
  BY <1>1 DEF Sound, Settled, Queued
<1>4. Sound(m)
  BY <1>1, <1>3 DEF Sound, Frozen, Named, Balanced
<1>5. CASE g \in s.runtime_enabled \cap s.throttled
  <2> DEFINE r == UnthrottleGroup(m, g, X)
  <2>1. g \in m.throttled /\ g \in Groups
    BY <1>1, <1>5 DEF States
  <2>2. Sound(r) /\ r.curr = m.curr /\ Tasks \cap r.on_rq = Tasks \cap m.on_rq
    BY <1>4, <2>1, UnthrottleSound
  <2>3. OfflineOne(s, g, X) = r
    BY <1>2, <1>5
  <2> HIDE DEF r
  <2> QED BY <1>1, <2>2, <2>3
<1>6. CASE g \notin s.runtime_enabled \cap s.throttled
  BY <1>1, <1>2, <1>4, <1>6
<1> QED BY <1>5, <1>6

LEMMA NextLeafType ==
  ASSUME NEW s \in States, NEW q
  PROVE  NextLeaf(s, q) \in Queues \cup {None} /\ FirstLeaf(s).at \in Queues \cup {None}
<1>1. s.leaf \in Seq(Queues)
  BY DEF States
<1>2. FirstLeaf(s).at \in Queues \cup {None}
  BY <1>1 DEF FirstLeaf
<1> DEFINE later == {i \in 2 .. Len(s.leaf) : s.leaf[i - 1] = q}
           i == CHOOSE i \in later : TRUE
<1>3. CASE later = {}
  BY <1>2, <1>3 DEF NextLeaf
<1>4. CASE later # {}
  <2>1. i \in 1 .. Len(s.leaf)
    BY <1>4
  <2>2. NextLeaf(s, q) = s.leaf[i]
    BY <1>4 DEF NextLeaf
  <2> HIDE DEF i, later
  <2> QED BY <1>1, <1>2, <2>1, <2>2
<1> QED BY <1>3, <1>4

(* rq_offline_fair(), over all the leaves. *)
LEMMA OfflineSound ==
  ASSUME NEW s, Sound(s), NEW p, Len(p) \in Nat, NEW X
  PROVE  LET r == OfflineEnd(FirstLeaf(s), p, X).s
         IN  Sound(r) /\ r.curr = s.curr /\ Tasks \cap r.on_rq = Tasks \cap s.on_rq
<1> DEFINE n == Len(p)
           end == OfflineEnd(FirstLeaf(s), p, X)
           Fine(a) == /\ Sound(a.s) /\ a.s.curr = s.curr
                      /\ Tasks \cap a.s.on_rq = Tasks \cap s.on_rq
                      /\ a.at \in Queues \cup {None}
<1> SUFFICES Fine(end)
  OBVIOUS
<1>1. PICK w : /\ w[0] = FirstLeaf(s)
               /\ \A k \in 1 .. n : w[k] = OfflineNext(w[k - 1], X)
               /\ end = w[n]
  <2>1. PICK w : OfflineRun(w, FirstLeaf(s), p, X)
    BY OfflineWalk
  <2> QED BY <2>1 DEF OfflineRun
<1> HIDE DEF end
<1>2. ASSUME NEW a, Fine(a)  PROVE Fine(OfflineNext(a, X))
  <2>1. CASE a.at = None
    BY <1>2, <2>1 DEF OfflineNext
  <2>2. CASE a.at # None
    <3> DEFINE m == OfflineOne(a.s, a.at, X)
    <3>1. OfflineNext(a, X) = [s |-> m, at |-> NextLeaf(m, a.at)]
      BY <2>2 DEF OfflineNext
    <3>2. Sound(m) /\ m.curr = a.s.curr /\ Tasks \cap m.on_rq = Tasks \cap a.s.on_rq
      BY <1>2, <2>2, OfflineOneSound
    <3> HIDE DEF m
    <3>3. NextLeaf(m, a.at) \in Queues \cup {None}
      BY <3>2, NextLeafType DEF Sound
    <3> QED BY <1>2, <3>1, <3>2, <3>3
  <2> QED BY <2>1, <2>2
<1>3. Fine(w[0])
  <2>1. FirstLeaf(s).at \in Queues \cup {None}
    BY NextLeafType DEF Sound
  <2>2. FirstLeaf(s).s = s
    BY DEF FirstLeaf
  <2> QED BY <1>1, <2>1, <2>2
<1> DEFINE T == {k \in Nat : k <= n => Fine(w[k])}
<1> HIDE DEF Fine
<1>4. 0 \in T
  BY <1>3
<1>5. ASSUME NEW k \in Nat, k \in T  PROVE k + 1 \in T
  <2> SUFFICES ASSUME k + 1 <= n  PROVE Fine(w[k + 1])
    OBVIOUS
  <2>1. k + 1 \in 1 .. n /\ (k + 1) - 1 = k /\ k <= n
    OBVIOUS
  <2>2. Fine(w[k])
    BY <1>5, <2>1
  <2>3. w[k + 1] = OfflineNext(w[k], X)
    BY <1>1, <2>1
  <2> QED BY <1>2, <2>2, <2>3
<1>6. n \in T
  <2> HIDE DEF T, n
  <2> QED BY <1>4, <1>5, NatSetInduction DEF n
<1> QED BY <1>1, <1>6

----------------------------------------------------------------------------
(* The inductive invariant: rq is sound, and the task that runs is queued. *)
GroupsInv == Sound(rq) /\ (rq.curr = None \/ rq.curr \in Tasks \cap rq.on_rq)

LEMMA GroupsInvInit == GroupsInit => GroupsInv
<1> SUFFICES ASSUME GroupsInit  PROVE GroupsInv
  OBVIOUS
<1>1. /\ rq \in States /\ rq.on_rq = {} /\ rq.throttled = {} /\ rq.nr_running = 0
      /\ rq.curr = None
      /\ \A q \in Queues : rq.h_nr_running[q] = 0 /\ rq.throttle_count[q] = 0 /\ rq.next[q] = None
  BY DEF GroupsInit, States
<1>2. Root \in Queues /\ Groups \subseteq Queues
  BY DEF Queues
<1>3. \A g \in Groups : Settled(rq, g)
  BY <1>1 DEF Settled, Queued
<1>4. Frozen(rq)
  <2>1. ASSUME NEW g \in Groups  PROVE rq.throttle_count[g] = Cardinality(rq.throttled \cap Above(g))
    <3>1. rq.throttled \cap Above(g) = {}
      BY <1>1
    <3> QED BY <1>1, <1>2, <3>1, FS_EmptySet
  <2> QED BY <1>1, <1>2, <2>1 DEF Frozen
<1>5. Named(rq)
  BY <1>1, NoneIsOther DEF Named
<1>6. Balanced(rq)
  <2>1. ASSUME NEW q \in Queues  PROVE Count(rq.on_rq, q) = 0
    BY <1>1, CountEmpty
  <2> QED BY <1>1, <1>2, <2>1 DEF Balanced
<1> QED BY <1>1, <1>3, <1>4, <1>5, <1>6 DEF GroupsInv, Sound

LEMMA WakeInv ==
  ASSUME GroupsInv, NEW t \in Tasks, NEW X, Wake(t, X)
  PROVE  GroupsInv'
<1> DEFINE s == EnqueueTask(rq, t, X)
           rival == {e \in Above(t) : up[e] \in Running(s) /\ e \notin Above(s.curr)}
<1>1. /\ Sound(s) /\ s.curr = rq.curr
      /\ Tasks \cap s.on_rq = (Tasks \cap rq.on_rq) \cup {t}
  BY EnqueueSound DEF Wake, GroupsInv
<1>2. rq' = s \/ \E e \in {t} \cup rival : rq' = SetNextBuddy(s, e)
  BY DEF Wake
<1>3. {t} \cup rival \subseteq Entities \cap (Groups \cup {t})
  BY AboveEntity, NoneIsOther
<1> HIDE DEF s, rival
<1>4. CASE rq' = s
  BY <1>1, <1>4 DEF GroupsInv
<1>5. CASE \E e \in {t} \cup rival : rq' = SetNextBuddy(s, e)
  <2>1. PICK e \in {t} \cup rival : rq' = SetNextBuddy(s, e)
    BY <1>5
  <2>2. e \in Entities /\ e \in Groups \cup s.on_rq
    BY <1>1, <1>3
  <2>3. Sound(rq') /\ rq'.curr = s.curr /\ rq'.on_rq = s.on_rq
    BY <1>1, <2>1, <2>2, SetNextBuddySound
  <2> QED BY <1>1, <2>3 DEF GroupsInv
<1> QED BY <1>2, <1>4, <1>5

LEMMA SleepInv ==
  ASSUME GroupsInv, NEW t \in Tasks, NEW X, Sleep(t, X)
  PROVE  GroupsInv'
<1>1. t \in rq.on_rq /\ Sound(rq)
  BY DEF Sleep, GroupsInv
<1>2. CASE t = rq.curr
  <2> DEFINE s == DequeueTask(rq, t, TRUE)
  <2>1. Sound(s) /\ s.curr = rq.curr
    BY <1>1, DequeueSound
  <2>2. rq' = PutPrev(s, X)
    BY <1>2 DEF Sleep
  <2> HIDE DEF s
  <2>3. Sound(rq') /\ rq'.curr = None
    BY <1>2, <2>1, <2>2, PutPrevSound
  <2> QED BY <2>3 DEF GroupsInv
<1>3. CASE t # rq.curr
  <2> DEFINE s == DequeueTask(rq, t, FALSE)
  <2>1. Sound(s) /\ s.curr = rq.curr /\ Tasks \cap s.on_rq = (Tasks \cap rq.on_rq) \ {t}
    BY <1>1, DequeueSound
  <2>2. rq' = s
    BY <1>3 DEF Sleep
  <2> HIDE DEF s
  <2> QED BY <1>3, <2>1, <2>2 DEF GroupsInv
<1> QED BY <1>2, <1>3

LEMMA RunningIsQueued ==
  ASSUME GroupsInv, rq.curr # None
  PROVE  Sound(rq) /\ rq.curr \in Tasks /\ rq.curr \in rq.on_rq
BY DEF GroupsInv

LEMMA PreemptInv ==
  ASSUME GroupsInv, NEW X, Preempt(X)
  PROVE  GroupsInv'
<1>1. PICK q \in Running(rq) : rq' = PutPrev(Check(rq, q, X), X)
  BY DEF Preempt
<1>2. Sound(rq) /\ rq.curr \in Tasks
  BY RunningIsQueued DEF Preempt
<1> DEFINE s == Check(rq, q, X)
<1>3. Sound(s) /\ s.curr = rq.curr
  BY <1>2, CheckSound
<1> HIDE DEF s
<1>4. Sound(rq') /\ rq'.curr = None
  BY <1>1, <1>2, <1>3, PutPrevSound DEF s
<1> QED BY <1>4 DEF GroupsInv

LEMMA PickNextInv ==
  ASSUME GroupsInv, NEW t \in Tasks, PickNext(t)
  PROVE  GroupsInv'
<1> DEFINE r == [Walk(ClearBuddies, rq, Reverse(Path[t])) EXCEPT !.curr = t]
<1>1. rq' = r /\ Sound(rq) /\ \A e \in Above(t) : e \in rq.on_rq \/ rq.next[up[e]] = e
  BY DEF PickNext, GroupsInv
<1>2. Sound(r) /\ r.curr = t /\ t \in r.on_rq
  BY <1>1, PickSound
<1> HIDE DEF r
<1> QED BY <1>1, <1>2 DEF GroupsInv

LEMMA RequeueInv ==
  ASSUME GroupsInv, NEW X, Requeue(X)
  PROVE  GroupsInv'
<1> DEFINE t == rq.curr
           a == DequeueTask(rq, t, FALSE)
           b == PutPrev(a, X)
           c == EnqueueTask(b, t, X)
<1>1. Sound(rq) /\ t \in Tasks /\ t \in rq.on_rq
  BY RunningIsQueued DEF Requeue
<1>2. Sound(a) /\ a.curr = t /\ Tasks \cap a.on_rq = (Tasks \cap rq.on_rq) \ {t}
  BY <1>1, DequeueSound
<1>3. rq' = [c EXCEPT !.curr = t]
  BY DEF Requeue
<1> HIDE DEF t, c
<1>4. Sound(b) /\ Tasks \cap b.on_rq = Tasks \cap a.on_rq
  <2> HIDE DEF a
  <2> QED BY <1>1, <1>2, PutPrevSound
<1>5. Sound(c) /\ Tasks \cap c.on_rq = (Tasks \cap b.on_rq) \cup {t}
  <2> HIDE DEF b
  <2>1. t \notin b.on_rq
    BY <1>1, <1>2, <1>4
  <2> QED BY <1>1, <1>4, <2>1, EnqueueSound DEF c
<1>6. Sound(rq') /\ rq'.curr = t /\ rq'.on_rq = c.on_rq
  BY <1>1, <1>3, <1>5, CurrSound
<1> QED BY <1>1, <1>5, <1>6 DEF GroupsInv

LEMMA YieldToInv ==
  ASSUME GroupsInv, NEW t \in Tasks, YieldTo(t)
  PROVE  GroupsInv'
<1> DEFINE s == SetNextBuddy(rq, t)
<1>1. /\ t \in Entities /\ t \in rq.on_rq /\ Sound(rq)
      /\ rq' = s \/ (rq.curr # None /\ rq' = ClearBuddies(s, rq.curr))
  BY DEF YieldTo, GroupsInv, Entities
<1>2. Sound(s) /\ s.curr = rq.curr /\ s.on_rq = rq.on_rq
  BY <1>1, SetNextBuddySound
<1> HIDE DEF s
<1>3. rq.curr # None => rq.curr \in Entities
  BY DEF GroupsInv, Entities
<1>4. Sound(rq') /\ rq'.curr = rq.curr /\ rq'.on_rq = rq.on_rq
  BY <1>1, <1>2, <1>3, ClearBuddiesSound
<1> QED BY <1>4 DEF GroupsInv

LEMMA RefillInv ==
  ASSUME GroupsInv, NEW g \in Groups, NEW X, Refill(g, X)
  PROVE  GroupsInv'
<1>1. g \in rq.throttled /\ Sound(rq) /\ rq' = UnthrottleGroup(rq, g, X)
  BY DEF Refill, GroupsInv
<1>2. Sound(rq') /\ rq'.curr = rq.curr /\ Tasks \cap rq'.on_rq = Tasks \cap rq.on_rq
  BY <1>1, UnthrottleSound
<1> QED BY <1>2 DEF GroupsInv

LEMMA OfflineInv ==
  ASSUME GroupsInv, NEW X, OfflineGroups(X)
  PROVE  GroupsInv'
<1> DEFINE p == [k \in 1 .. Cardinality(Queues) |-> k]
           r == OfflineEnd(FirstLeaf(rq), p, X).s
<1>1. Sound(rq) /\ rq' = r
  BY DEF OfflineGroups, OfflineEnd, GroupsInv
<1>2. Len(p) \in Nat
  <2>1. IsFiniteSet(Queues)
    BY GroupsAssumption, FS_AddElement DEF Queues
  <2> QED BY <2>1, FS_CardinalityType
<1> HIDE DEF p
<1>3. Sound(r) /\ r.curr = rq.curr /\ Tasks \cap r.on_rq = Tasks \cap rq.on_rq
  BY <1>1, <1>2, OfflineSound
<1> HIDE DEF r
<1> QED BY <1>1, <1>3 DEF GroupsInv

LEMMA OnlineInv ==
  ASSUME GroupsInv, OnlineGroups
  PROVE  GroupsInv'
<1> DEFINE E == rq.runtime_enabled \cup (ToSet(rq.leaf) \cap Groups)
<1>1. rq \in States /\ Sound(rq) /\ rq' = [rq EXCEPT !.runtime_enabled = E]
  BY DEF OnlineGroups, GroupsInv, Sound
<1>2. E \in SUBSET Groups
  BY <1>1 DEF States
<1> HIDE DEF E
<1>3. /\ rq' \in States /\ rq'.curr = rq.curr
      /\ rq'.on_rq = rq.on_rq /\ rq'.h_nr_running = rq.h_nr_running
      /\ rq'.nr_running = rq.nr_running /\ rq'.throttled = rq.throttled
      /\ rq'.throttle_count = rq.throttle_count /\ rq'.next = rq.next
  BY <1>1, <1>2 DEF States
<1>4. \A d \in Groups : Settled(rq', d)
  BY <1>1, <1>3 DEF Sound, Settled, Queued
<1>5. Sound(rq')
  BY <1>1, <1>3, <1>4 DEF Sound, Frozen, Named, Balanced
<1> QED BY <1>3, <1>5 DEF GroupsInv

LEMMA GroupsInvNext == GroupsInv /\ [GroupsNext]_rq => GroupsInv'
<1> SUFFICES ASSUME GroupsInv, GroupsNext \/ UNCHANGED rq  PROVE GroupsInv'
  OBVIOUS
<1>1. ASSUME NEW X \in SUBSET Groups, NEW t \in Tasks, Wake(t, X)  PROVE GroupsInv'
  BY <1>1, WakeInv
<1>2. ASSUME NEW X \in SUBSET Groups, NEW t \in Tasks, Sleep(t, X)  PROVE GroupsInv'
  BY <1>2, SleepInv
<1>3. ASSUME NEW X \in SUBSET Groups, NEW g \in Groups, Refill(g, X)  PROVE GroupsInv'
  BY <1>3, RefillInv
<1>4. ASSUME NEW X \in SUBSET Groups, Preempt(X)  PROVE GroupsInv'
  BY <1>4, PreemptInv
<1>5. ASSUME NEW X \in SUBSET Groups, Requeue(X)  PROVE GroupsInv'
  BY <1>5, RequeueInv
<1>6. ASSUME NEW X \in SUBSET Groups, OfflineGroups(X)  PROVE GroupsInv'
  BY <1>6, OfflineInv
<1>7. ASSUME NEW t \in Tasks, PickNext(t)  PROVE GroupsInv'
  BY <1>7, PickNextInv
<1>8. ASSUME NEW t \in Tasks, YieldTo(t)  PROVE GroupsInv'
  BY <1>8, YieldToInv
<1>9. CASE OnlineGroups
  BY <1>9, OnlineInv
<1>10. CASE UNCHANGED rq
  BY <1>10 DEF GroupsInv
<1> QED BY <1>1, <1>2, <1>3, <1>4, <1>5, <1>6, <1>7, <1>8, <1>9, <1>10 DEF GroupsNext

(* In every state the cpu's groups are sound: the counts, the queueing of the
   groups and the throttle counts agree after any sequence of calls. *)
THEOREM GroupsInvariant == GroupsSpec => []GroupsInv
BY GroupsInvInit, GroupsInvNext, PTL DEF GroupsSpec


(* The types, the counts being numbers of tasks and of groups, never negative. *)
LEMMA TypesHold == GroupsInv => GroupsTypeOK
<1> SUFFICES ASSUME GroupsInv  PROVE GroupsTypeOK
  OBVIOUS
<1>1. rq \in States /\ Sound(rq) /\ Root \in Queues
  BY DEF GroupsInv, Sound, Queues
<1>2. rq.h_nr_running \in [Queues -> Nat]
  <2>1. \A q \in Queues : rq.h_nr_running[q] \in Nat
    BY <1>1, CountType DEF Sound, Balanced
  <2> QED BY <1>1, <2>1 DEF States
<1>3. rq.nr_running \in Nat
  BY <1>1, <1>2 DEF Sound, Balanced
<1>4. rq.throttle_count \in [Queues -> Nat]
  <2>1. ASSUME NEW g \in Groups  PROVE rq.throttle_count[g] \in Nat
    <3>1. rq.throttled \in SUBSET Groups
      BY <1>1 DEF States
    <3>2. IsFiniteSet(rq.throttled \cap Above(g))
      <4>1. IsFiniteSet(rq.throttled)
        BY <3>1, GroupsAssumption, FS_Subset
      <4> QED BY <4>1, FS_Subset
    <3>3. Cardinality(rq.throttled \cap Above(g)) \in Nat
      BY <3>2, FS_CardinalityType
    <3> QED BY <1>1, <3>3 DEF Sound, Frozen
  <2>2. \A q \in Queues : rq.throttle_count[q] \in Nat
    BY <1>1, <2>1 DEF Sound, Frozen, Queues
  <2> QED BY <1>1, <2>2 DEF States
<1>5. ToSet(rq.leaf) \subseteq Queues
  BY <1>1 DEF States, ToSet
<1> QED BY <1>1, <1>2, <1>3, <1>4, <1>5 DEF States, GroupsTypeOK

(* From a queued entity the queue goes on up to y when no throttled group is in
   between: each parent has something queued, so it is queued itself. *)
LEMMA QueuedAbove ==
  ASSUME NEW s, Sound(s), NEW y, NEW e \in Entities, e \in s.on_rq, Below(e, y),
         \A g \in Above(e) \cap s.throttled : ~Below(g, y)
  PROVE  Chain(s.on_rq, e, y)
<1> DEFINE Open(x) == /\ x \in s.on_rq /\ Below(x, y)
                      /\ \A g \in Above(x) \cap s.throttled : ~Below(g, y)
           T == {x \in Entities :
                   Open(x) => \A z \in Above(x) : Below(z, y) => z \in s.on_rq}
<1>1. ASSUME NEW x \in Entities, up[x] # Root => up[x] \in T  PROVE x \in T
  <2> SUFFICES ASSUME Open(x), NEW z \in Above(x), Below(z, y), z # x  PROVE z \in s.on_rq
    OBVIOUS
  <2>1. z \in Above(up[x]) /\ up[x] \in Groups /\ up[x] \in Entities /\ up[x] \in Above(x)
    BY AboveUnfolds, AboveEntity
  <2>2. up[x] # Root
    BY <2>1, TreeDepth
  <2>3. Below(up[x], y)
    <3>1. Above(z) \subseteq Above(up[x])
      BY <2>1, AboveTransitive
    <3>2. up[x] # y
      <4> SUFFICES ASSUME up[x] = y  PROVE FALSE
        OBVIOUS
      <4>1. y \in Above(z) /\ z \in Above(y) /\ y \in Entities
        BY <2>1, <2>2 DEF Below
      <4>2. z = y
        BY <4>1, AboveAntisymmetric
      <4> QED BY <4>2 DEF Below
    <3> QED BY <2>1, <3>1, <3>2 DEF Below
  <2>4. up[x] \notin s.throttled
    BY <2>1, <2>3
  <2>5. up[x] \in s.on_rq
    <3>1. x \in Queued(s, up[x])
      BY DEF Queued
    <3> QED BY <2>1, <2>4, <3>1 DEF Sound, Settled
  <2>6. Above(up[x]) \subseteq Above(x)
    BY <2>1, AboveTransitive
  <2>7. Open(up[x])
    BY <2>3, <2>5, <2>6
  <2> QED BY <1>1, <2>1, <2>2, <2>7
<1>2. Entities \subseteq T
  <2> HIDE DEF T
  <2> QED BY <1>1, TreeInduction
<1> QED BY <1>2 DEF Chain

(* What a queue counts, put in terms of the groups that are throttled. *)
LEMMA ReachVisible ==
  ASSUME Sound(rq), NEW q \in Queues
  PROVE  Reach(rq.on_rq, q) =
           {t \in Tasks \cap rq.on_rq : q \in {Root} \cup Above(t) /\ ~HiddenFrom(q, t)}
<1>1. ASSUME NEW t \in Reach(rq.on_rq, q)
      PROVE  /\ t \in Tasks \cap rq.on_rq
             /\ q \in {Root} \cup Above(t) /\ ~HiddenFrom(q, t)
  <2>1. t \in Tasks /\ t \in Entities /\ t # q /\ Chain(rq.on_rq, t, q)
    BY NoneIsOther DEF Reach
  <2>2. t \in rq.on_rq /\ q \in {Root} \cup Above(t)
    BY <2>1, AboveEntity DEF Chain, Below
  <2>3. ASSUME NEW g \in Above(t) \cap rq.throttled, q # g, q \in {Root} \cup Above(g)
        PROVE  FALSE
    <3>1. g \in Groups /\ g \in Entities
      BY <2>1, AboveEntity DEF Sound, States
    <3>2. g \in rq.on_rq
      BY <2>1, <2>3, <3>1 DEF Chain, Below
    <3> QED BY <2>3, <3>1, <3>2 DEF Sound, Settled
  <2> QED BY <2>1, <2>2, <2>3 DEF HiddenFrom
<1>2. ASSUME NEW t \in Tasks \cap rq.on_rq, q \in {Root} \cup Above(t), ~HiddenFrom(q, t)
      PROVE  t \in Reach(rq.on_rq, q)
  <2>1. t \in Entities /\ t # q
    BY NoneIsOther
  <2>2. Below(t, q)
    BY <1>2, <2>1 DEF Below
  <2>3. \A g \in Above(t) \cap rq.throttled : ~Below(g, q)
    BY <1>2 DEF HiddenFrom, Below
  <2>4. Chain(rq.on_rq, t, q)
    BY <2>1, <2>2, <2>3, QueuedAbove
  <2> QED BY <2>4 DEF Reach
<1> QED BY <1>1, <1>2

(* In every state the counts are counts and every link is to something of this
   cpu. *)
THEOREM GroupsTypes == GroupsSpec => []GroupsTypeOK
BY GroupsInvariant, TypesHold, PTL

(* In every state a group is queued exactly when it has something to run and is
   not throttled, and throttle_count says how many throttled groups are above:
   descending through queued entities, pick_next_task_fair() never comes to an
   empty queue.  Through a next buddy that is no longer queued it may come to a
   throttled one. *)
THEOREM GroupsQueued == GroupsSpec => []QueuedIffRunnable
<1>1. GroupsInv => QueuedIffRunnable
  BY DEF GroupsInv, Sound, Settled, Frozen, QueuedIffRunnable
<1> QED BY <1>1, GroupsInvariant, PTL

(* In every state each queue counts exactly the queued tasks under it that no
   throttled group hides, whatever throttling met an enqueue half-way up. *)
THEOREM GroupsAccounting == GroupsSpec => []Accounting
<1>1. GroupsInv => Accounting
  <2> SUFFICES ASSUME GroupsInv  PROVE Accounting
    OBVIOUS
  <2>1. Sound(rq)
    BY DEF GroupsInv
  <2>2. ASSUME NEW q \in Queues
        PROVE  rq.h_nr_running[q] =
                 Cardinality({t \in Tasks \cap rq.on_rq :
                                q \in {Root} \cup Above(t) /\ ~HiddenFrom(q, t)})
    <3>1. rq.h_nr_running[q] = Cardinality(Reach(rq.on_rq, q))
      BY <2>1, <2>2 DEF Sound, Balanced, Count
    <3>2. Reach(rq.on_rq, q) =
            {t \in Tasks \cap rq.on_rq : q \in {Root} \cup Above(t) /\ ~HiddenFrom(q, t)}
      BY <2>1, <2>2, ReachVisible
    <3> QED BY <3>1, <3>2
  <2>3. rq.nr_running = rq.h_nr_running[Root]
    BY <2>1 DEF Sound, Balanced
  <2> QED BY <2>2, <2>3 DEF Accounting
<1> QED BY <1>1, GroupsInvariant, PTL
=============================================================================
