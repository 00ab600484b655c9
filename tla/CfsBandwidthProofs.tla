------------------------- MODULE CfsBandwidthProofs -------------------------
(***************************************************************************)
(* Theorems about CfsBandwidth for any cpus, any quota, any slice, and with *)
(* running tasks requeued in throttled cfs_rqs or not.                     *)
(***************************************************************************)
EXTENDS CfsBandwidth, SequenceTheorems, FiniteSetTheorems, TLAPS

(* list_del_rcu() takes one entry out, and nothing else. *)
LEMMA RemoveOne ==
  ASSUME NEW S, NEW s \in Seq(S), NEW i \in 1 .. Len(s),
         \A j, k \in 1 .. Len(s) : s[j] = s[k] => j = k
  PROVE  LET t == RemoveAt(s, i)
         IN  /\ t \in Seq(S) /\ Len(t) = Len(s) - 1
             /\ \A j, k \in 1 .. Len(t) : t[j] = t[k] => j = k
             /\ ToSet(t) = ToSet(s) \ {s[i]}
<1> DEFINE t == RemoveAt(s, i)
<1> DEFINE l == SubSeq(s, 1, i - 1)
           r == SubSeq(s, i + 1, Len(s))
<1>0. /\ l \in Seq(S) /\ Len(l) = i - 1 /\ \A j \in 1 .. i - 1 : l[j] = s[j]
      /\ r \in Seq(S) /\ Len(r) = Len(s) - i
      /\ \A j \in 1 .. Len(s) - i : r[j] = s[i + j]
  BY SMT
<1>t. t = l \o r
  BY DEF RemoveAt
<1> HIDE DEF l, r, t
<1>1. t \in Seq(S) /\ Len(t) = Len(s) - 1
  <2>1. l \in Seq(S) /\ r \in Seq(S)
    BY <1>0
  <2>2. t \in Seq(S) /\ Len(t) = Len(l) + Len(r)
    BY <2>1, <1>t
  <2> QED BY <1>0, <2>2
<1>2. \A j \in 1 .. Len(t) : t[j] = IF j < i THEN s[j] ELSE s[j + 1]
  <2> SUFFICES ASSUME NEW j \in 1 .. Len(t)
               PROVE  t[j] = IF j < i THEN s[j] ELSE s[j + 1]
    OBVIOUS
  <2>1. CASE j < i
    BY <1>0, <1>t, <1>1, <2>1
  <2>2. CASE j >= i
    <3>1. t[j] = r[j - (i - 1)]
      BY <1>0, <1>t, <1>1, <2>2
    <3>2. j - (i - 1) \in 1 .. Len(s) - i /\ i + (j - (i - 1)) = j + 1
      BY <1>1, <2>2
    <3> QED BY <1>0, <3>1, <3>2, <2>2
  <2> QED BY <1>1, <2>1, <2>2
<1>3. \A j, k \in 1 .. Len(t) : t[j] = t[k] => j = k
  BY <1>1, <1>2
<1>4. ToSet(t) = ToSet(s) \ {s[i]}
  <2>1. DOMAIN t = 1 .. Len(t) /\ DOMAIN s = 1 .. Len(s)
    BY <1>1
  <2>2. ASSUME NEW j \in 1 .. Len(t)  PROVE t[j] \in ToSet(s) \ {s[i]}
    BY <2>1, <1>1, <1>2 DEF ToSet
  <2>3. ASSUME NEW j \in 1 .. Len(s), j # i  PROVE s[j] \in ToSet(t)
    <3>1. CASE j < i
      <4>1. j \in 1 .. Len(t) /\ t[j] = s[j]
        BY <1>1, <1>2, <3>1
      <4> QED BY <4>1, <2>1 DEF ToSet
    <3>2. CASE j > i
      <4>1. j - 1 \in 1 .. Len(t) /\ t[j - 1] = s[j]
        BY <1>1, <1>2, <3>2
      <4> QED BY <4>1, <2>1 DEF ToSet
    <3> QED BY <2>3, <3>1, <3>2
  <2> QED BY <2>1, <2>2, <2>3 DEF ToSet
<1> QED BY <1>1, <1>3, <1>4 DEF t
----------------------------------------------------------------------------
\* The inductive invariant.

(* A call that still has something to do has a reason to: it is out of runtime,
   has more than it needs, or is not throttled yet. *)
CallsInv ==
  \A c \in Cpus : /\ pc[c] = "assign" => remaining[c] <= 0
                  /\ pc[c] = "return" => remaining[c] > MinRuntime
                  /\ pc[c] = "throttle" => ~throttled[c]

(* No cfs_rq is twice in the list. *)
ListInv ==
  \A j, k \in 1 .. Len(throttled_list) :
    throttled_list[j] = throttled_list[k] => j = k

(* A walk that is at an entry is not at the list's head. *)
WalkInv == \A w \in Timers : walk[w].pc \in {"give", "next"} => walk[w].at \in Cpus

BandwidthInv ==
  BandwidthTypeOK /\ CallsInv /\ ListInv /\ WalkInv /\ TimerCoversThrottled

(* The position of a throttled cfs_rq is one in the list. *)
LEMMA PlaceInList ==
  ASSUME throttled_list \in Seq(Cpus), NEW c, c \in ToSet(throttled_list)
  PROVE  Place(c) \in 1 .. Len(throttled_list) /\ throttled_list[Place(c)] = c
  BY DEF Place, ToSet

(* A walk goes on to a cfs_rq or to the list's head. *)
LEMMA FollowType ==
  ASSUME BandwidthTypeOK, NEW c \in Cpus
  PROVE  Follow(c) \in Cpus \cup {End}
<1>1. throttled_list \in Seq(Cpus) /\ after[c] \in Cpus \cup {End}
  BY DEF BandwidthTypeOK
<1>2. CASE c \in ToSet(throttled_list)
  BY <1>1, <1>2, PlaceInList DEF Follow
<1> QED BY <1>1, <1>2 DEF Follow

(* Unthrottling takes its cfs_rq from the list, which was not empty. *)
LEMMA UnthrottleStep ==
  ASSUME BandwidthTypeOK, ListInv, NEW c \in Cpus, throttled[c], Unthrottle(c)
  PROVE  /\ throttled_list # <<>>
         /\ throttled_list' \in Seq(Cpus) /\ throttled' \in [Cpus -> BOOLEAN]
         /\ \A d \in Cpus : throttled'[d] <=> d \in ToSet(throttled_list')
         /\ after' \in [Cpus -> Cpus \cup {End}]
         /\ throttled' = [throttled EXCEPT ![c] = FALSE]
         /\ ListInv'
<1>1. /\ throttled_list \in Seq(Cpus) /\ throttled \in [Cpus -> BOOLEAN]
      /\ after \in [Cpus -> Cpus \cup {End}]
      /\ \A d \in Cpus : throttled[d] <=> d \in ToSet(throttled_list)
  BY DEF BandwidthTypeOK
<1>2. Place(c) \in 1 .. Len(throttled_list) /\ throttled_list[Place(c)] = c
  BY <1>1, PlaceInList
<1>3. throttled' = [throttled EXCEPT ![c] = FALSE]
      /\ throttled_list' = RemoveAt(throttled_list, Place(c))
  BY DEF Unthrottle
<1>4. /\ throttled_list' \in Seq(Cpus) /\ ListInv'
      /\ ToSet(throttled_list') = ToSet(throttled_list) \ {c}
  BY <1>1, <1>2, <1>3, RemoveOne DEF ListInv
<1>5. after' \in [Cpus -> Cpus \cup {End}]
  BY <1>1, FollowType DEF Unthrottle
<1>6. throttled_list # <<>>
  BY <1>1, <1>2
<1> QED BY <1>1, <1>3, <1>4, <1>5, <1>6

(* Throttling adds to the head of the list one that is not in it. *)
LEMMA ThrottleStep ==
  ASSUME BandwidthInv, NEW c \in Cpus, Throttle(c)
  PROVE  /\ throttled_list' \in Seq(Cpus) /\ throttled' \in [Cpus -> BOOLEAN]
         /\ \A d \in Cpus : throttled'[d] <=> d \in ToSet(throttled_list')
         /\ ListInv'
<1>1. /\ throttled_list \in Seq(Cpus) /\ throttled \in [Cpus -> BOOLEAN]
      /\ \A d \in Cpus : throttled[d] <=> d \in ToSet(throttled_list)
      /\ ~throttled[c]
  BY DEF BandwidthInv, BandwidthTypeOK, CallsInv, Throttle
<1>2. throttled' = [throttled EXCEPT ![c] = TRUE] /\ throttled_list' = <<c>> \o throttled_list
  BY DEF Throttle
<1>3. /\ throttled_list' \in Seq(Cpus) /\ Len(throttled_list') = Len(throttled_list) + 1
      /\ \A j \in 1 .. Len(throttled_list') :
           throttled_list'[j] = IF j = 1 THEN c ELSE throttled_list[j - 1]
  <2>1. <<c>> \in Seq(Cpus) /\ Len(<<c>>) = 1 /\ <<c>>[1] = c
    OBVIOUS
  <2> QED BY <1>1, <1>2, <2>1, ConcatProperties
<1>4. ToSet(throttled_list') = ToSet(throttled_list) \cup {c}
  <2>1. ASSUME NEW j \in 1 .. Len(throttled_list)  PROVE throttled_list[j] \in ToSet(throttled_list')
    <3>1. j + 1 \in 1 .. Len(throttled_list') /\ throttled_list'[j + 1] = throttled_list[j]
      BY <1>1, <1>3, <2>1
    <3> QED BY <1>3, <3>1 DEF ToSet
  <2>2. c \in ToSet(throttled_list')
    <3>1. 1 \in 1 .. Len(throttled_list') /\ throttled_list'[1] = c
      BY <1>1, <1>3
    <3> QED BY <1>3, <3>1 DEF ToSet
  <2>3. ASSUME NEW j \in 1 .. Len(throttled_list')
        PROVE  throttled_list'[j] \in ToSet(throttled_list) \cup {c}
    <3>1. CASE j = 1
      BY <1>3, <3>1
    <3>2. CASE j # 1
      <4>1. j - 1 \in 1 .. Len(throttled_list) /\ throttled_list'[j] = throttled_list[j - 1]
        BY <1>1, <1>3, <3>2
      <4> QED BY <1>1, <4>1 DEF ToSet
    <3> QED BY <3>1, <3>2
  <2>4. DOMAIN throttled_list = 1 .. Len(throttled_list)
        /\ DOMAIN throttled_list' = 1 .. Len(throttled_list')
    BY <1>1, <1>3
  <2>5. ASSUME NEW x \in ToSet(throttled_list) \cup {c}  PROVE x \in ToSet(throttled_list')
    BY <2>1, <2>2, <2>4, <2>5 DEF ToSet
  <2>6. ASSUME NEW x \in ToSet(throttled_list')  PROVE x \in ToSet(throttled_list) \cup {c}
    <3>1. PICK j \in 1 .. Len(throttled_list') : x = throttled_list'[j]
      BY <2>4, <2>6 DEF ToSet
    <3> QED BY <2>3, <3>1
  <2> QED BY <2>5, <2>6
<1>5. ListInv'
  <2>1. ASSUME NEW j \in 1 .. Len(throttled_list)  PROVE throttled_list[j] # c
    BY <1>1, <2>1 DEF ToSet
  <2>2. ASSUME NEW j \in 1 .. Len(throttled_list'), NEW k \in 1 .. Len(throttled_list'),
               throttled_list'[j] = throttled_list'[k], j # 1, k # 1
        PROVE  j = k
    <3>1. j - 1 \in 1 .. Len(throttled_list) /\ k - 1 \in 1 .. Len(throttled_list)
      BY <1>1, <1>3, <2>2
    <3>2. throttled_list[j - 1] = throttled_list[k - 1]
      BY <1>3, <2>2
    <3>3. j - 1 = k - 1
      BY <3>1, <3>2 DEF BandwidthInv, ListInv
    <3> QED BY <1>1, <1>3, <2>2, <3>3
  <2>3. ASSUME NEW j \in 1 .. Len(throttled_list'), j # 1
        PROVE  throttled_list'[j] # c
    <3>1. j - 1 \in 1 .. Len(throttled_list) /\ throttled_list'[j] = throttled_list[j - 1]
      BY <1>1, <1>3, <2>3
    <3> QED BY <2>1, <3>1
  <2>4. throttled_list'[1] = c
    BY <1>1, <1>3
  <2> QED BY <2>2, <2>3, <2>4 DEF ListInv
<1> QED BY <1>1, <1>2, <1>3, <1>4, <1>5
----------------------------------------------------------------------------
\* Each action keeps the invariant.

LEMMA InitInv == Init => BandwidthInv
<1> SUFFICES ASSUME Init PROVE BandwidthInv
  OBVIOUS
<1>1. ToSet(throttled_list) = {} /\ throttled_list \in Seq(Cpus) /\ Len(throttled_list) = 0
  BY DEF Init, ToSet
<1>2. BandwidthTypeOK
  <2>1. NoWalk \in Walks
    BY DEF NoWalk, Walks
  <2>2. walk \in [Timers -> Walks] /\ after \in [Cpus -> Cpus \cup {End}]
    BY <2>1 DEF Init
  <2>3. /\ current \in [Cpus -> BOOLEAN] /\ throttled \in [Cpus -> BOOLEAN]
        /\ enabled \in [Cpus -> BOOLEAN] /\ ahead = {}
    BY DEF Init
  <2>4. /\ remaining \in [Cpus -> Int] /\ sched \in [Cpus -> {"empty", "queued", "running"}]
        /\ pc \in [Cpus -> {"idle", "assign", "throttle", "return"}]
    BY DEF Init
  <2>5. \A c \in Cpus : throttled[c] <=> c \in ToSet(throttled_list)
    BY <1>1 DEF Init
  <2>6. /\ runtime \in Nat /\ idle \in BOOLEAN /\ period_active \in BOOLEAN
        /\ timer \in {"off", "armed", "due"} /\ slack_timer \in {"off", "armed"}
    BY BandwidthAssumption DEF Init
  <2> QED BY <1>1, <2>2, <2>3, <2>4, <2>5, <2>6 DEF BandwidthTypeOK
<1>3. CallsInv /\ WalkInv
  BY <1>2 DEF Init, CallsInv, WalkInv, NoWalk, BandwidthTypeOK
<1>4. ListInv /\ TimerCoversThrottled
  BY <1>1 DEF Init, ListInv, TimerCoversThrottled
<1> QED BY <1>2, <1>3, <1>4 DEF BandwidthInv

(* What a call does besides charging leaves the list and the timers alone. *)
LEMMA ChargeStep ==
  ASSUME BandwidthInv, NEW c \in Cpus, NEW d \in Nat,
         NEW mode \in {"empty", "queued", "running"}, pc[c] = "idle", Charge(c, d, mode)
  PROVE  /\ remaining' \in [Cpus -> Int]
         /\ pc' \in [Cpus -> {"idle", "assign", "throttle", "return"}]
         /\ \A e \in Cpus : /\ pc'[e] = "assign" => remaining'[e] <= 0
                            /\ pc'[e] = "return" => remaining'[e] > MinRuntime
                            /\ pc'[e] = "throttle" => ~throttled[e]
  BY BandwidthAssumption DEF BandwidthInv, BandwidthTypeOK, CallsInv, Charge, Rest

LEMMA CallStep ==
  ASSUME BandwidthInv, NEW c \in Cpus, NEW d \in Nat,
         NEW mode \in {"empty", "queued", "running"}, NEW charged \in BOOLEAN,
         Call(c, mode, charged, d)
  PROVE  BandwidthInv'
<1>1. /\ remaining' \in [Cpus -> Int]
      /\ pc' \in [Cpus -> {"idle", "assign", "throttle", "return"}]
      /\ \A e \in Cpus : /\ pc'[e] = "assign" => remaining'[e] <= 0
                         /\ pc'[e] = "return" => remaining'[e] > MinRuntime
                         /\ pc'[e] = "throttle" => ~throttled[e]
  <2>1. CASE charged /\ enabled[c]
    BY <2>1, ChargeStep DEF Call
  <2>2. CASE ~(charged /\ enabled[c])
    <3>1. /\ remaining \in [Cpus -> Int]
          /\ pc \in [Cpus -> {"idle", "assign", "throttle", "return"}]
      BY DEF BandwidthInv, BandwidthTypeOK
    <3> QED BY <2>2, <3>1 DEF Call, BandwidthInv, CallsInv
  <2> QED BY <2>1, <2>2
<1>a. ahead' \subseteq {e \in Cpus : ~current'[e]}
  <2>1. /\ current' = current /\ ahead \subseteq {e \in Cpus : ~current[e]}
        /\ (ahead' = ahead \/ (~current[c] /\ ahead' = ahead \cup {c}))
    BY DEF Call, Charge, BandwidthInv, BandwidthTypeOK
  <2> QED BY <2>1
<1>2. BandwidthTypeOK'
  BY <1>1, <1>a DEF Call, BandwidthInv, BandwidthTypeOK, group
<1>3. CallsInv'
  BY <1>1 DEF Call, CallsInv
<1>4. ListInv' /\ WalkInv' /\ TimerCoversThrottled'
  BY DEF Call, group, BandwidthInv, ListInv, WalkInv, TimerCoversThrottled
<1> QED BY <1>2, <1>3, <1>4 DEF BandwidthInv

(* A call that is out of runtime takes from the pool no more than is in it. *)
LEMMA AssignStep ==
  ASSUME BandwidthInv, NEW c \in Cpus, Assign(c)
  PROVE  BandwidthInv'
<1>1. Amount(c) \in Nat /\ Amount(c) <= runtime
  BY BandwidthAssumption
     DEF BandwidthInv, BandwidthTypeOK, CallsInv, Assign, Amount, Least
<1>2. BandwidthTypeOK'
  <2>1. runtime' \in Nat /\ idle' \in BOOLEAN
    <3>1. runtime \in Nat /\ idle \in BOOLEAN
      BY DEF BandwidthInv, BandwidthTypeOK
    <3>2. runtime' = runtime - Amount(c) /\ (idle' = FALSE \/ idle' = idle)
      BY DEF Assign
    <3>3. runtime' \in Nat
      BY <1>1, <3>1, <3>2
    <3> QED BY <3>1, <3>2, <3>3, Zenon
  <2>2. period_active' \in BOOLEAN /\ timer' \in {"off", "armed", "due"}
    <3>1. period_active' = TRUE /\ timer' = IF period_active THEN timer ELSE "armed"
      BY DEF Assign, StartPeriod
    <3>2. timer \in {"off", "armed", "due"}
      BY DEF BandwidthInv, BandwidthTypeOK
    <3> QED BY <3>1, <3>2
  <2>3. /\ remaining' \in [Cpus -> Int]
        /\ pc' \in [Cpus -> {"idle", "assign", "throttle", "return"}]
    <3> DEFINE m == Rest(c, sched[c], remaining[c] + Amount(c))
    <3>1. m \in {"idle", "assign", "throttle", "return"}
      BY DEF Rest
    <3>2. pc' = [pc EXCEPT ![c] = m]
      BY DEF Assign
    <3> HIDE DEF m
    <3>3. pc' \in [Cpus -> {"idle", "assign", "throttle", "return"}]
      BY <3>1, <3>2 DEF BandwidthInv, BandwidthTypeOK
    <3>4. remaining' \in [Cpus -> Int]
      BY <1>1 DEF Assign, BandwidthInv, BandwidthTypeOK
    <3> QED BY <3>3, <3>4
  <2>4. current' \in [Cpus -> BOOLEAN] /\ ahead' \subseteq {e \in Cpus : ~current'[e]}
    <3>1. /\ current \in [Cpus -> BOOLEAN] /\ ahead \subseteq {e \in Cpus : ~current[e]}
          /\ current' = [current EXCEPT ![c] = c \notin ahead] /\ ahead' = ahead
      BY DEF Assign, BandwidthInv, BandwidthTypeOK
    <3>2. (c \notin ahead) \in BOOLEAN
      OBVIOUS
    <3>3. \A e \in Cpus : current'[e] = IF e = c THEN c \notin ahead ELSE current[e]
      BY <3>1, Zenon
    <3>4. current' \in [Cpus -> BOOLEAN]
      BY <3>1, <3>2, Zenon
    <3> QED BY <3>1, <3>3, <3>4
  <2> QED BY <2>1, <2>2, <2>3, <2>4 DEF Assign, BandwidthInv, BandwidthTypeOK
<1>3. CallsInv'
  BY <1>1 DEF Assign, BandwidthInv, BandwidthTypeOK, CallsInv, Rest
<1>4. ListInv' /\ WalkInv' /\ TimerCoversThrottled'
  BY DEF Assign, BandwidthInv, BandwidthTypeOK, StartPeriod, ListInv, WalkInv,
         TimerCoversThrottled
<1> QED BY <1>2, <1>3, <1>4 DEF BandwidthInv

LEMMA ThrottleInv ==
  ASSUME BandwidthInv, NEW c \in Cpus, Throttle(c)
  PROVE  BandwidthInv'
<1>1. BandwidthTypeOK'
  BY ThrottleStep DEF Throttle, BandwidthInv, BandwidthTypeOK, StartPeriod
<1>2. CallsInv' /\ WalkInv'
  BY DEF Throttle, BandwidthInv, BandwidthTypeOK, CallsInv, WalkInv
<1>3. TimerCoversThrottled'
  BY DEF Throttle, BandwidthInv, BandwidthTypeOK, StartPeriod, TimerCoversThrottled
<1> QED BY <1>1, <1>2, <1>3, ThrottleStep DEF BandwidthInv

LEMMA ReturnStep ==
  ASSUME BandwidthInv, NEW c \in Cpus, Return(c)
  PROVE  BandwidthInv'
<1>1. BandwidthTypeOK'
  <2>1. remaining[c] - MinRuntime \in Nat
    BY BandwidthAssumption DEF Return, BandwidthInv, BandwidthTypeOK, CallsInv
  <2>2. runtime' \in Nat /\ slack_timer' \in {"off", "armed"}
    BY <2>1 DEF Return, BandwidthInv, BandwidthTypeOK
  <2> QED BY <2>2, BandwidthAssumption DEF Return, BandwidthInv, BandwidthTypeOK
<1>2. CallsInv'
  BY DEF Return, BandwidthInv, BandwidthTypeOK, CallsInv
<1>3. ListInv' /\ WalkInv' /\ TimerCoversThrottled'
  BY DEF Return, BandwidthInv, ListInv, WalkInv, TimerCoversThrottled
<1> QED BY <1>1, <1>2, <1>3 DEF BandwidthInv

(* The period timer turns itself off only when nobody is throttled. *)
LEMMA PeriodBeginStep ==
  ASSUME BandwidthInv, PeriodBegin
  PROVE  BandwidthInv'
<1>1. runtime' \in Nat
  BY BandwidthAssumption DEF PeriodBegin, BandwidthInv, BandwidthTypeOK
<1>2. /\ idle' \in BOOLEAN /\ period_active' \in BOOLEAN
      /\ timer' \in {"off", "armed", "due"} /\ current' \in [Cpus -> BOOLEAN]
  BY DEF PeriodBegin, BandwidthInv, BandwidthTypeOK
<1>w. walk' \in [Timers -> Walks] /\ WalkInv'
  <2>1. walk \in [Timers -> Walks] /\ WalkInv
    BY DEF BandwidthInv, BandwidthTypeOK
  <2>2. CASE UNCHANGED walk
    BY <2>1, <2>2 DEF WalkInv
  <2>3. CASE walk' = [walk EXCEPT !["slack"].current = FALSE]
    BY <2>1, <2>3 DEF WalkInv, Walks, Timers
  <2>4. CASE walk' = [StartWalk("period") EXCEPT !["slack"].current = FALSE]
    BY <1>1, <2>1, <2>4 DEF WalkInv, Walks, Timers, StartWalk
  <2> QED BY <2>2, <2>3, <2>4 DEF PeriodBegin
<1>3. BandwidthTypeOK'
  BY <1>1, <1>2, <1>w DEF PeriodBegin, BandwidthInv, BandwidthTypeOK
<1>4. CallsInv' /\ ListInv'
  BY DEF PeriodBegin, BandwidthInv, CallsInv, ListInv
<1>5. TimerCoversThrottled'
  BY DEF PeriodBegin, BandwidthInv, TimerCoversThrottled, NothingHappens
<1> QED BY <1>w, <1>3, <1>4, <1>5 DEF BandwidthInv

(* A walk gives what it has left or less, to a cfs_rq that needs it. *)
LEMMA WalkGiveStep ==
  ASSUME BandwidthInv, NEW w \in Timers, WalkGive(w)
  PROVE  BandwidthInv'
<1> DEFINE c    == walk[w].at
           give == Unsigned(Needed(c), walk[w].left)
<1>1. /\ c \in Cpus /\ walk[w] \in Walks /\ walk[w].left \in Nat /\ walk[w].given \in Nat
      /\ remaining[c] \in Int
  BY DEF WalkGive, BandwidthInv, BandwidthTypeOK, WalkInv, Walks
<1>2. give \in Nat /\ give <= walk[w].left
  BY <1>1 DEF Unsigned, Needed, Least
<1> HIDE DEF give
<1>3. pc[c] = "idle" /\ pc' = pc
  BY DEF WalkGive
<1>4. /\ remaining' \in [Cpus -> Int]
      /\ \A d \in Cpus \ {c} : remaining'[d] = remaining[d]
  BY <1>1, <1>2 DEF WalkGive, give, BandwidthInv, BandwidthTypeOK
<1>5. walk' \in [Timers -> Walks] /\ WalkInv'
  <2>1. walk \in [Timers -> Walks] /\ WalkInv
    BY DEF BandwidthInv, BandwidthTypeOK
  <2>2. CASE throttled[c]
    <3>1. walk' = [walk EXCEPT
            ![w].left = @ - give, ![w].given = @ + give,
            ![w].pc = IF walk[w].left = give THEN "end" ELSE "next"]
      BY <2>2 DEF WalkGive, give
    <3>2. walk[w].left - give \in Nat /\ walk[w].given + give \in Nat
      BY <1>1, <1>2
    <3> DEFINE l == walk[w].left - give
               g == walk[w].given + give
               k == IF walk[w].left = give THEN "end" ELSE "next"
    <3>3. l \in Nat /\ g \in Nat /\ k \in {"end", "next"}
      BY <3>2
    <3>4. walk' = [walk EXCEPT ![w] = [@ EXCEPT !.left = l, !.given = g, !.pc = k]]
      BY <2>1, <3>1
    <3> HIDE DEF l, g, k
    <3> QED BY <1>1, <2>1, <3>3, <3>4 DEF Walks, WalkInv
  <2>3. CASE ~throttled[c]
    <3>1. walk' = [walk EXCEPT ![w].pc = "next"]
      BY <2>3 DEF WalkGive
    <3> QED BY <1>1, <2>1, <3>1 DEF Walks, WalkInv
  <2> QED BY <2>2, <2>3
<1>6. current' \in [Cpus -> BOOLEAN]
  <2>1. walk[w].current \in BOOLEAN /\ current \in [Cpus -> BOOLEAN]
    BY <1>1 DEF Walks, BandwidthInv, BandwidthTypeOK
  <2>2. current' = [current EXCEPT ![c] = walk[w].current] \/ current' = current
    BY DEF WalkGive
  <2> QED BY <2>1, <2>2
<1>7. /\ throttled_list' \in Seq(Cpus) /\ throttled' \in [Cpus -> BOOLEAN]
      /\ \A d \in Cpus : throttled'[d] <=> d \in ToSet(throttled_list')
      /\ after' \in [Cpus -> Cpus \cup {End}] /\ ListInv'
      /\ throttled_list' # <<>> => throttled_list # <<>>
      /\ \A d \in Cpus \ {c} : throttled'[d] = throttled[d]
  <2>1. CASE throttled[c] /\ Unthrottle(c)
    <3>1. BandwidthTypeOK /\ ListInv /\ throttled \in [Cpus -> BOOLEAN]
      BY DEF BandwidthInv, BandwidthTypeOK
    <3> QED BY <1>1, <2>1, <3>1, UnthrottleStep
  <2>2. CASE UNCHANGED <<throttled, throttled_list, after>>
    BY <2>2 DEF BandwidthInv, BandwidthTypeOK, ListInv
  <2> QED BY <2>1, <2>2 DEF WalkGive
<1>8. BandwidthTypeOK'
  BY <1>4, <1>5, <1>6, <1>7 DEF WalkGive, BandwidthInv, BandwidthTypeOK
<1>9. CallsInv'
  BY <1>3, <1>4, <1>7 DEF BandwidthInv, CallsInv
<1>10. TimerCoversThrottled'
  BY <1>7 DEF WalkGive, BandwidthInv, TimerCoversThrottled
<1> QED BY <1>5, <1>7, <1>8, <1>9, <1>10 DEF BandwidthInv

(* The other steps of a walk move it, or end it, and touch no cfs_rq. *)
LEMMA WalkStep ==
  ASSUME BandwidthInv, UNCHANGED <<throttled_list, timer, period_active, slack_timer, local, pc>>,
         runtime' \in Nat, idle' \in BOOLEAN,
         after' \in [Cpus -> Cpus \cup {End}], walk' \in [Timers -> Walks], WalkInv'
  PROVE  BandwidthInv'
<1>1. BandwidthTypeOK'
  BY DEF BandwidthInv, BandwidthTypeOK, local
<1>2. CallsInv' /\ ListInv' /\ TimerCoversThrottled'
  BY DEF BandwidthInv, CallsInv, ListInv, TimerCoversThrottled, local
<1> QED BY <1>1, <1>2 DEF BandwidthInv

LEMMA WalkStartStep ==
  ASSUME BandwidthInv, NEW w \in Timers, WalkStart(w)
  PROVE  BandwidthInv'
<1>1. /\ walk \in [Timers -> Walks] /\ WalkInv /\ throttled_list \in Seq(Cpus)
      /\ runtime \in Nat /\ idle \in BOOLEAN /\ after \in [Cpus -> Cpus \cup {End}]
  BY DEF BandwidthInv, BandwidthTypeOK
<1>2. throttled_list # <<>> => Head(throttled_list) \in Cpus
  BY <1>1
<1>3. walk' \in [Timers -> Walks]
  BY <1>1, <1>2 DEF WalkStart, Walks
<1>4. WalkInv'
  <2>1. \A v \in Timers \ {w} : walk'[v] = walk[v]
    BY <1>1 DEF WalkStart
  <2>2. walk'[w].pc = "give" => walk'[w].at \in Cpus
    BY <1>1, <1>2 DEF WalkStart, Walks
  <2>3. walk'[w].pc # "next"
    BY <1>1 DEF WalkStart, Walks
  <2> QED BY <1>1, <2>1, <2>2, <2>3 DEF WalkInv
<1> QED BY <1>1, <1>3, <1>4, WalkStep DEF WalkStart, group

LEMMA WalkNextStep ==
  ASSUME BandwidthInv, NEW w \in Timers, WalkNext(w)
  PROVE  BandwidthInv'
<1>1. /\ walk \in [Timers -> Walks] /\ WalkInv
      /\ runtime \in Nat /\ idle \in BOOLEAN /\ after \in [Cpus -> Cpus \cup {End}]
  BY DEF BandwidthInv, BandwidthTypeOK
<1>2. Follow(walk[w].at) \in Cpus \cup {End}
  BY FollowType DEF BandwidthInv, WalkInv, WalkNext
<1>3. walk' \in [Timers -> Walks] /\ WalkInv'
  BY <1>1, <1>2 DEF WalkNext, Walks, WalkInv
<1> QED BY <1>1, <1>3, WalkStep DEF WalkNext, group

(* At its end a walk is forgotten, and with the last one the pointers. *)
LEMMA EndWalkStep ==
  ASSUME BandwidthInv, NEW w \in Timers, EndWalk(w)
  PROVE  /\ walk' \in [Timers -> Walks] /\ WalkInv'
         /\ after' \in [Cpus -> Cpus \cup {End}]
<1>1. walk \in [Timers -> Walks] /\ WalkInv /\ after \in [Cpus -> Cpus \cup {End}]
  BY DEF BandwidthInv, BandwidthTypeOK
<1>2. NoWalk \in Walks /\ NoWalk.pc = "idle"
  BY DEF NoWalk, Walks
<1>3. walk' \in [Timers -> Walks] /\ WalkInv'
  BY <1>1, <1>2 DEF EndWalk, WalkInv
<1> QED BY <1>1, <1>3 DEF EndWalk

LEMMA PeriodEndStep == ASSUME BandwidthInv, PeriodEnd  PROVE BandwidthInv'
<1>1. /\ walk \in [Timers -> Walks] /\ WalkInv /\ walk["period"].given \in Nat
      /\ runtime \in Nat /\ idle \in BOOLEAN /\ after \in [Cpus -> Cpus \cup {End}]
  BY DEF BandwidthInv, BandwidthTypeOK, Walks, Timers
<1>2. runtime' \in Nat
  BY <1>1 DEF PeriodEnd, Least
<1>3. /\ walk' \in [Timers -> Walks] /\ WalkInv' /\ idle' \in BOOLEAN
      /\ after' \in [Cpus -> Cpus \cup {End}]
  <2>1. CASE walk' = StartWalk("period") /\ UNCHANGED <<idle, after>>
    BY <1>1, <1>2, <2>1 DEF StartWalk, Walks, WalkInv
  <2>2. CASE EndWalk("period") /\ idle' = FALSE
    BY <2>2, EndWalkStep DEF Timers
  <2> QED BY <2>1, <2>2 DEF PeriodEnd
<1> QED BY <1>2, <1>3, WalkStep DEF PeriodEnd

LEMMA SlackEndStep == ASSUME BandwidthInv, SlackEnd  PROVE BandwidthInv'
<1>1. /\ walk["slack"].given \in Nat /\ runtime \in Nat /\ idle \in BOOLEAN
  BY DEF BandwidthInv, BandwidthTypeOK, Walks, Timers
<1>2. runtime' \in Nat
  BY <1>1 DEF SlackEnd, Least
<1>3. /\ walk' \in [Timers -> Walks] /\ WalkInv' /\ after' \in [Cpus -> Cpus \cup {End}]
  BY EndWalkStep DEF SlackEnd, Timers
<1> QED BY <1>1, <1>2, <1>3, WalkStep DEF SlackEnd

(* The steps of the timers' other events, and of hotplug. *)
LEMMA ElapseStep == ASSUME BandwidthInv, Elapse  PROVE BandwidthInv'
<1>1. BandwidthTypeOK'
  BY DEF Elapse, BandwidthInv, BandwidthTypeOK, local
<1>2. CallsInv' /\ ListInv' /\ WalkInv' /\ TimerCoversThrottled'
  BY DEF Elapse, BandwidthInv, CallsInv, ListInv, WalkInv, TimerCoversThrottled, local
<1> QED BY <1>1, <1>2 DEF BandwidthInv

LEMMA SlackBeginStep == ASSUME BandwidthInv, SlackBegin  PROVE BandwidthInv'
<1>1. walk' \in [Timers -> Walks] /\ WalkInv'
  <2>1. walk \in [Timers -> Walks] /\ WalkInv /\ runtime \in Nat
    BY DEF BandwidthInv, BandwidthTypeOK
  <2>2. CASE UNCHANGED walk
    BY <2>1, <2>2 DEF WalkInv
  <2>3. CASE UNCHANGED runtime /\ walk' = StartWalk("slack")
    BY <2>1, <2>3 DEF StartWalk, WalkInv, Walks
  <2> QED BY <2>2, <2>3 DEF SlackBegin
<1>2. BandwidthTypeOK'
  BY <1>1 DEF SlackBegin, BandwidthInv, BandwidthTypeOK, local
<1>3. CallsInv' /\ ListInv' /\ TimerCoversThrottled'
  BY DEF SlackBegin, BandwidthInv, CallsInv, ListInv, TimerCoversThrottled, local
<1> QED BY <1>1, <1>2, <1>3 DEF BandwidthInv

LEMMA OfflineStep == ASSUME BandwidthInv, NEW c \in Cpus, Offline(c)  PROVE BandwidthInv'
<1>1. /\ throttled_list' \in Seq(Cpus) /\ throttled' \in [Cpus -> BOOLEAN]
      /\ \A d \in Cpus : throttled'[d] <=> d \in ToSet(throttled_list')
      /\ after' \in [Cpus -> Cpus \cup {End}] /\ ListInv'
      /\ throttled_list' # <<>> => throttled_list # <<>>
      /\ \A d \in Cpus \ {c} : throttled'[d] = throttled[d]
  <2>1. CASE throttled[c] /\ Unthrottle(c)
    <3>1. BandwidthTypeOK /\ ListInv /\ throttled \in [Cpus -> BOOLEAN]
      BY DEF BandwidthInv, BandwidthTypeOK
    <3> QED BY <2>1, <3>1, UnthrottleStep
  <2>2. CASE UNCHANGED <<throttled, throttled_list, after>>
    BY <2>2 DEF BandwidthInv, BandwidthTypeOK, ListInv
  <2> QED BY <2>1, <2>2 DEF Offline
<1>e. enabled' \in [Cpus -> BOOLEAN]
  BY DEF Offline, BandwidthInv, BandwidthTypeOK
<1>r. remaining' \in [Cpus -> Int]
  BY DEF Offline, BandwidthInv, BandwidthTypeOK
<1>2. BandwidthTypeOK'
  BY <1>1, <1>e, <1>r DEF Offline, BandwidthInv, BandwidthTypeOK
<1>3. CallsInv' /\ WalkInv' /\ TimerCoversThrottled'
  BY <1>1 DEF Offline, BandwidthInv, BandwidthTypeOK, CallsInv, WalkInv, TimerCoversThrottled
<1> QED BY <1>1, <1>2, <1>3 DEF BandwidthInv

LEMMA OnlineStep == ASSUME BandwidthInv, NEW c \in Cpus, Online(c)  PROVE BandwidthInv'
<1>e. enabled' \in [Cpus -> BOOLEAN]
  BY DEF Online, BandwidthInv, BandwidthTypeOK
<1>1. BandwidthTypeOK'
  BY <1>e DEF Online, BandwidthInv, BandwidthTypeOK, group
<1>2. CallsInv' /\ ListInv' /\ WalkInv' /\ TimerCoversThrottled'
  BY DEF Online, BandwidthInv, CallsInv, ListInv, WalkInv, TimerCoversThrottled, group
<1> QED BY <1>1, <1>2 DEF BandwidthInv

LEMMA StepInv == BandwidthInv /\ [Next]_vars => BandwidthInv'
<1> SUFFICES ASSUME BandwidthInv, [Next]_vars  PROVE BandwidthInv'
  OBVIOUS
<1> USE BandwidthAssumption
<1>t. \A c \in Cpus : throttled[c] \in BOOLEAN
  BY DEF BandwidthInv, BandwidthTypeOK
<1>n. 0 \in Nat /\ 0 .. MaxDelta \subseteq Nat
  OBVIOUS
<1>1. ASSUME NEW c \in Cpus, NEW d \in 0 .. MaxDelta, Tick(c, d)  PROVE BandwidthInv'
  BY <1>1, <1>n, CallStep DEF Tick
<1>2. ASSUME NEW c \in Cpus, NEW d \in 0 .. MaxDelta, Put(c, d)  PROVE BandwidthInv'
  BY <1>2, <1>n, CallStep DEF Put
<1>3. ASSUME NEW c \in Cpus, NEW d \in 0 .. MaxDelta, Leave(c, d)  PROVE BandwidthInv'
  BY <1>3, <1>n, CallStep DEF Leave
<1>4. ASSUME NEW c \in Cpus, TakeLast(c)  PROVE BandwidthInv'
  BY <1>4, <1>n, CallStep DEF TakeLast
<1>5. ASSUME NEW c \in Cpus, Enqueue(c)  PROVE BandwidthInv'
  BY <1>5, <1>t, <1>n, CallStep DEF Enqueue
<1>6. ASSUME NEW c \in Cpus, SetNext(c)  PROVE BandwidthInv'
  BY <1>6, <1>n, CallStep DEF SetNext
<1>7. ASSUME NEW c \in Cpus, SetCurr(c)  PROVE BandwidthInv'
  BY <1>7, <1>n, CallStep DEF SetCurr
<1>8. ASSUME NEW c \in Cpus, Assign(c) \/ Throttle(c) \/ Return(c)  PROVE BandwidthInv'
  BY <1>8, AssignStep, ThrottleInv, ReturnStep
<1>9. ASSUME NEW c \in Hotplug, Offline(c) \/ Online(c)  PROVE BandwidthInv'
  BY <1>9, OfflineStep, OnlineStep
<1>10. ASSUME NEW w \in Timers, WalkStart(w) \/ WalkGive(w) \/ WalkNext(w)
       PROVE  BandwidthInv'
  BY <1>10, WalkStartStep, WalkGiveStep, WalkNextStep
<1>11. CASE Elapse \/ PeriodBegin \/ PeriodEnd \/ SlackBegin \/ SlackEnd
  BY <1>11, ElapseStep, PeriodBeginStep, PeriodEndStep, SlackBeginStep, SlackEndStep
<1>12. CASE UNCHANGED vars
  BY <1>12 DEF vars, group, local, BandwidthInv, BandwidthTypeOK, CallsInv, ListInv, WalkInv,
               TimerCoversThrottled
<1> QED BY <1>1, <1>2, <1>3, <1>4, <1>5, <1>6, <1>7, <1>8, <1>9, <1>10, <1>11, <1>12 DEF Next

(* The inductive invariant. *)
THEOREM BandwidthInvariant == Spec => []BandwidthInv
  BY InitInv, StepInv, PTL DEF Spec

(* Types, and that exactly the throttled cfs_rqs are in the list that the timers
   walk (fair.c:3876-3895, 3907-3914). *)
THEOREM BandwidthTypes == Spec => []BandwidthTypeOK
  BY BandwidthInvariant, PTL DEF BandwidthInv

(* On any number of cpus nobody is throttled while the period timer is off
   (fair.c:3888-3893, 3998-4006, 4044). *)
THEOREM BandwidthTimer == Spec => []TimerCoversThrottled
  BY BandwidthInvariant, PTL DEF BandwidthInv
----------------------------------------------------------------------------
\* Debts, where no running task is requeued in a throttled cfs_rq.

DebtInv ==
  \A c \in Cpus :
    /\ pc[c] = "throttle" => remaining[c] <= 0 /\ sched[c] # "running"
    /\ throttled[c] =>
         remaining[c] <= 0 /\ sched[c] # "running" /\ pc[c] # "assign"

(* A call does not charge a throttled cfs_rq, and leaves one to be throttled only
   if it has nothing left and does not run on. *)
LEMMA DebtCall ==
  ASSUME BandwidthInv, DebtInv, NEW c \in Cpus, NEW d \in Nat,
         NEW mode \in {"empty", "queued", "running"}, NEW charged \in BOOLEAN,
         throttled[c] => ~charged /\ mode # "running",
         Call(c, mode, charged, d)
  PROVE  DebtInv'
<1>1. sched' = [sched EXCEPT ![c] = mode] /\ throttled' = throttled
  BY DEF Call
<1>2. /\ remaining \in [Cpus -> Int] /\ pc \in [Cpus -> {"idle", "assign", "throttle", "return"}]
      /\ sched \in [Cpus -> {"empty", "queued", "running"}]
  BY DEF BandwidthInv, BandwidthTypeOK
<1>3. CASE charged /\ enabled[c]
  BY <1>1, <1>2, <1>3 DEF Call, Charge, Rest, DebtInv
<1>4. CASE ~(charged /\ enabled[c])
  BY <1>1, <1>2, <1>4 DEF Call, DebtInv
<1> QED BY <1>3, <1>4

LEMMA DebtStep ==
  ASSUME ~Forced, BandwidthInv, DebtInv, [Next]_vars
  PROVE  DebtInv'
<1> USE BandwidthAssumption
<1>t. /\ \A c \in Cpus : throttled[c] \in BOOLEAN
      /\ remaining \in [Cpus -> Int] /\ pc \in [Cpus -> {"idle", "assign", "throttle", "return"}]
      /\ sched \in [Cpus -> {"empty", "queued", "running"}]
      /\ throttled \in [Cpus -> BOOLEAN]
  BY DEF BandwidthInv, BandwidthTypeOK
<1>n. 0 \in Nat /\ 0 .. MaxDelta \subseteq Nat
  OBVIOUS
<1>1. ASSUME NEW c \in Cpus, NEW d \in 0 .. MaxDelta, Tick(c, d) \/ Put(c, d) \/ Leave(c, d)
      PROVE  DebtInv'
  <2>1. ~throttled[c]
    BY <1>1 DEF DebtInv, Tick, Put, Leave
  <2> QED BY <1>1, <1>n, <2>1, DebtCall DEF Tick, Put, Leave
<1>2. ASSUME NEW c \in Cpus, TakeLast(c)  PROVE DebtInv'
  BY <1>2, <1>n, DebtCall DEF TakeLast
<1>3. ASSUME NEW c \in Cpus, Enqueue(c)  PROVE DebtInv'
  BY <1>3, <1>n, <1>t, DebtCall DEF Enqueue
<1>4. ASSUME NEW c \in Cpus, SetNext(c)  PROVE DebtInv'
  BY <1>4, <1>n, DebtCall DEF SetNext
<1>5. ASSUME NEW c \in Cpus, SetCurr(c)  PROVE DebtInv'
  BY <1>5, <1>n, DebtCall DEF SetCurr
<1>6. ASSUME NEW c \in Cpus, Assign(c)  PROVE DebtInv'
  <2>1. Amount(c) \in Int /\ ~throttled[c]
    BY <1>6, <1>t DEF Assign, DebtInv, Amount, Least, BandwidthInv, BandwidthTypeOK
  <2> DEFINE r == remaining[c] + Amount(c)
             m == Rest(c, sched[c], r)
  <2>2. /\ remaining' = [remaining EXCEPT ![c] = r] /\ pc' = [pc EXCEPT ![c] = m]
        /\ UNCHANGED <<throttled, sched>>
    BY <1>6 DEF Assign
  <2>3. r \in Int /\ (m = "throttle" => r <= 0 /\ sched[c] # "running")
    BY <1>t, <2>1 DEF Rest
  <2> HIDE DEF r, m
  <2> QED BY <1>t, <2>1, <2>2, <2>3 DEF DebtInv
<1>7. ASSUME NEW c \in Cpus, Throttle(c)  PROVE DebtInv'
  BY <1>7, <1>t DEF Throttle, DebtInv
<1>8. ASSUME NEW c \in Cpus, Return(c)  PROVE DebtInv'
  <2>1. ~throttled[c]
    <3>1. remaining[c] > MinRuntime
      BY <1>8 DEF Return, BandwidthInv, CallsInv
    <3> QED BY <1>t, <3>1 DEF DebtInv
  <2> QED BY <1>8, <1>t, <2>1 DEF Return, DebtInv
<1>9. ASSUME NEW w \in Timers, WalkGive(w)  PROVE DebtInv'
  <2> DEFINE c == walk[w].at
             g == Unsigned(Needed(c), walk[w].left)
  <2>1. c \in Cpus /\ pc[c] = "idle" /\ UNCHANGED <<pc, sched>>
    BY <1>9 DEF WalkGive, BandwidthInv, WalkInv
  <2>2. walk[w].left \in Nat
    BY DEF BandwidthInv, BandwidthTypeOK, Walks
  <2>3. g \in Int
    BY <1>t, <2>1, <2>2 DEF Unsigned, Needed, Least
  <2>4. CASE ~throttled[c]
    BY <1>9, <2>1, <2>4 DEF WalkGive, DebtInv
  <2> HIDE DEF g
  <2>5. CASE throttled[c] /\ remaining[c] + g > 0
    <3>1. /\ remaining' = [remaining EXCEPT ![c] = @ + g]
          /\ throttled' = [throttled EXCEPT ![c] = FALSE]
      BY <1>9, <2>5 DEF WalkGive, Unthrottle, g
    <3> QED BY <1>t, <2>1, <2>3, <3>1 DEF DebtInv
  <2>6. CASE throttled[c] /\ ~(remaining[c] + g > 0)
    <3>1. remaining' = [remaining EXCEPT ![c] = @ + g] /\ throttled' = throttled
      BY <1>9, <2>6 DEF WalkGive, g
    <3> QED BY <1>t, <2>1, <2>3, <2>6, <3>1 DEF DebtInv
  <2> QED BY <2>4, <2>5, <2>6
<1>10. ASSUME NEW c \in Cpus, Offline(c)  PROVE DebtInv'
  <2>1. /\ pc[c] = "idle" /\ remaining' = [remaining EXCEPT ![c] = 1] /\ UNCHANGED <<pc, sched>>
        /\ throttled' = [throttled EXCEPT ![c] = FALSE]
    BY <1>10, <1>t DEF Offline, Unthrottle
  <2> QED BY <1>t, <2>1 DEF DebtInv
<1>11. ASSUME NEW c \in Cpus, Online(c)  PROVE DebtInv'
  BY <1>11 DEF Online, DebtInv
<1>12. ASSUME NEW w \in Timers, WalkStart(w) \/ WalkNext(w)  PROVE DebtInv'
  BY <1>12 DEF WalkStart, WalkNext, local, DebtInv
<1>13. CASE Elapse \/ PeriodBegin \/ PeriodEnd \/ SlackBegin \/ SlackEnd
  BY <1>13 DEF Elapse, PeriodBegin, PeriodEnd, SlackBegin, SlackEnd, local, DebtInv
<1>14. CASE UNCHANGED vars
  BY <1>14 DEF vars, local, DebtInv
<1> QED BY <1>1, <1>2, <1>3, <1>4, <1>5, <1>6, <1>7, <1>8, <1>9, <1>10, <1>11, <1>12, <1>13,
           <1>14 DEF Next

(* If no running task is requeued in a throttled cfs_rq (fair.c:8436-8447), what
   distribute_cfs_runtime() computes as a u64 is never negative: on any number of
   cpus a throttled cfs_rq is in debt (fair.c:3693, 3960). *)
THEOREM BandwidthDebt ==
  ASSUME ~Forced
  PROVE  Spec => []ThrottledInDebt
<1>1. Init => DebtInv
  BY DEF Init, DebtInv
<1>2. BandwidthInv /\ DebtInv /\ [Next]_vars => DebtInv'
  BY DebtStep
<1>3. DebtInv => ThrottledInDebt
  BY DEF DebtInv, ThrottledInDebt
<1> QED BY <1>1, <1>2, <1>3, BandwidthInvariant, PTL DEF Spec
----------------------------------------------------------------------------
\* The sum over the cpus.

Units(f, D) == UNION {{c} \X (1 .. f[c]) : c \in D}

LEMMA UnitsFinite ==
  ASSUME NEW D, IsFiniteSet(D), NEW f \in [D -> Nat]
  PROVE  IsFiniteSet(Units(f, D))
<1> DEFINE g == [c \in D |-> {c} \X (1 .. f[c])]
           T == {{c} \X (1 .. f[c]) : c \in D}
<1>1. g \in Surjection(D, T)
  BY DEF Surjection
<1>2. IsFiniteSet(T)
  BY <1>1, FS_Surjection
<1>3. ASSUME NEW c \in D  PROVE IsFiniteSet({c} \X (1 .. f[c]))
  <2>1. IsFiniteSet({c})
    BY FS_Singleton, Zenon
  <2>2. IsFiniteSet(1 .. f[c])
    <3>1. 1 \in Int /\ f[c] \in Int
      OBVIOUS
    <3> QED BY <3>1, FS_Interval
  <2> QED BY <2>1, <2>2, FS_Product
<1>4. \A t \in T : IsFiniteSet(t)
  BY <1>3
<1> HIDE DEF g, T
<1>5. IsFiniteSet(UNION T)
  BY <1>2, <1>4, FS_UNION
<1> QED BY <1>5 DEF Units, T

(* A sum of natural numbers is one. *)
LEMMA TotalType ==
  ASSUME NEW f \in [Cpus -> Nat]
  PROVE  Total(f) \in Nat
<1>1. IsFiniteSet(Units(f, Cpus))
  BY BandwidthAssumption, UnitsFinite
<1> QED BY <1>1, FS_CardinalityType DEF Total, Units

(* One term taken out of a sum leaves the sum of the others. *)
LEMMA TotalSplit ==
  ASSUME NEW f \in [Cpus -> Nat], NEW c \in Cpus
  PROVE  /\ Total(f) = f[c] + Cardinality(Units(f, Cpus \ {c}))
         /\ Cardinality(Units(f, Cpus \ {c})) \in Nat
<1> DEFINE U == Units(f, Cpus \ {c})
           V == {c} \X (1 .. f[c])
<1>1. IsFiniteSet(Units(f, Cpus))
  BY BandwidthAssumption, UnitsFinite
<1>2. Units(f, Cpus) = V \cup U /\ V \cap U = {} /\ U \in SUBSET Units(f, Cpus)
  BY DEF Units
<1>3. IsFiniteSet(U)
  BY <1>1, <1>2, FS_Subset
<1>4. IsFiniteSet(V) /\ Cardinality(V) = f[c]
  <2>1. IsFiniteSet({c}) /\ Cardinality({c}) = 1
    BY FS_Singleton, Zenon
  <2>2. IsFiniteSet(1 .. f[c]) /\ Cardinality(1 .. f[c]) = f[c]
    <3>1. 1 \in Int /\ f[c] \in Nat
      OBVIOUS
    <3> DEFINE n == f[c]
    <3> HIDE DEF n
    <3>2. IsFiniteSet(1 .. n) /\ Cardinality(1 .. n) = IF 1 > n THEN 0 ELSE n - 1 + 1
      BY <3>1, FS_Interval DEF n
    <3>3. n \in Nat
      BY <3>1 DEF n
    <3> QED BY <3>2, <3>3 DEF n
  <2>3. IsFiniteSet(V) /\ Cardinality(V) = Cardinality({c}) * Cardinality(1 .. f[c])
    BY <2>1, <2>2, FS_Product
  <2> QED BY <2>1, <2>2, <2>3
<1> HIDE DEF U, V
<1>5. Cardinality(U) \in Nat
  BY <1>3, FS_CardinalityType
<1>6. Cardinality(V \cup U) = Cardinality(V) + Cardinality(U)
  <2>1. Cardinality(V \cup U) = Cardinality(V) + Cardinality(U) - Cardinality(V \cap U)
    BY <1>3, <1>4, FS_Union
  <2>2. Cardinality(V \cap U) = 0
    BY <1>2, FS_EmptySet
  <2> QED BY <1>4, <1>5, <2>1, <2>2
<1>7. Total(f) = Cardinality(Units(f, Cpus))
  BY DEF Total, Units
<1> QED BY <1>2, <1>4, <1>5, <1>6, <1>7 DEF U

(* If all terms but one stay the same or fall, a sum changes by at most what that
   one does. *)
LEMMA TotalChange ==
  ASSUME NEW f \in [Cpus -> Nat], NEW g \in [Cpus -> Nat], NEW c \in Cpus,
         \A d \in Cpus \ {c} : g[d] <= f[d]
  PROVE  Total(g) + f[c] <= Total(f) + g[c]
<1>1. Units(g, Cpus \ {c}) \subseteq Units(f, Cpus \ {c})
  <2> SUFFICES ASSUME NEW d \in Cpus \ {c}, NEW i \in 1 .. g[d]
               PROVE  i \in 1 .. f[d]
    BY DEF Units
  <2> QED OBVIOUS
<1>2. IsFiniteSet(Units(f, Cpus \ {c}))
  <2>1. IsFiniteSet(Units(f, Cpus)) /\ Units(f, Cpus \ {c}) \subseteq Units(f, Cpus)
    BY BandwidthAssumption, UnitsFinite DEF Units
  <2> QED BY <2>1, FS_Subset
<1>3. Cardinality(Units(g, Cpus \ {c})) <= Cardinality(Units(f, Cpus \ {c}))
  BY <1>1, <1>2, FS_Subset
<1> QED BY <1>3, TotalSplit

(* A sum of terms that are no larger is no larger. *)
LEMMA TotalFalls ==
  ASSUME NEW f \in [Cpus -> Nat], NEW g \in [Cpus -> Nat], \A c \in Cpus : g[c] <= f[c]
  PROVE  Total(g) <= Total(f)
<1>1. Units(g, Cpus) \subseteq Units(f, Cpus)
  <2> SUFFICES ASSUME NEW d \in Cpus, NEW i \in 1 .. g[d]
               PROVE  i \in 1 .. f[d]
    BY DEF Units
  <2> QED OBVIOUS
<1>2. IsFiniteSet(Units(f, Cpus))
  BY BandwidthAssumption, UnitsFinite
<1> QED BY <1>1, <1>2, FS_Subset DEF Total, Units

LEMMA TotalZero ==
  ASSUME NEW f \in [Cpus -> Nat], \A c \in Cpus : f[c] = 0
  PROVE  Total(f) = 0
<1>1. Units(f, Cpus) = {}
  <2>1. \A c \in Cpus : 1 .. f[c] = {}
    OBVIOUS
  <2> QED BY <2>1 DEF Units
<1> QED BY <1>1, FS_EmptySet DEF Total, Units
----------------------------------------------------------------------------
\* The pool and what may be returned to it.

(* A cpu that is offline holds no more than it will keep when it is back, and is
   in no call. *)
OfflineInv ==
  \A c \in Cpus :
    ~enabled[c] => remaining[c] <= MinRuntime /\ ~throttled[c] /\ pc[c] = "idle"

PoolInv == BandwidthInv /\ DebtInv /\ OfflineInv /\ PoolWithinQuota

spare == [c \in Cpus |-> Spare(c)]

(* A step that leaves on one cpu and in the pool together no more than before, and
   on the other cpus no more. *)
LEMMA PoolMoves ==
  ASSUME BandwidthTypeOK, BandwidthTypeOK', PoolWithinQuota, NEW c \in Cpus,
         \A d \in Cpus \ {c} : Spare(d)' <= Spare(d),
         runtime' + Spare(c)' <= runtime + Spare(c)
  PROVE  PoolWithinQuota'
<1>1. spare \in [Cpus -> Nat] /\ spare' \in [Cpus -> Nat]
  BY BandwidthAssumption DEF BandwidthTypeOK, spare, Spare
<1>2. \A d \in Cpus : spare[d] = Spare(d) /\ spare'[d] = Spare(d)'
  BY DEF spare
<1>3. Total(spare') + spare[c] <= Total(spare) + spare'[c]
  BY <1>1, <1>2, TotalChange
<1>4. Total(spare) \in Nat /\ Total(spare') \in Nat
  BY <1>1, TotalType
<1>5. runtime + Total(spare) <= Quota
  BY DEF PoolWithinQuota, spare
<1>6. runtime \in Nat /\ runtime' \in Nat /\ Quota \in Nat
  BY BandwidthAssumption DEF BandwidthTypeOK
<1>7. runtime' + Total(spare') <= Quota
  BY <1>1, <1>2, <1>3, <1>4, <1>5, <1>6
<1> QED BY <1>7 DEF PoolWithinQuota, spare

(* A step that leaves no more in the pool and no more on any cpu. *)
LEMMA PoolFalls ==
  ASSUME BandwidthTypeOK, BandwidthTypeOK', PoolWithinQuota,
         runtime' <= runtime, \A d \in Cpus : Spare(d)' <= Spare(d)
  PROVE  PoolWithinQuota'
<1>1. spare \in [Cpus -> Nat] /\ spare' \in [Cpus -> Nat]
  BY BandwidthAssumption DEF BandwidthTypeOK, spare, Spare
<1>2. \A d \in Cpus : spare[d] = Spare(d) /\ spare'[d] = Spare(d)'
  BY DEF spare
<1>3. Total(spare') <= Total(spare)
  BY <1>1, <1>2, TotalFalls
<1>4. Total(spare) \in Nat /\ Total(spare') \in Nat
  BY <1>1, TotalType
<1>5. runtime + Total(spare) <= Quota
  BY DEF PoolWithinQuota, spare
<1>6. runtime \in Nat /\ runtime' \in Nat /\ Quota \in Nat
  BY BandwidthAssumption DEF BandwidthTypeOK
<1>7. runtime' + Total(spare') <= Quota
  BY <1>3, <1>4, <1>5, <1>6
<1> QED BY <1>7 DEF PoolWithinQuota, spare


(* What happens under rq->lock of an offline cpu charges nothing. *)
LEMMA OfflineKept ==
  ASSUME BandwidthInv, OfflineInv, [Next]_vars
  PROVE  OfflineInv'
<1> USE BandwidthAssumption
<1>t. /\ remaining \in [Cpus -> Int] /\ pc \in [Cpus -> {"idle", "assign", "throttle", "return"}]
      /\ throttled \in [Cpus -> BOOLEAN] /\ enabled \in [Cpus -> BOOLEAN]
  BY DEF BandwidthInv, BandwidthTypeOK
<1>c. ASSUME NEW c \in Cpus, NEW d \in Nat, NEW mode \in {"empty", "queued", "running"},
             NEW charged \in BOOLEAN, Call(c, mode, charged, d)
      PROVE  OfflineInv'
  <2>1. CASE charged /\ enabled[c]
    <3>1. /\ remaining' \in [Cpus -> Int] /\ UNCHANGED <<throttled, enabled>>
          /\ \A e \in Cpus \ {c} : remaining'[e] = remaining[e] /\ pc'[e] = pc[e]
      BY <1>t, <1>c, <2>1 DEF Call, Charge
    <3> QED BY <2>1, <3>1 DEF OfflineInv
  <2>2. CASE ~(charged /\ enabled[c])
    BY <1>t, <1>c, <2>2 DEF Call, OfflineInv
  <2> QED BY <2>1, <2>2
<1>n. 0 \in Nat /\ 0 .. MaxDelta \subseteq Nat
  OBVIOUS
<1>1. ASSUME NEW c \in Cpus, NEW d \in 0 .. MaxDelta, Tick(c, d) \/ Put(c, d) \/ Leave(c, d)
      PROVE  OfflineInv'
  BY <1>1, <1>n, <1>c DEF Tick, Put, Leave
<1>2. ASSUME NEW c \in Cpus, TakeLast(c) \/ Enqueue(c) \/ SetNext(c) \/ SetCurr(c)
      PROVE  OfflineInv'
  <2>1. (~throttled[c]) \in BOOLEAN
    BY <1>t
  <2> QED BY <1>2, <1>n, <1>c, <2>1 DEF TakeLast, Enqueue, SetNext, SetCurr
<1>3. ASSUME NEW c \in Cpus, Assign(c) \/ Throttle(c) \/ Return(c)  PROVE OfflineInv'
  <2>1. enabled[c] /\ UNCHANGED enabled
    BY <1>3 DEF Assign, Throttle, Return, OfflineInv
  <2>2. \A e \in Cpus \ {c} : /\ remaining'[e] = remaining[e] /\ pc'[e] = pc[e]
                              /\ throttled'[e] = throttled[e]
    BY <1>3, <1>t DEF Assign, Throttle, Return
  <2> QED BY <2>1, <2>2 DEF OfflineInv
<1>4. ASSUME NEW w \in Timers, WalkGive(w)  PROVE OfflineInv'
  <2> DEFINE c == walk[w].at
  <2>1. c \in Cpus /\ UNCHANGED <<pc, enabled>>
    BY <1>4 DEF WalkGive, BandwidthInv, WalkInv
  <2>2. CASE throttled[c]
    <3>1. enabled[c]
      BY <2>1, <2>2 DEF OfflineInv
    <3>2. \A e \in Cpus \ {c} : remaining'[e] = remaining[e] /\ throttled'[e] = throttled[e]
      BY <1>4, <1>t, <2>1 DEF WalkGive, Unthrottle
    <3> QED BY <2>1, <3>1, <3>2 DEF OfflineInv
  <2>3. CASE ~throttled[c]
    BY <1>4, <2>1, <2>3 DEF WalkGive, OfflineInv
  <2> QED BY <2>2, <2>3
<1>5. ASSUME NEW c \in Cpus, Offline(c)  PROVE OfflineInv'
  <2>1. /\ pc[c] = "idle" /\ remaining' = [remaining EXCEPT ![c] = 1] /\ pc' = pc
        /\ enabled' = [enabled EXCEPT ![c] = FALSE]
        /\ throttled' = [throttled EXCEPT ![c] = FALSE]
    BY <1>5, <1>t DEF Offline, Unthrottle
  <2> QED BY <1>t, <2>1 DEF OfflineInv
<1>6. ASSUME NEW c \in Cpus, Online(c)  PROVE OfflineInv'
  BY <1>6, <1>t DEF Online, OfflineInv
<1>7. ASSUME NEW w \in Timers, WalkStart(w) \/ WalkNext(w)  PROVE OfflineInv'
  BY <1>7 DEF WalkStart, WalkNext, local, OfflineInv
<1>8. CASE Elapse \/ PeriodBegin \/ PeriodEnd \/ SlackBegin \/ SlackEnd
  BY <1>8 DEF Elapse, PeriodBegin, PeriodEnd, SlackBegin, SlackEnd, local, OfflineInv
<1>9. CASE UNCHANGED vars
  BY <1>9 DEF vars, local, OfflineInv
<1> QED BY <1>1, <1>2, <1>3, <1>4, <1>5, <1>6, <1>7, <1>8, <1>9 DEF Next

(* Charging takes, and never adds; what is left of a passed deadline is dropped. *)
LEMMA PoolCall ==
  ASSUME BandwidthInv, BandwidthTypeOK', PoolWithinQuota, NEW c \in Cpus, NEW d \in Nat,
         NEW mode \in {"empty", "queued", "running"}, NEW charged \in BOOLEAN,
         Call(c, mode, charged, d)
  PROVE  PoolWithinQuota'
<1>1. UNCHANGED <<runtime, enabled, current>>
  BY DEF Call, group
<1>2. /\ remaining \in [Cpus -> Int] /\ remaining' \in [Cpus -> Int] /\ runtime \in Nat
      /\ BandwidthTypeOK
  BY DEF BandwidthInv, BandwidthTypeOK
<1>3. \A e \in Cpus : remaining'[e] <= remaining[e] \/ remaining'[e] <= 0
  <2>1. CASE charged /\ enabled[c]
    BY <1>2, <2>1 DEF Call, Charge
  <2>2. CASE ~(charged /\ enabled[c])
    BY <1>2, <2>2 DEF Call
  <2> QED BY <2>1, <2>2
<1>4. \A e \in Cpus : Spare(e)' <= Spare(e)
  BY <1>1, <1>2, <1>3, BandwidthAssumption DEF Spare
<1> QED BY <1>1, <1>2, <1>4, PoolFalls

(* A slice comes out of the pool before it can be spare. *)
LEMMA PoolAssign ==
  ASSUME BandwidthInv, BandwidthTypeOK', PoolWithinQuota, NEW c \in Cpus, Assign(c)
  PROVE  PoolWithinQuota'
<1> USE BandwidthAssumption
<1>1. /\ remaining \in [Cpus -> Int] /\ runtime \in Nat /\ remaining[c] <= 0
      /\ current \in [Cpus -> BOOLEAN] /\ BandwidthTypeOK
  BY DEF Assign, BandwidthInv, BandwidthTypeOK, CallsInv
<1>2. Amount(c) \in Nat
  BY <1>1 DEF Amount, Least
<1>3. /\ runtime' = runtime - Amount(c)
      /\ remaining' = [remaining EXCEPT ![c] = @ + Amount(c)]
      /\ current' = [current EXCEPT ![c] = c \notin ahead] /\ enabled' = enabled
  BY DEF Assign
<1>4. \A e \in Cpus \ {c} : Spare(e)' <= Spare(e)
  BY <1>1, <1>3 DEF Spare
<1>5. Spare(c) = 0 /\ Spare(c)' <= Amount(c) /\ Spare(c)' \in Nat
  BY <1>1, <1>2, <1>3 DEF Spare
<1>6. runtime' + Spare(c)' <= runtime + Spare(c)
  BY <1>1, <1>2, <1>3, <1>5
<1> QED BY <1>1, <1>4, <1>6, PoolMoves

(* What is returned was spare, and is no longer: if it is of an earlier period it
   was not spare and is not returned either. *)
LEMMA PoolReturn ==
  ASSUME BandwidthInv, BandwidthTypeOK', PoolWithinQuota, OfflineInv, NEW c \in Cpus, Return(c)
  PROVE  PoolWithinQuota'
<1> USE BandwidthAssumption
<1>1. /\ remaining \in [Cpus -> Int] /\ runtime \in Nat /\ remaining[c] > MinRuntime
      /\ BandwidthTypeOK
  BY DEF Return, BandwidthInv, BandwidthTypeOK, CallsInv
<1>2. enabled[c]
  BY DEF Return, OfflineInv
<1>3. /\ remaining' = [remaining EXCEPT ![c] = MinRuntime]
      /\ UNCHANGED <<current, enabled>>
      /\ runtime' = IF current[c] THEN runtime + (remaining[c] - MinRuntime) ELSE runtime
  BY DEF Return, Valid
<1>4. \A e \in Cpus \ {c} : Spare(e)' <= Spare(e)
  BY <1>1, <1>3 DEF Spare
<1>5. Spare(c)' = 0 /\ Spare(c) = IF current[c] THEN remaining[c] - MinRuntime ELSE 0
  BY <1>1, <1>2, <1>3 DEF Spare
<1>6. runtime' + Spare(c)' <= runtime + Spare(c)
  BY <1>1, <1>3, <1>5
<1> QED BY <1>1, <1>4, <1>6, PoolMoves

(* A refill makes what the cpus hold runtime of an earlier period. *)
LEMMA PoolRefill ==
  ASSUME BandwidthInv, BandwidthTypeOK', PoolWithinQuota, PeriodBegin
  PROVE  PoolWithinQuota'
<1>1. BandwidthTypeOK /\ runtime \in Nat
  BY DEF BandwidthInv, BandwidthTypeOK
<1>2. CASE NothingHappens
  <2>1. UNCHANGED <<runtime, current, remaining, enabled>>
    BY <1>2 DEF PeriodBegin
  <2> QED BY <2>1 DEF PoolWithinQuota, Spare
<1>3. CASE ~NothingHappens
  <2>1. runtime' = Quota /\ current' = [e \in Cpus |-> FALSE]
    BY <1>3 DEF PeriodBegin
  <2>2. \A e \in Cpus : Spare(e)' = 0
    BY <2>1 DEF Spare
  <2>3. spare' \in [Cpus -> Nat] /\ \A e \in Cpus : spare'[e] = 0
    BY <2>2 DEF spare
  <2>4. Total(spare') = 0
    BY <2>3, TotalZero
  <2>5. runtime' + Total(spare') <= Quota
    BY <2>1, <2>4, BandwidthAssumption
  <2> QED BY <2>5 DEF PoolWithinQuota, spare
<1> QED BY <1>2, <1>3

(* A walk gives a cfs_rq in debt no more than lets it run, which is never spare. *)
LEMMA PoolGive ==
  ASSUME BandwidthInv, BandwidthTypeOK', DebtInv, PoolWithinQuota,
         NEW w \in Timers, WalkGive(w)
  PROVE  PoolWithinQuota'
<1> USE BandwidthAssumption
<1> DEFINE c == walk[w].at
           g == Unsigned(Needed(c), walk[w].left)
<1>1. /\ BandwidthTypeOK /\ c \in Cpus /\ remaining \in [Cpus -> Int] /\ runtime \in Nat
      /\ current \in [Cpus -> BOOLEAN] /\ walk[w].left \in Nat
  BY DEF WalkGive, BandwidthInv, BandwidthTypeOK, WalkInv, Walks
<1>2. UNCHANGED <<runtime, enabled>>
  BY DEF WalkGive
<1>3. CASE throttled[c]
  <2>1. remaining[c] <= 0
    BY <1>1, <1>3 DEF DebtInv
  <2>2. g \in Nat /\ remaining[c] + g <= 1
    BY <1>1, <2>1 DEF Unsigned, Needed, Least
  <2>3. /\ remaining' = [remaining EXCEPT ![c] = @ + g]
        /\ current' = [current EXCEPT ![c] = walk[w].current]
    BY <1>3 DEF WalkGive
  <2> HIDE DEF g
  <2>4. \A e \in Cpus : Spare(e)' <= Spare(e)
    BY <1>1, <1>2, <2>2, <2>3 DEF Spare
  <2> QED BY <1>1, <1>2, <2>4, PoolFalls
<1>4. CASE ~throttled[c]
  <2>1. UNCHANGED <<remaining, current>>
    BY <1>4 DEF WalkGive
  <2> QED BY <1>2, <2>1 DEF PoolWithinQuota, Spare
<1> QED BY <1>3, <1>4

LEMMA PoolStep ==
  ASSUME ~Forced, PoolInv, [Next]_vars
  PROVE  PoolInv'
<1> USE BandwidthAssumption
<1>t. /\ BandwidthInv /\ DebtInv /\ OfflineInv /\ PoolWithinQuota /\ BandwidthTypeOK
      /\ remaining \in [Cpus -> Int] /\ throttled \in [Cpus -> BOOLEAN] /\ runtime \in Nat
      /\ enabled \in [Cpus -> BOOLEAN]
  BY DEF PoolInv, BandwidthInv, BandwidthTypeOK
<1>i. BandwidthInv' /\ BandwidthTypeOK' /\ DebtInv' /\ OfflineInv'
  <2>1. BandwidthInv' /\ DebtInv' /\ OfflineInv'
    BY <1>t, StepInv, DebtStep, OfflineKept
  <2> QED BY <2>1 DEF BandwidthInv
<1> SUFFICES PoolWithinQuota'
  BY <1>i DEF PoolInv
<1>n. 0 \in Nat /\ 0 .. MaxDelta \subseteq Nat
  OBVIOUS
<1>1. ASSUME NEW c \in Cpus, NEW d \in 0 .. MaxDelta, Tick(c, d) \/ Put(c, d) \/ Leave(c, d)
      PROVE  PoolWithinQuota'
  BY <1>1, <1>t, <1>i, <1>n, PoolCall DEF Tick, Put, Leave
<1>2. ASSUME NEW c \in Cpus, TakeLast(c) \/ Enqueue(c) \/ SetNext(c) \/ SetCurr(c)
      PROVE  PoolWithinQuota'
  <2>1. (~throttled[c]) \in BOOLEAN
    BY <1>t
  <2> QED BY <1>2, <1>t, <1>i, <1>n, <2>1, PoolCall DEF TakeLast, Enqueue, SetNext, SetCurr
<1>3. ASSUME NEW c \in Cpus, Assign(c) \/ Return(c)  PROVE PoolWithinQuota'
  BY <1>3, <1>t, <1>i, PoolAssign, PoolReturn
<1>4. ASSUME NEW c \in Cpus, Throttle(c)  PROVE PoolWithinQuota'
  <2>1. UNCHANGED <<runtime, remaining, current, enabled>>
    BY <1>4 DEF Throttle
  <2> QED BY <1>t, <2>1 DEF PoolWithinQuota, Spare
<1>5. ASSUME NEW c \in Cpus, Offline(c)  PROVE PoolWithinQuota'
  <2>1. /\ runtime' = runtime /\ enabled' = [enabled EXCEPT ![c] = FALSE]
        /\ remaining' = [remaining EXCEPT ![c] = 1] /\ current' = current
    BY <1>5 DEF Offline
  <2>2. \A e \in Cpus : Spare(e)' <= Spare(e)
    BY <1>t, <2>1 DEF Spare
  <2> QED BY <1>t, <1>i, <2>1, <2>2, PoolFalls
<1>6. ASSUME NEW c \in Cpus, Online(c)  PROVE PoolWithinQuota'
  <2>1. /\ runtime' = runtime /\ enabled' = [enabled EXCEPT ![c] = TRUE]
        /\ remaining' = remaining /\ current' = current /\ remaining[c] <= MinRuntime
    BY <1>6, <1>t DEF Online, group, OfflineInv
  <2>2. \A e \in Cpus : Spare(e)' <= Spare(e)
    BY <1>t, <2>1 DEF Spare
  <2> QED BY <1>t, <1>i, <2>1, <2>2, PoolFalls
<1>7. ASSUME NEW w \in Timers, WalkGive(w)  PROVE PoolWithinQuota'
  BY <1>7, <1>t, <1>i, PoolGive
<1>8. ASSUME NEW w \in Timers, WalkStart(w) \/ WalkNext(w)  PROVE PoolWithinQuota'
  <2>1. UNCHANGED <<runtime, remaining, current, enabled>>
    BY <1>8 DEF WalkStart, WalkNext, local, group
  <2> QED BY <1>t, <2>1 DEF PoolWithinQuota, Spare
<1>9. CASE PeriodBegin
  BY <1>9, <1>t, <1>i, PoolRefill
<1>10. CASE PeriodEnd \/ SlackEnd
  <2>1. UNCHANGED <<remaining, current, enabled>>
    BY <1>10 DEF PeriodEnd, SlackEnd, local
  <2>2. \A v \in Timers : walk[v].given \in Nat
    BY <1>t DEF BandwidthTypeOK, Walks
  <2>3. runtime' <= runtime
    BY <1>10, <1>t, <2>2 DEF PeriodEnd, SlackEnd, Least, Timers
  <2>4. \A e \in Cpus : Spare(e)' <= Spare(e)
    BY <1>t, <2>1 DEF Spare
  <2> QED BY <1>t, <1>i, <2>3, <2>4, PoolFalls
<1>11. CASE Elapse \/ SlackBegin \/ UNCHANGED vars
  <2>1. UNCHANGED <<runtime, remaining, current, enabled>>
    BY <1>11 DEF Elapse, SlackBegin, vars, local, group
  <2> QED BY <1>t, <2>1 DEF PoolWithinQuota, Spare
<1>12. ASSUME NEW c \in Hotplug, Offline(c) \/ Online(c)  PROVE PoolWithinQuota'
  BY <1>12, <1>5, <1>6
<1> QED BY <1>1, <1>2, <1>3, <1>4, <1>7, <1>8, <1>9, <1>10, <1>11, <1>12 DEF Next

LEMMA PoolInit == Init => PoolInv
<1> SUFFICES ASSUME Init  PROVE PoolInv
  OBVIOUS
<1>1. DebtInv /\ OfflineInv
  BY DEF Init, DebtInv, OfflineInv
<1>2. spare \in [Cpus -> Nat] /\ \A e \in Cpus : spare[e] = 0
  BY DEF Init, spare, Spare
<1>3. Total(spare) = 0
  BY <1>2, TotalZero
<1>4. runtime + Total(spare) <= Quota
  BY <1>3, BandwidthAssumption DEF Init
<1>5. PoolWithinQuota
  BY <1>4 DEF PoolWithinQuota, spare
<1> QED BY <1>1, <1>5, InitInv DEF PoolInv

(* If no running task is requeued in a throttled cfs_rq, the pool and what any
   number of cpus may still return to it stay within the quota, whichever order
   refills, walks, slices, returns and hotplug come in (fair.c:3984-4052,
   4104-4127). *)
THEOREM BandwidthPool ==
  ASSUME ~Forced
  PROVE  Spec => []PoolWithinQuota
<1>1. PoolInv /\ [Next]_vars => PoolInv'
  BY PoolStep
<1>2. PoolInv => PoolWithinQuota
  BY DEF PoolInv
<1> QED BY <1>1, <1>2, PoolInit, PTL DEF Spec
=============================================================================
