-------------------------- MODULE ScullAccessProofs --------------------------
(***************************************************************************)
(* Theorems about ScullAccess for any finite set of processes, any users   *)
(* and ttys, and any choice of who may be interrupted or must not block.   *)
(***************************************************************************)
EXTENDS ScullAccess, FiniteSetTheorems, SequenceTheorems, TLAPS

(* A process stands only where the open() or release() of the device it has
   named can take it. *)
FilesInv ==
  \A p \in Procs :
    /\ pc[p] = "closed" => which[p] = "none"
    /\ pc[p] \in {"s_dec", "s_undo"} => which[p] = "single"
    /\ pc[p] = "u_open" => which[p] = "uid"
    /\ pc[p] \in {"w_lock", "w_check", "w_count", "w_peek", "w_peek_owner",
                  "w_prepare", "w_test", "w_test_owner", "w_sleep",
                  "w_release", "w_wake"} => which[p] = "wuid"
    /\ pc[p] \in {"c_lock", "c_look", "c_alloc"} => which[p] = "priv"

(* The two spinlocks are held by exactly who is in their sections. *)
LocksInv ==
  \A p \in Procs :
    /\ pc[p] \in {"w_check", "w_count", "w_release"} <=> scull_w_lock = p
    /\ pc[p] \in {"c_look", "c_alloc"} <=> scull_c_lock = p

(* What a process found out under a lock still holds while it has the lock. *)
ClaimsInv ==
  \A p \in Procs :
    /\ pc[p] = "w_count" => Allowed(p, scull_w_owner)
    /\ pc[p] = "c_alloc" => Places(p) = {}

(* The invariant that every step keeps. *)
AccessInv ==
  /\ TypeOK /\ FilesInv /\ LocksInv /\ ClaimsInv
  /\ SingleOpen /\ OneUser /\ OneClonePerTty

(* Only p moves. *)
Others(p) ==
  \A q \in Procs \ {p} : /\ pc'[q] = pc[q] /\ which'[q] = which[q]
                         /\ clone'[q] = clone[q]

----------------------------------------------------------------------------
\* Counting.

(* The number of holders changes by what p does. *)
LEMMA HoldersCount ==
  ASSUME NEW p \in Procs, Others(p), NEW k
  PROVE  /\ Cardinality(Holders(k)) \in Nat
         /\ Cardinality(Holders(k)) = 0 => Holders(k) = {}
         /\ p \in Holders(k) => Cardinality(Holders(k)) > 0
         /\ (p \in Holders(k)' <=> p \in Holders(k)) => Holders(k)' = Holders(k)
         /\ p \in Holders(k)' /\ p \notin Holders(k)
              => Cardinality(Holders(k)') = Cardinality(Holders(k)) + 1
         /\ p \notin Holders(k)' /\ p \in Holders(k)
              => Cardinality(Holders(k)') = Cardinality(Holders(k)) - 1
<1>1. IsFiniteSet(Holders(k))
  BY AccessAssumption, FS_Subset, Holders(k) \in SUBSET Procs DEF Holders
<1>2. \A q \in Procs \ {p} : q \in Holders(k)' <=> q \in Holders(k)
  BY DEF Holders, Others
<1>3. Holders(k) \subseteq Procs /\ Holders(k)' \subseteq Procs
  BY DEF Holders
<1>4. CASE p \in Holders(k)' <=> p \in Holders(k)
  <2>1. Holders(k)' = Holders(k)
    BY <1>2, <1>3, <1>4
  <2> QED BY <1>1, <1>4, <2>1, FS_CardinalityType, FS_EmptySet
<1>5. CASE p \in Holders(k)' /\ p \notin Holders(k)
  <2>1. Holders(k)' = Holders(k) \cup {p}
    BY <1>2, <1>3, <1>5
  <2> QED BY <1>1, <1>5, <2>1, FS_CardinalityType, FS_EmptySet, FS_AddElement
<1>6. CASE p \notin Holders(k)' /\ p \in Holders(k)
  <2>1. Holders(k)' = Holders(k) \ {p}
    BY <1>2, <1>3, <1>6
  <2> QED BY <1>1, <1>6, <2>1, FS_CardinalityType, FS_EmptySet, FS_RemoveElement
<1> QED BY <1>4, <1>5, <1>6

(* So does the number of the failing opens of scullsingle. *)
LEMMA UndoingCount ==
  ASSUME NEW p \in Procs, Others(p)
  PROVE  /\ Cardinality(Undoing) \in Nat
         /\ (p \in Undoing' <=> p \in Undoing) => Undoing' = Undoing
         /\ p \in Undoing' /\ p \notin Undoing
              => Cardinality(Undoing') = Cardinality(Undoing) + 1
         /\ p \notin Undoing' /\ p \in Undoing
              => Cardinality(Undoing') = Cardinality(Undoing) - 1
<1>1. IsFiniteSet(Undoing)
  BY AccessAssumption, FS_Subset, Undoing \in SUBSET Procs DEF Undoing
<1>2. \A q \in Procs \ {p} : q \in Undoing' <=> q \in Undoing
  BY DEF Undoing, Others
<1>3. Undoing \subseteq Procs /\ Undoing' \subseteq Procs
  BY DEF Undoing
<1>4. CASE p \in Undoing' <=> p \in Undoing
  <2>1. Undoing' = Undoing
    BY <1>2, <1>3, <1>4
  <2> QED BY <1>1, <1>4, <2>1, FS_CardinalityType
<1>5. CASE p \in Undoing' /\ p \notin Undoing
  <2>1. Undoing' = Undoing \cup {p}
    BY <1>2, <1>3, <1>5
  <2> QED BY <1>1, <1>5, <2>1, FS_CardinalityType, FS_AddElement
<1>6. CASE p \notin Undoing' /\ p \in Undoing
  <2>1. Undoing' = Undoing \ {p}
    BY <1>2, <1>3, <1>6
  <2> QED BY <1>1, <1>6, <2>1, FS_CardinalityType, FS_RemoveElement
<1> QED BY <1>4, <1>5, <1>6

(* The part of the invariant that each process can see to by itself. *)
LocalInv == TypeOK /\ FilesInv /\ LocksInv /\ ClaimsInv

(* A step of p that leaves the device as it was, and p a holder of it or not,
   keeps what is said of the device. *)
SameSingle(p) ==
  /\ scull_s_available' = scull_s_available
  /\ p \in Holders("single")' <=> p \in Holders("single")
  /\ p \in Undoing' <=> p \in Undoing

SameUsers(p) ==
  /\ UNCHANGED <<scull_u_count, scull_u_owner, scull_w_count, scull_w_owner>>
  /\ \A k \in {"uid", "wuid"} : p \in Holders(k)' <=> p \in Holders(k)

SameClones(p) ==
  /\ scull_c_list' = scull_c_list
  /\ p \in Holders("priv")' => p \in Holders("priv") /\ clone'[p] = clone[p]

Quiet(p) == Others(p) /\ SameSingle(p) /\ SameUsers(p) /\ SameClones(p)

LEMMA Settled ==
  ASSUME AccessInv, NEW p \in Procs, Others(p)
  PROVE  /\ SameSingle(p) => SingleOpen'
         /\ SameUsers(p) => OneUser'
         /\ SameClones(p) => OneClonePerTty'
<1>1. ASSUME SameSingle(p)  PROVE SingleOpen'
  <2>1. Holders("single")' = Holders("single") /\ Undoing' = Undoing
    BY <1>1, HoldersCount, UndoingCount DEF SameSingle
  <2> QED BY <1>1, <2>1 DEF SameSingle, AccessInv, SingleOpen
<1>2. ASSUME SameUsers(p)  PROVE OneUser'
  <2>1. \A k \in {"uid", "wuid"} : Holders(k)' = Holders(k)
    BY <1>2, HoldersCount DEF SameUsers
  <2> QED BY <1>2, <2>1 DEF SameUsers, AccessInv, OneUser, Allowed
<1>3. ASSUME SameClones(p)  PROVE OneClonePerTty'
  <2>1. \A q \in Holders("priv")' : q \in Holders("priv") /\ clone'[q] = clone[q]
    BY <1>3 DEF SameClones, Holders, Others
  <2> QED BY <1>3, <2>1 DEF SameClones, AccessInv, OneClonePerTty
<1> QED BY <1>1, <1>2, <1>3

LEMMA QuietInv ==
  ASSUME AccessInv, NEW p \in Procs, Quiet(p), LocalInv'
  PROVE  AccessInv'
BY Settled DEF AccessInv, LocalInv, Quiet

----------------------------------------------------------------------------
\* The initial states, and each action.

LEMMA InitInv == Init => AccessInv
<1> SUFFICES ASSUME Init PROVE AccessInv
  OBVIOUS
<1> USE AccessAssumption DEF Init
<1>1. TypeOK
  <2>1. scull_c_list \in Seq({tty[p] : p \in Procs})
    BY EmptySeq
  <2>2. Len(scull_c_list) = 0
    OBVIOUS
  <2> QED BY <2>1, <2>2 DEF TypeOK, PCs
<1>2. FilesInv /\ LocksInv /\ ClaimsInv
  BY DEF FilesInv, LocksInv, ClaimsInv
<1>3. \A k : Holders(k) = {}
  BY DEF Holders
<1>4. Undoing = {}
  BY DEF Undoing
<1>5. Cardinality(Undoing) = 0 /\ \A k : Cardinality(Holders(k)) = 0
  BY <1>3, <1>4, FS_EmptySet
<1>6. SingleOpen /\ OneUser
  BY <1>3, <1>5 DEF SingleOpen, OneUser
<1>7. OneClonePerTty
  BY <1>3 DEF OneClonePerTty
<1> QED BY <1>1, <1>2, <1>6, <1>7 DEF AccessInv

(* The calls, the trims, the signals and the refusals: nothing is counted. *)
LEMMA QuietStep ==
  ASSUME AccessInv, NEW p \in Procs,
         \/ \E k \in Kinds[p], w \in BOOLEAN : OpenCall(p, k, w)
         \/ Trim(p) \/ Signal(p) \/ URefuse(p)
  PROVE  AccessInv'
<1> USE AccessAssumption DEF AccessInv, TypeOK, PCs, LocalInv, FilesInv, LocksInv, ClaimsInv,
        Goto, Gone, Granted, Allowed, Places, Others, single, user, wuser, cloned, file
<1>1. ASSUME NEW k \in Kinds[p], NEW w \in BOOLEAN, OpenCall(p, k, w)
      PROVE  LocalInv' /\ Quiet(p)
  BY <1>1 DEF OpenCall, FirstStep, Quiet, SameSingle, SameUsers, SameClones,
         Holders, Undoing
<1>2. ASSUME Trim(p)  PROVE LocalInv' /\ Quiet(p)
  BY <1>2 DEF Trim, Quiet, SameSingle, SameUsers, SameClones,
         Holders, Undoing
<1>3. ASSUME Signal(p)  PROVE LocalInv' /\ Quiet(p)
  BY <1>3 DEF Signal, Quiet, SameSingle, SameUsers, SameClones,
         Holders, Undoing
<1>4. ASSUME URefuse(p)  PROVE LocalInv' /\ Quiet(p)
  BY <1>4 DEF URefuse, Quiet, SameSingle, SameUsers, SameClones,
         Holders, Undoing
<1> HIDE DEF AccessInv, TypeOK, FilesInv, LocksInv, ClaimsInv, LocalInv, Others
<1> QED BY <1>1, <1>2, <1>3, <1>4, QuietInv

(* The loop of scull_w_open(), up to the decision. *)
LEMMA WaitStep ==
  ASSUME AccessInv, NEW p \in Procs,
         \/ WLock(p) \/ WAgain(p) \/ WBusy(p) \/ WPeek(p)
         \/ WPeekOwner(p) \/ WPrepare(p) \/ WTestFree(p) \/ WTestCount(p)
         \/ WTestOwner(p) \/ WSleep(p) \/ WSignalled(p) \/ WAwake(p)
         \/ WReleaseLock(p) \/ WWake(p)
  PROVE  AccessInv'
<1> USE AccessAssumption DEF AccessInv, TypeOK, PCs, LocalInv, FilesInv, LocksInv, ClaimsInv,
        Goto, Gone, Granted, Allowed, Places, Others, single, user, wuser, cloned, file
<1>1. ASSUME WLock(p)  PROVE LocalInv' /\ Quiet(p)
  BY <1>1 DEF WLock, Quiet, SameSingle, SameUsers, SameClones,
         Holders, Undoing
<1>2. ASSUME WAgain(p)  PROVE LocalInv' /\ Quiet(p)
  BY <1>2 DEF WAgain, Quiet, SameSingle, SameUsers, SameClones,
         Holders, Undoing
<1>3. ASSUME WBusy(p)  PROVE LocalInv' /\ Quiet(p)
  BY <1>3 DEF WBusy, Quiet, SameSingle, SameUsers, SameClones,
         Holders, Undoing
<1>4. ASSUME WPeek(p)  PROVE LocalInv' /\ Quiet(p)
  BY <1>4 DEF WPeek, WWait, Quiet, SameSingle, SameUsers, SameClones,
         Holders, Undoing
<1>5. ASSUME WPeekOwner(p)  PROVE LocalInv' /\ Quiet(p)
  BY <1>5 DEF WPeekOwner, WWait, Quiet, SameSingle, SameUsers, SameClones,
         Holders, Undoing
<1>6. ASSUME WPrepare(p)  PROVE LocalInv' /\ Quiet(p)
  BY <1>6 DEF WPrepare, WWait, Quiet, SameSingle, SameUsers, SameClones,
         Holders, Undoing
<1>7. ASSUME WTestFree(p)  PROVE LocalInv' /\ Quiet(p)
  BY <1>7 DEF WTestFree, WLeave, WWait, Quiet, SameSingle, SameUsers, SameClones,
         Holders, Undoing
<1>8. ASSUME WTestCount(p)  PROVE LocalInv' /\ Quiet(p)
  BY <1>8 DEF WTestCount, WWait, Quiet, SameSingle, SameUsers, SameClones,
         Holders, Undoing
<1>9. ASSUME WTestOwner(p)  PROVE LocalInv' /\ Quiet(p)
  BY <1>9 DEF WTestOwner, WLeave, WWait, Quiet, SameSingle, SameUsers, SameClones,
         Holders, Undoing
<1>10. ASSUME WSleep(p)  PROVE LocalInv' /\ Quiet(p)
  BY <1>10 DEF WSleep, WWait, Quiet, SameSingle, SameUsers, SameClones,
         Holders, Undoing
<1>11. ASSUME WSignalled(p)  PROVE LocalInv' /\ Quiet(p)
  BY <1>11 DEF WSignalled, Quiet, SameSingle, SameUsers, SameClones,
         Holders, Undoing
<1>12. ASSUME WAwake(p)  PROVE LocalInv' /\ Quiet(p)
  BY <1>12 DEF WAwake, WWait, Quiet, SameSingle, SameUsers, SameClones,
         Holders, Undoing
<1>13. ASSUME WReleaseLock(p)  PROVE LocalInv' /\ Quiet(p)
  BY <1>13 DEF WReleaseLock, Quiet, SameSingle, SameUsers, SameClones,
         Holders, Undoing
<1>14. ASSUME WWake(p)  PROVE LocalInv' /\ Quiet(p)
  BY <1>14 DEF WWake, Quiet, SameSingle, SameUsers, SameClones,
         Holders, Undoing
<1> HIDE DEF AccessInv, TypeOK, FilesInv, LocksInv, ClaimsInv, LocalInv, Others
<1> QED BY <1>1, <1>2, <1>3, <1>4, <1>5, <1>6, <1>7, <1>8, <1>9, <1>10, <1>11, <1>12, <1>13, <1>14, QuietInv

(* sullpriv, where the device is not found, and its close. *)
LEMMA CloneStep ==
  ASSUME AccessInv, NEW p \in Procs,
         \/ CLock(p) \/ CMissing(p) \/ CNoMemory(p) \/ CRelease(p)
  PROVE  AccessInv'
<1> USE AccessAssumption DEF AccessInv, TypeOK, PCs, LocalInv, FilesInv, LocksInv, ClaimsInv,
        Goto, Gone, Granted, Allowed, Places, Others, single, user, wuser, cloned, file
<1>1. ASSUME CLock(p)  PROVE LocalInv' /\ Quiet(p)
  BY <1>1 DEF CLock, Quiet, SameSingle, SameUsers, SameClones,
         Holders, Undoing
<1>2. ASSUME CMissing(p)  PROVE LocalInv' /\ Quiet(p)
  BY <1>2 DEF CMissing, Quiet, SameSingle, SameUsers, SameClones,
         Holders, Undoing
<1>3. ASSUME CNoMemory(p)  PROVE LocalInv' /\ Quiet(p)
  BY <1>3 DEF CNoMemory, Quiet, SameSingle, SameUsers, SameClones,
         Holders, Undoing
<1>4. ASSUME CRelease(p)  PROVE LocalInv' /\ Quiet(p)
  BY <1>4 DEF CRelease, Quiet, SameSingle, SameUsers, SameClones,
         Holders, Undoing
<1> HIDE DEF AccessInv, TypeOK, FilesInv, LocksInv, ClaimsInv, LocalInv, Others
<1> QED BY <1>1, <1>2, <1>3, <1>4, QuietInv

(* scullsingle: a process that takes the count from one to zero finds nobody
   inside and nobody who still has to undo a decrement. *)
LEMMA SingleStep ==
  ASSUME AccessInv, NEW p \in Procs, SOpen(p) \/ SBusy(p) \/ SUndo(p) \/ SRelease(p)
  PROVE  AccessInv'
<1> DEFINE Rest == Others(p) /\ SameUsers(p) /\ SameClones(p)
           Counts(a, h, g, u, v) ==
             /\ scull_s_available' = scull_s_available + a
             /\ p \in Holders("single") <=> h
             /\ p \in Holders("single")' <=> g
             /\ p \in Undoing <=> u
             /\ p \in Undoing' <=> v
<1> USE AccessAssumption DEF AccessInv, TypeOK, PCs, LocalInv, FilesInv, LocksInv, ClaimsInv,
        Goto, Gone, Granted, Allowed, Places, Others, single, user, wuser, cloned, file
<1>1. ASSUME SOpen(p)
      PROVE  LocalInv' /\ Rest /\ scull_s_available = 1 /\ Counts(-1, FALSE, TRUE, FALSE, FALSE)
  BY <1>1 DEF SOpen, SameUsers, SameClones, Holders, Undoing
<1>2. ASSUME SBusy(p)
      PROVE  LocalInv' /\ Rest /\ Counts(-1, FALSE, FALSE, FALSE, TRUE)
  BY <1>2 DEF SBusy, SameUsers, SameClones, Holders, Undoing
<1>3. ASSUME SUndo(p)
      PROVE  LocalInv' /\ Rest /\ Counts(1, FALSE, FALSE, TRUE, FALSE)
  BY <1>3 DEF SUndo, SameUsers, SameClones, Holders, Undoing
<1>4. ASSUME SRelease(p)
      PROVE  LocalInv' /\ Rest /\ Counts(1, TRUE, FALSE, FALSE, FALSE)
  BY <1>4 DEF SRelease, SameUsers, SameClones, Holders, Undoing
<1> HIDE DEF AccessInv, TypeOK, FilesInv, LocksInv, ClaimsInv, LocalInv, Others, Allowed, Places
<1>5. LocalInv' /\ Rest
  BY <1>1, <1>2, <1>3, <1>4
<1>6. SingleOpen'
  <2>1. /\ SingleOpen /\ Cardinality(Holders("single")) \in Nat
        /\ Cardinality(Undoing) \in Nat
    BY <1>5, HoldersCount, UndoingCount DEF AccessInv
  <2>2. CASE SOpen(p)
    BY <1>1, <2>1, <2>2, HoldersCount, UndoingCount DEF SingleOpen
  <2>3. CASE SBusy(p)
    BY <1>2, <2>1, <2>3, HoldersCount, UndoingCount DEF SingleOpen
  <2>4. CASE SUndo(p)
    BY <1>3, <2>1, <2>4, HoldersCount, UndoingCount DEF SingleOpen
  <2>5. CASE SRelease(p)
    BY <1>4, <2>1, <2>5, HoldersCount, UndoingCount DEF SingleOpen
  <2> QED BY <2>2, <2>3, <2>4, <2>5
<1>7. OneUser' /\ OneClonePerTty'
  BY <1>5, Settled
<1> QED BY <1>5, <1>6, <1>7 DEF AccessInv, LocalInv

(* sculluid: the count is the number of holders, and a new owner finds none. *)
LEMMA UidStep ==
  ASSUME AccessInv, NEW p \in Procs, UOpen(p) \/ URelease(p)
  PROVE  AccessInv'
<1> DEFINE Rest == /\ Others(p) /\ SameSingle(p) /\ SameClones(p)
                   /\ UNCHANGED <<scull_w_count, scull_w_owner>>
                   /\ p \in Holders("wuid")' <=> p \in Holders("wuid")
<1> USE AccessAssumption DEF AccessInv, TypeOK, PCs, LocalInv, FilesInv, LocksInv, ClaimsInv,
        Goto, Gone, Granted, Places, Others, single, user, wuser, cloned, file
<1>1. Rest
  BY DEF UOpen, URelease, SameSingle, SameClones, Holders, Undoing
<1>2. ASSUME UOpen(p)
      PROVE  /\ p \notin Holders("uid") /\ p \in Holders("uid")'
             /\ scull_u_count' = scull_u_count + 1
             /\ scull_u_owner' = IF scull_u_count = 0 THEN uid[p] ELSE scull_u_owner
             /\ scull_u_count = 0 \/ Allowed(p, scull_u_owner)
  BY <1>2 DEF UOpen, Holders
<1>3. ASSUME URelease(p)
      PROVE  /\ p \in Holders("uid") /\ p \notin Holders("uid")'
             /\ scull_u_count' = scull_u_count - 1
             /\ scull_u_owner' = scull_u_owner
  BY <1>3 DEF URelease, Holders
<1>4. UOpen(p) => LocalInv'
  BY DEF UOpen, Allowed
<1>5. URelease(p) /\ scull_u_count > 0 => LocalInv'
  BY DEF URelease, Allowed
<1> HIDE DEF AccessInv, TypeOK, FilesInv, LocksInv, ClaimsInv, LocalInv, Others, Places
<1>6. /\ OneUser /\ Cardinality(Holders("uid")) \in Nat /\ Holders("wuid")' = Holders("wuid")
      /\ \A q \in Procs : Allowed(q, uid[q])
  BY <1>1, HoldersCount DEF AccessInv, Allowed
<1>7. Cardinality(Holders("wuid")') = scull_w_count' /\ \A q \in Holders("wuid")' : Allowed(q, scull_w_owner)'
  BY <1>1, <1>6 DEF OneUser, Allowed
<1>8. CASE UOpen(p)
  <2>1. /\ Cardinality(Holders("uid")') = Cardinality(Holders("uid")) + 1
        /\ Cardinality(Holders("uid")) = 0 => Holders("uid") = {}
    BY <1>1, <1>2, <1>8, HoldersCount
  <2>2. Holders("uid")' \subseteq Holders("uid") \cup {p}
    BY <1>1 DEF Holders, Others
  <2>3. \A q \in Holders("uid")' : Allowed(q, scull_u_owner')
    BY <1>2, <1>6, <1>8, <2>1, <2>2 DEF OneUser, Holders
  <2>4. OneUser'
    BY <1>2, <1>6, <1>7, <1>8, <2>1, <2>3 DEF OneUser, Allowed
  <2> QED BY <1>1, <1>4, <1>8, <2>4, Settled DEF AccessInv, LocalInv
<1>9. CASE URelease(p)
  <2>1. /\ Cardinality(Holders("uid")') = Cardinality(Holders("uid")) - 1
        /\ Cardinality(Holders("uid")) > 0
    BY <1>1, <1>3, <1>9, HoldersCount
  <2>2. Holders("uid")' \subseteq Holders("uid")
    BY <1>1, <1>3, <1>9 DEF Holders, Others
  <2>3. OneUser'
    BY <1>3, <1>6, <1>7, <1>9, <2>1, <2>2 DEF OneUser, Allowed
  <2> QED BY <1>1, <1>5, <1>6, <1>9, <2>1, <2>3, Settled DEF AccessInv, LocalInv, OneUser
<1> QED BY <1>8, <1>9

(* scullwuid: the owner is set under the lock one step before the count, when
   nobody else can be about to come in or to leave. *)
LEMMA WuidStep ==
  ASSUME AccessInv, NEW p \in Procs,
         WOwn(p) \/ WCount(p) \/ WRelease(p) \/ WReleaseLast(p)
  PROVE  AccessInv'
<1> DEFINE Rest == /\ Others(p) /\ SameSingle(p) /\ SameClones(p)
                   /\ UNCHANGED <<scull_u_count, scull_u_owner>>
                   /\ p \in Holders("uid")' <=> p \in Holders("uid")
<1> USE AccessAssumption DEF AccessInv, TypeOK, PCs, LocalInv, FilesInv, LocksInv, ClaimsInv,
        Goto, Gone, Granted, Places, Others, single, user, wuser, cloned, file
<1>1. Rest
  BY DEF WOwn, WCount, WRelease, WReleaseLast, SameSingle, SameClones, Holders, Undoing
<1>2. ASSUME WOwn(p)
      PROVE  /\ LocalInv'
             /\ p \in Holders("wuid")' <=> p \in Holders("wuid")
             /\ scull_w_count' = scull_w_count
             /\ scull_w_count = 0 \/ scull_w_owner' = scull_w_owner
  BY <1>2 DEF WOwn, Allowed, Holders
<1>3. ASSUME WCount(p)
      PROVE  /\ LocalInv'
             /\ p \notin Holders("wuid") /\ p \in Holders("wuid")'
             /\ scull_w_count' = scull_w_count + 1
             /\ scull_w_owner' = scull_w_owner
             /\ Allowed(p, scull_w_owner)
  BY <1>3 DEF WCount, Allowed, Holders
<1>4. ASSUME WRelease(p) \/ WReleaseLast(p)
      PROVE  /\ LocalInv'
             /\ p \in Holders("wuid") /\ p \notin Holders("wuid")'
             /\ scull_w_count' = scull_w_count - 1
             /\ scull_w_owner' = scull_w_owner
  <2>1. CASE WRelease(p)
    BY <2>1 DEF WRelease, Allowed, Holders
  <2>2. CASE WReleaseLast(p)
    BY <2>2 DEF WReleaseLast, Allowed, Holders
  <2> QED BY <1>4, <2>1, <2>2
<1> HIDE DEF AccessInv, TypeOK, FilesInv, LocksInv, ClaimsInv, LocalInv, Others, Places
<1>5. /\ OneUser /\ Cardinality(Holders("wuid")) \in Nat /\ Holders("uid")' = Holders("uid")
  BY <1>1, HoldersCount DEF AccessInv
<1>6. Cardinality(Holders("uid")') = scull_u_count' /\ \A q \in Holders("uid")' : Allowed(q, scull_u_owner)'
  BY <1>1, <1>5 DEF OneUser, Allowed
<1>7. CASE WOwn(p)
  <2>1. /\ Holders("wuid")' = Holders("wuid")
        /\ Cardinality(Holders("wuid")) = 0 => Holders("wuid") = {}
    BY <1>1, <1>2, <1>7, HoldersCount
  <2>2. OneUser'
    BY <1>2, <1>5, <1>6, <1>7, <2>1 DEF OneUser, Allowed
  <2> QED BY <1>1, <1>2, <1>7, <2>2, Settled DEF AccessInv, LocalInv
<1>8. CASE WCount(p)
  <2>1. Cardinality(Holders("wuid")') = Cardinality(Holders("wuid")) + 1
    BY <1>1, <1>3, <1>8, HoldersCount
  <2>2. Holders("wuid")' \subseteq Holders("wuid") \cup {p}
    BY <1>1 DEF Holders, Others
  <2>3. OneUser'
    BY <1>3, <1>5, <1>6, <1>8, <2>1, <2>2 DEF OneUser, Allowed
  <2> QED BY <1>1, <1>3, <1>8, <2>3, Settled DEF AccessInv, LocalInv
<1>9. CASE WRelease(p) \/ WReleaseLast(p)
  <2>1. Cardinality(Holders("wuid")') = Cardinality(Holders("wuid")) - 1
    BY <1>1, <1>4, <1>9, HoldersCount
  <2>2. Holders("wuid")' \subseteq Holders("wuid")
    BY <1>1, <1>4, <1>9 DEF Holders, Others
  <2>3. OneUser'
    BY <1>4, <1>5, <1>6, <1>9, <2>1, <2>2 DEF OneUser, Allowed
  <2> QED BY <1>1, <1>4, <1>9, <2>3, Settled DEF AccessInv, LocalInv
<1> QED BY <1>7, <1>8, <1>9

(* sullpriv: who finds a device finds the only one of its tty, and who makes one
   has had the list for itself since it found none. *)
LEMMA PrivStep ==
  ASSUME AccessInv, NEW p \in Procs, CFound(p) \/ CAlloc(p)
  PROVE  AccessInv'
<1> DEFINE Rest == Others(p) /\ SameSingle(p) /\ SameUsers(p)
<1> USE AccessAssumption DEF Goto, Gone, Granted, Others, single, user, wuser, cloned, file
<1>0. OneClonePerTty /\ scull_c_list \in Seq({tty[q] : q \in Procs})
  BY DEF AccessInv, TypeOK
<1>1. Rest
  BY DEF CFound, CAlloc, AccessInv, TypeOK, FilesInv, SameSingle, SameUsers, Holders, Undoing
<1>2. CASE CFound(p)
  <2>1. PICK i \in Places(p) : TRUE
    BY <1>2 DEF CFound
  <2>2. Places(p) = {i} /\ i \in 1 .. Len(scull_c_list)
    BY <2>1, <1>0 DEF Places, OneClonePerTty
  <2>3. Found(p) = i
    BY <2>2 DEF Found
  <2>4. clone' = [clone EXCEPT ![p] = i] /\ scull_c_list[i] = tty[p] /\ scull_c_list' = scull_c_list
    BY <1>2, <2>1, <2>3 DEF CFound, Places
  <2>5. LocalInv'
    BY <1>2, <2>2, <2>4 DEF CFound, AccessInv, LocalInv, TypeOK, PCs, FilesInv, LocksInv, ClaimsInv,
       Allowed, Places
  <2>6. OneClonePerTty'
    <3>1. \A q \in Holders("priv")' \ {p} : q \in Holders("priv") /\ clone'[q] = clone[q]
      BY <1>1 DEF Holders
    <3>2. p \in Procs /\ clone'[p] = i
      BY <2>4 DEF AccessInv, TypeOK
    <3> QED BY <1>0, <2>2, <2>4, <3>1, <3>2 DEF OneClonePerTty
  <2> QED BY <1>1, <2>5, <2>6, Settled DEF AccessInv, LocalInv
<1>3. CASE CAlloc(p)
  <2> DEFINE n == Len(scull_c_list)
  <2>1. /\ scull_c_list' \in Seq({tty[q] : q \in Procs}) /\ Len(scull_c_list') = n + 1 /\ n \in Nat
        /\ \A i \in 1 .. n : scull_c_list'[i] = scull_c_list[i]
        /\ scull_c_list'[n + 1] = tty[p]
    BY <1>0, <1>3 DEF CAlloc
  <2>2. clone' = [clone EXCEPT ![p] = n + 1]
    BY <1>3 DEF CAlloc
  <2>3. Places(p) = {}
    BY <1>3 DEF CAlloc, AccessInv, ClaimsInv
  <2>4. \A i \in 1 .. n : scull_c_list[i] # tty[p]
    BY <2>3 DEF Places
  <2>5. \A q \in Procs \ {p} : pc[q] # "c_alloc"
    BY <1>3 DEF CAlloc, AccessInv, LocksInv
  <2>6. LocalInv'
    BY <1>3, <2>1, <2>2, <2>5 DEF CAlloc, AccessInv, LocalInv, TypeOK, PCs, FilesInv, LocksInv,
       ClaimsInv, Allowed
  <2>7. OneClonePerTty'
    <3>1. \A q \in Holders("priv")' \ {p} : q \in Holders("priv") /\ clone'[q] = clone[q]
      BY <1>1 DEF Holders
    <3>2. clone'[p] = n + 1
      BY <2>2 DEF AccessInv, TypeOK
    <3>3. \A i, j \in 1 .. n + 1 : scull_c_list'[i] = scull_c_list'[j] => i = j
      <4>1. \A i \in 1 .. n + 1 : i \in 1 .. n \/ i = n + 1
        BY <2>1
      <4> QED BY <1>0, <2>1, <2>4, <4>1 DEF OneClonePerTty
    <3>4. \A q \in Holders("priv")' \ {p} : clone'[q] \in 1 .. n /\ scull_c_list'[clone'[q]] = tty[q]
      BY <1>0, <2>1, <3>1 DEF OneClonePerTty
    <3> QED BY <2>1, <3>2, <3>3, <3>4, SMTT(20) DEF OneClonePerTty
  <2> QED BY <1>1, <2>6, <2>7, Settled DEF AccessInv, LocalInv
<1> QED BY <1>2, <1>3

----------------------------------------------------------------------------
\* The theorems.

LEMMA StepInv == AccessInv /\ [Next]_vars => AccessInv'
<1> SUFFICES ASSUME AccessInv, [Next]_vars  PROVE AccessInv'
  OBVIOUS
<1>1. ASSUME NEW p \in Procs, Call(p)  PROVE AccessInv'
  <2>1. CASE WReleaseLock(p)
    BY <2>1, WaitStep
  <2> QED BY <1>1, <2>1, QuietStep, SingleStep, UidStep, CloneStep DEF Call
<1>2. ASSUME NEW p \in Procs, Step(p)  PROVE AccessInv'
  BY <1>2, QuietStep, SingleStep, UidStep, WaitStep, WuidStep, CloneStep, PrivStep DEF Step
<1>3. ASSUME NEW p \in Procs, Signal(p)  PROVE AccessInv'
  BY <1>3, QuietStep
<1>4. CASE UNCHANGED vars
  BY <1>4 DEF vars, single, user, wuser, cloned, file, AccessInv, TypeOK, FilesInv, LocksInv,
     ClaimsInv, SingleOpen, OneUser, OneClonePerTty, Holders, Undoing, Places, Allowed
<1> QED BY <1>1, <1>2, <1>3, <1>4 DEF Next

(* AccessInv holds in every state, whoever opens what. *)
THEOREM AccessInvariant == Spec => []AccessInv
BY InitInv, StepInv, PTL DEF Spec

(* Every variable has its type, counts never become negative, and a process' clone
   is in the list. *)
THEOREM AccessTypes == Spec => []TypeOK
<1>1. AccessInv => TypeOK
  BY DEF AccessInv
<1> QED BY <1>1, AccessInvariant, PTL

(* scullsingle is open at most once, and its count is right again as soon as the
   failing opens have undone their decrements. *)
THEOREM AccessSingleOpen == Spec => []SingleOpen
<1>1. AccessInv => SingleOpen
  BY DEF AccessInv
<1> QED BY <1>1, AccessInvariant, PTL

(* sculluid and scullwuid are open for one user at a time. *)
THEOREM AccessOneUser == Spec => []OneUser
<1>1. AccessInv => OneUser
  BY DEF AccessInv
<1> QED BY <1>1, AccessInvariant, PTL

(* Each tty has one cloned device, and a process has the one of its tty. *)
THEOREM AccessOneClone == Spec => []OneClonePerTty
<1>1. AccessInv => OneClonePerTty
  BY DEF AccessInv
<1> QED BY <1>1, AccessInvariant, PTL
=============================================================================
