----------------------------- MODULE ScullAccess -----------------------------
(***************************************************************************)
(* The four devices of scull/access.c, which differ in who may open them:  *)
(*   "single"  one open at a time, counted by an atomic variable;          *)
(*   "uid"     one user at a time, others are refused;                     *)
(*   "wuid"    one user at a time, others sleep until the last close;      *)
(*   "priv"    a device of its own for each controlling tty.               *)
(*                                                                         *)
(* A section under scull_u_lock is one step: nothing looks at its          *)
(* variables from outside.  scull_w_available() does look at scull_w_count *)
(* and scull_w_owner without the lock, and kmalloc() may sleep under       *)
(* scull_c_lock, so those two locks are taken and released step by step.   *)
(***************************************************************************)
EXTENDS Integers, Sequences, FiniteSets

CONSTANTS
  Procs,      \* the processes
  NoProc,     \* the holder of a free lock
  Users,      \* user ids
  RootUser,   \* uid 0, what an owner is initialized to
  uid, euid,  \* current->uid and current->euid of each process
  Capable,    \* the processes with CAP_DAC_OVERRIDE
  tty,        \* the controlling tty of each process
  Kinds,      \* the devices each process may open
  Nonblock,   \* the processes that open with O_NONBLOCK
  Signalled   \* the processes that get signals

ASSUME AccessAssumption ==
  /\ IsFiniteSet(Procs)
  /\ NoProc \notin Procs
  /\ RootUser \in Users
  /\ uid \in [Procs -> Users] /\ euid \in [Procs -> Users]
  /\ DOMAIN tty = Procs
  /\ Kinds \in [Procs -> SUBSET {"single", "uid", "wuid", "priv"}]
  /\ Capable \subseteq Procs /\ Nonblock \subseteq Procs
  /\ Signalled \subseteq Procs

VARIABLES
  scull_s_available,
  scull_u_count, scull_u_owner,
  scull_w_count, scull_w_owner,
  scull_w_lock,   \* holder of the spinlock, or NoProc
  scull_w_wait,   \* the processes queued and set to TASK_INTERRUPTIBLE
  scull_c_lock,
  scull_c_list,   \* the keys of the cloned devices, the first made first
  pc,             \* where each process is
  which,          \* the device it opens or has open
  wronly,         \* is that open O_WRONLY?
  clone,          \* which cloned device it has: its place in scull_c_list
  sig             \* signal_pending(current)

single == <<scull_s_available>>
user   == <<scull_u_count, scull_u_owner>>
wuser  == <<scull_w_count, scull_w_owner, scull_w_lock, scull_w_wait>>
cloned == <<scull_c_lock, scull_c_list>>
file   == <<which, wronly, clone>>
vars   == <<single, user, wuser, cloned, pc, file, sig>>

Goto(p, here, there) ==
  /\ pc[p] = here
  /\ pc' = [pc EXCEPT ![p] = there]

(* Back to user space with nothing open: a failed open() or a close(). *)
Gone(p, here) ==
  /\ Goto(p, here, "closed")
  /\ which'  = [which EXCEPT ![p] = "none"]
  /\ wronly' = [wronly EXCEPT ![p] = FALSE]
  /\ clone'  = [clone EXCEPT ![p] = 0]
  /\ sig'    = [sig EXCEPT ![p] = FALSE]

(* The open was granted; a write-only one still has to empty the device. *)
Granted(p, here) ==
  /\ Goto(p, here, IF wronly[p] THEN "trim" ELSE "open")
  /\ sig' = [sig EXCEPT ![p] = FALSE]

Allowed(p, owner) == owner \in {uid[p], euid[p]} \/ p \in Capable

----------------------------------------------------------------------------
\* What every open and close shares

FirstStep == [single |-> "s_dec", uid |-> "u_open", wuid |-> "w_lock",
              priv |-> "c_lock"]

(* sullpriv refuses a process without a controlling tty: that changes
   nothing, and Kinds leaves it out. *)
OpenCall(p, kind, wr) ==
  /\ kind \in Kinds[p]
  /\ Goto(p, "closed", FirstStep[kind])
  /\ which'  = [which EXCEPT ![p] = kind]
  /\ wronly' = [wronly EXCEPT ![p] = wr]
  /\ UNCHANGED <<single, user, wuser, cloned, clone, sig>>

(* scull_trim(), with no lock held. *)
Trim(p) ==
  /\ Goto(p, "trim", "open")
  /\ sig' = [sig EXCEPT ![p] = FALSE]
  /\ UNCHANGED <<single, user, wuser, cloned, file>>

Signal(p) ==
  /\ p \in Signalled
  /\ pc[p] \notin {"closed", "open"}
  /\ sig' = [sig EXCEPT ![p] = TRUE]
  /\ UNCHANGED <<single, user, wuser, cloned, pc, file>>

----------------------------------------------------------------------------
\* scullsingle

SOpen(p) ==
  /\ scull_s_available = 1
  /\ Granted(p, "s_dec")
  /\ scull_s_available' = scull_s_available - 1
  /\ UNCHANGED <<user, wuser, cloned, file>>

(* atomic_dec_and_test() did not reach zero... *)
SBusy(p) ==
  /\ scull_s_available # 1
  /\ Goto(p, "s_dec", "s_undo")
  /\ scull_s_available' = scull_s_available - 1
  /\ UNCHANGED <<user, wuser, cloned, file, sig>>

(* Broken: returns -EBUSY and leaves the count decremented. *)
SUndoNoInc(p) ==
  /\ Gone(p, "s_undo")
  /\ UNCHANGED <<single, user, wuser, cloned>>

(* ... so it is incremented again, some time later. *)
SUndo(p) ==
  /\ Gone(p, "s_undo")
  /\ scull_s_available' = scull_s_available + 1
  /\ UNCHANGED <<user, wuser, cloned>>

SRelease(p) ==
  /\ which[p] = "single"
  /\ Gone(p, "open")
  /\ scull_s_available' = scull_s_available + 1
  /\ UNCHANGED <<user, wuser, cloned>>

----------------------------------------------------------------------------
\* sculluid

URefuse(p) ==
  /\ scull_u_count # 0 /\ ~Allowed(p, scull_u_owner)
  /\ Gone(p, "u_open")
  /\ UNCHANGED <<single, user, wuser, cloned>>

(* Broken: whoever is let in becomes the owner. *)
UOpenAlwaysOwns(p) ==
  /\ scull_u_count = 0 \/ Allowed(p, scull_u_owner)
  /\ Granted(p, "u_open")
  /\ scull_u_owner' = uid[p]
  /\ scull_u_count' = scull_u_count + 1
  /\ UNCHANGED <<single, wuser, cloned, file>>

UOpen(p) ==
  /\ scull_u_count = 0 \/ Allowed(p, scull_u_owner)
  /\ Granted(p, "u_open")
  /\ scull_u_owner' = IF scull_u_count = 0 THEN uid[p] ELSE scull_u_owner
  /\ scull_u_count' = scull_u_count + 1
  /\ UNCHANGED <<single, wuser, cloned, file>>

URelease(p) ==
  /\ which[p] = "uid"
  /\ Gone(p, "open")
  /\ scull_u_count' = scull_u_count - 1
  /\ UNCHANGED <<single, scull_u_owner, wuser, cloned>>

----------------------------------------------------------------------------
\* scullwuid

WLock(p) ==
  /\ scull_w_lock = NoProc
  /\ Goto(p, "w_lock", "w_check")
  /\ scull_w_lock' = p
  /\ UNCHANGED <<single, user, scull_w_count, scull_w_owner, scull_w_wait,
                 cloned, file, sig>>

(* Available under the lock: the owner is set first, then the count. *)
WOwn(p) ==
  /\ scull_w_count = 0 \/ Allowed(p, scull_w_owner)
  /\ Goto(p, "w_check", "w_count")
  /\ scull_w_owner' = IF scull_w_count = 0 THEN uid[p] ELSE scull_w_owner
  /\ UNCHANGED <<single, user, scull_w_count, scull_w_lock, scull_w_wait,
                 cloned, file, sig>>

WCount(p) ==
  /\ Granted(p, "w_count")
  /\ scull_w_count' = scull_w_count + 1
  /\ scull_w_lock' = NoProc
  /\ UNCHANGED <<single, user, scull_w_owner, scull_w_wait, cloned, file>>

WAgain(p) ==
  /\ scull_w_count # 0 /\ ~Allowed(p, scull_w_owner)
  /\ p \in Nonblock
  /\ Gone(p, "w_check")
  /\ scull_w_lock' = NoProc
  /\ UNCHANGED <<single, user, scull_w_count, scull_w_owner, scull_w_wait,
                 cloned>>

WBusy(p) ==
  /\ scull_w_count # 0 /\ ~Allowed(p, scull_w_owner)
  /\ p \notin Nonblock
  /\ Goto(p, "w_check", "w_peek")
  /\ scull_w_lock' = NoProc
  /\ UNCHANGED <<single, user, scull_w_count, scull_w_owner, scull_w_wait,
                 cloned, file, sig>>

(* wait_event_interruptible(scull_w_wait, scull_w_available()): the condition
   is looked at without the lock, the count first ("w_peek", "w_test"), then
   the owner ("w_peek_owner", "w_test_owner"); once before the process queues
   and again after. *)
WWait == <<single, user, scull_w_count, scull_w_owner, scull_w_lock, cloned,
           file, sig>>

WPeek(p) ==
  /\ Goto(p, "w_peek", IF scull_w_count = 0 THEN "w_lock" ELSE "w_peek_owner")
  /\ UNCHANGED <<WWait, scull_w_wait>>

WPeekOwner(p) ==
  /\ Goto(p, "w_peek_owner",
          IF Allowed(p, scull_w_owner) THEN "w_lock" ELSE "w_prepare")
  /\ UNCHANGED <<WWait, scull_w_wait>>

WPrepare(p) ==
  /\ Goto(p, "w_prepare", "w_test")
  /\ scull_w_wait' = scull_w_wait \cup {p}
  /\ UNCHANGED WWait

(* finish_wait(), and back to the loop in scull_w_open(). *)
WLeave(p, here) ==
  /\ Goto(p, here, "w_lock")
  /\ scull_w_wait' = scull_w_wait \ {p}
  /\ UNCHANGED WWait

WTestFree(p) == scull_w_count = 0 /\ WLeave(p, "w_test")

WTestCount(p) ==
  /\ scull_w_count # 0
  /\ Goto(p, "w_test", "w_test_owner")
  /\ UNCHANGED <<WWait, scull_w_wait>>

WTestOwner(p) == Allowed(p, scull_w_owner) /\ WLeave(p, "w_test_owner")

WSleep(p) ==
  /\ ~Allowed(p, scull_w_owner) /\ ~sig[p]
  /\ Goto(p, "w_test_owner", "w_sleep")
  /\ UNCHANGED <<WWait, scull_w_wait>>

WSignalled(p) ==
  /\ ~Allowed(p, scull_w_owner) /\ sig[p]
  /\ Gone(p, "w_test_owner")
  /\ scull_w_wait' = scull_w_wait \ {p}
  /\ UNCHANGED <<single, user, scull_w_count, scull_w_owner, scull_w_lock,
                 cloned>>

(* schedule() returns once the process is woken or has a signal. *)
WAwake(p) ==
  /\ p \notin scull_w_wait \/ sig[p]
  /\ Goto(p, "w_sleep", "w_prepare")
  /\ UNCHANGED <<WWait, scull_w_wait>>

WReleaseLock(p) ==
  /\ which[p] = "wuid"
  /\ scull_w_lock = NoProc
  /\ Goto(p, "open", "w_release")
  /\ scull_w_lock' = p
  /\ UNCHANGED <<single, user, scull_w_count, scull_w_owner, scull_w_wait,
                 cloned, file, sig>>

(* Others have it open still. *)
WRelease(p) ==
  /\ scull_w_count > 1
  /\ Gone(p, "w_release")
  /\ scull_w_count' = scull_w_count - 1
  /\ scull_w_lock' = NoProc
  /\ UNCHANGED <<single, user, scull_w_owner, scull_w_wait, cloned>>

(* Broken: the last close wakes nobody. *)
WReleaseLastNoWake(p) ==
  /\ scull_w_count = 1
  /\ Gone(p, "w_release")
  /\ scull_w_count' = scull_w_count - 1
  /\ scull_w_lock' = NoProc
  /\ UNCHANGED <<single, user, scull_w_owner, scull_w_wait, cloned>>

(* temp == 0: the waiters are woken after the lock is dropped. *)
WReleaseLast(p) ==
  /\ scull_w_count = 1
  /\ Goto(p, "w_release", "w_wake")
  /\ scull_w_count' = scull_w_count - 1
  /\ scull_w_lock' = NoProc
  /\ UNCHANGED <<single, user, scull_w_owner, scull_w_wait, cloned, file, sig>>

WWake(p) ==
  /\ Gone(p, "w_wake")
  /\ scull_w_wait' = {}
  /\ UNCHANGED <<single, user, scull_w_count, scull_w_owner, scull_w_lock,
                 cloned>>

----------------------------------------------------------------------------
\* sullpriv

(* Broken: the list is searched without the lock. *)
CLockNone(p) ==
  /\ Goto(p, "c_lock", "c_look")
  /\ UNCHANGED <<single, user, wuser, cloned, file, sig>>

CLock(p) ==
  /\ scull_c_lock = NoProc
  /\ Goto(p, "c_lock", "c_look")
  /\ scull_c_lock' = p
  /\ UNCHANGED <<single, user, wuser, scull_c_list, file, sig>>

(* The device that the list walk finds: new ones are put at its head. *)
Places(p) == {i \in 1 .. Len(scull_c_list) : scull_c_list[i] = tty[p]}
Found(p)  == CHOOSE i \in Places(p) : \A j \in Places(p) : j <= i

CFound(p) ==
  /\ Places(p) # {}
  /\ Granted(p, "c_look")
  /\ clone' = [clone EXCEPT ![p] = Found(p)]
  /\ scull_c_lock' = NoProc
  /\ UNCHANGED <<single, user, wuser, scull_c_list, which, wronly>>

CMissing(p) ==
  /\ Places(p) = {}
  /\ Goto(p, "c_look", "c_alloc")
  /\ UNCHANGED <<single, user, wuser, cloned, file, sig>>

(* Broken: the new device is not put in the list. *)
CAllocUnlisted(p) ==
  /\ Granted(p, "c_alloc")
  /\ clone' = [clone EXCEPT ![p] = Len(scull_c_list) + 1]
  /\ scull_c_lock' = NoProc
  /\ UNCHANGED <<single, user, wuser, scull_c_list, which, wronly>>

CAlloc(p) ==
  /\ Granted(p, "c_alloc")
  /\ scull_c_list' = Append(scull_c_list, tty[p])
  /\ clone' = [clone EXCEPT ![p] = Len(scull_c_list) + 1]
  /\ scull_c_lock' = NoProc
  /\ UNCHANGED <<single, user, wuser, which, wronly>>

CNoMemory(p) ==
  /\ Gone(p, "c_alloc")
  /\ scull_c_lock' = NoProc
  /\ UNCHANGED <<single, user, wuser, scull_c_list>>

(* The device stays in the list. *)
CRelease(p) ==
  /\ which[p] = "priv"
  /\ Gone(p, "open")
  /\ UNCHANGED <<single, user, wuser, cloned>>

----------------------------------------------------------------------------

Init ==
  /\ scull_s_available = 1
  /\ scull_u_count = 0 /\ scull_u_owner = RootUser
  /\ scull_w_count = 0 /\ scull_w_owner = RootUser
  /\ scull_w_lock = NoProc /\ scull_w_wait = {}
  /\ scull_c_lock = NoProc /\ scull_c_list = <<>>
  /\ pc     = [p \in Procs |-> "closed"]
  /\ which  = [p \in Procs |-> "none"]
  /\ wronly = [p \in Procs |-> FALSE]
  /\ clone  = [p \in Procs |-> 0]
  /\ sig    = [p \in Procs |-> FALSE]

Call(p) ==
  \/ \E k \in Kinds[p], w \in BOOLEAN : OpenCall(p, k, w)
  \/ SRelease(p) \/ URelease(p) \/ WReleaseLock(p) \/ CRelease(p)

Step(p) ==
  \/ Trim(p) \/ SOpen(p) \/ SBusy(p) \/ SUndo(p) \/ URefuse(p) \/ UOpen(p)
  \/ WLock(p) \/ WOwn(p) \/ WCount(p) \/ WAgain(p) \/ WBusy(p)
  \/ WPeek(p) \/ WPeekOwner(p) \/ WPrepare(p) \/ WTestFree(p) \/ WTestCount(p)
  \/ WTestOwner(p) \/ WSleep(p) \/ WSignalled(p) \/ WAwake(p)
  \/ WRelease(p) \/ WReleaseLast(p) \/ WWake(p)
  \/ CLock(p) \/ CFound(p) \/ CMissing(p) \/ CAlloc(p) \/ CNoMemory(p)

Next == \E p \in Procs : Call(p) \/ Step(p) \/ Signal(p)

Spec == Init /\ [][Next]_vars

(* A process inside a call goes on; nobody has to make one. *)
FairSpec == Spec /\ \A p \in Procs : WF_vars(Step(p))

----------------------------------------------------------------------------
\* Properties

PCs == {"closed", "trim", "open", "s_dec", "s_undo", "u_open", "w_lock",
        "w_check", "w_count", "w_peek", "w_peek_owner", "w_prepare", "w_test",
        "w_test_owner", "w_sleep", "w_release", "w_wake", "c_lock", "c_look",
        "c_alloc"}

(* Every variable holds a value of its kind; in particular a process has a
   clone that is in the list (access.c:262-268). *)
TypeOK ==
  /\ scull_s_available \in Int
  /\ scull_u_count \in Nat /\ scull_u_owner \in Users
  /\ scull_w_count \in Nat /\ scull_w_owner \in Users
  /\ scull_w_lock \in Procs \cup {NoProc} /\ scull_w_wait \subseteq Procs
  /\ scull_c_lock \in Procs \cup {NoProc}
  /\ scull_c_list \in Seq({tty[p] : p \in Procs})
  /\ pc \in [Procs -> PCs]
  /\ which \in [Procs -> {"none", "single", "uid", "wuid", "priv"}]
  /\ wronly \in [Procs -> BOOLEAN]
  /\ clone \in [Procs -> 0 .. Len(scull_c_list)]
  /\ sig \in [Procs -> BOOLEAN]

(* The processes that have a device open, as its count has it. *)
Holders(kind) ==
  {p \in Procs : which[p] = kind /\ pc[p] \in {"trim", "open", "w_release"}}

Undoing == {p \in Procs : pc[p] = "s_undo"}

(* scullsingle is open at most once, however the failing opens interleave
   with the close, and their decrements and increments leave the count
   right, so that the device can be opened again (access.c:57-60). *)
SingleOpen ==
  /\ Cardinality(Holders("single")) <= 1
  /\ scull_s_available =
       1 - Cardinality(Holders("single")) - Cardinality(Undoing)

(* Only one user at a time has sculluid or scullwuid open: everybody who has
   it, the capable apart, has the owner's uid, and the count is the number of
   opens, so that the owner changes only when nobody is left (access.c:106,
   access.c:184). *)
OneUser ==
  /\ scull_u_count = Cardinality(Holders("uid"))
  /\ scull_w_count = Cardinality(Holders("wuid"))
  /\ \A p \in Holders("uid") : Allowed(p, scull_u_owner)
  /\ \A p \in Holders("wuid") : Allowed(p, scull_w_owner)

(* A process that sleeps in scull_w_open() on a device that nobody has open
   does not sleep for ever: the last release() wakes it, though another user
   may then be faster (access.c:180, access.c:205-207). *)
WaiterIsWoken ==
  \A p \in Procs :
    pc[p] = "w_sleep" /\ scull_w_count = 0 ~> pc[p] # "w_sleep"

(* Each tty has one cloned device, and a process has that of its own tty
   (access.c:251-268). *)
OneClonePerTty ==
  /\ \A i, j \in 1 .. Len(scull_c_list) :
       scull_c_list[i] = scull_c_list[j] => i = j
  /\ \A p \in Holders("priv") : /\ clone[p] \in 1 .. Len(scull_c_list)
                                /\ scull_c_list[clone[p]] = tty[p]

=============================================================================
