---------------------------- MODULE MCScullAccess ----------------------------
(* The instances of ScullAccess that TLC checks. *)
EXTENDS ScullAccess, TLC

CONSTANTS alice, bob, carol, dave, ann, ben, cat, root, tty1, tty2

(* Three users and root; carol has done su to alice's. *)
MCUid  == alice :> ann @@ bob :> ben @@ carol :> cat @@ dave :> root
MCEuid == alice :> ann @@ bob :> ben @@ carol :> ann @@ dave :> root
MCTty  == alice :> tty1 @@ bob :> tty2 @@ carol :> tty1 @@ dave :> tty2

MCSingle == [p \in Procs |-> {"single"}]
MCAll    == [p \in Procs |-> IF p = dave THEN {"uid"}
                              ELSE {"single", "uid", "wuid", "priv"}]

(* The devices share no variable, and a property is about one of them: a
   behaviour opens one device only, and scullsingle before it. *)
Used ==
  ({which[p] : p \in Procs} \ {"none"})
    \cup (IF scull_u_owner # RootUser THEN {"uid"} ELSE {})
    \cup (IF scull_w_owner # RootUser THEN {"wuid"} ELSE {})
    \cup (IF scull_c_list # <<>> THEN {"priv"} ELSE {})

MCNext == \E p \in Procs :
  \/ \E k \in Kinds[p], w \in BOOLEAN :
       /\ Cardinality(Used \cup {k}) = 1
       /\ OpenCall(p, k, w)
  \/ SRelease(p) \/ URelease(p) \/ WReleaseLock(p) \/ CRelease(p)
  \/ Step(p)
  \/ Signal(p)

MCSpec == Init /\ [][MCNext]_vars /\ \A p \in Procs : WF_vars(Step(p))
=============================================================================
