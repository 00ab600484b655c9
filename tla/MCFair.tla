------------------------------- MODULE MCFair -------------------------------
(* The parts of fair.c that TLC checks side by side: they share no variable, so
   a behaviour is one part's, chosen at the start. *)
EXTENDS CfsBandwidth, CfsGroups, TLC

CONSTANTS Parts, c1, c2, A, B, t1, t2, t3, t4

VARIABLES part, tasks_timeline, rb_leftmost

(* t1 and t2 in a group below t3's, t4 in the root. *)
MCup == A :> Root @@ B :> A @@ t1 :> B @@ t2 :> B @@ t3 :> A @@ t4 :> Root

(* Nine entities before and after the overflow, some of them equal. *)
Timeline == INSTANCE CfsTimeline WITH
  Nodes <- 1..9, Null <- None, Modulus <- 16, start <- 12,
  vruntime <- <<12, 13, 14, 15, 15, 0, 1, 1, 3>>

timeVars == <<tasks_timeline, rb_leftmost>>

MCInit == part \in Parts /\ Init /\ GroupsInit /\ Timeline!Init

MCNext ==
  /\ UNCHANGED part
  /\ \/ part = "bandwidth" /\ Next /\ UNCHANGED <<rq, timeVars>>
     \/ part = "groups" /\ GroupsNext /\ UNCHANGED <<vars, timeVars>>
     \/ part = "timeline" /\ Timeline!Next /\ UNCHANGED <<vars, rq>>

MCSpec == MCInit /\ [][MCNext]_<<vars, part, rq, timeVars>> /\ Fairness

(* Every part's variables have their types. *)
FairTypeOK == BandwidthTypeOK /\ GroupsTypeOK
TreeBalanced == Timeline!TreeBalanced
ImplementsQueue == Timeline!ImplementsQueue
=============================================================================
