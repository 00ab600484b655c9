------------------------------ MODULE MCScullMem ------------------------------
(* The instances of ScullMem that TLC checks, each a part of its own: a device
   that two processes share, one that a single process has for itself, and a
   shared one whose parameters change while a call waits. *)
EXTENDS ScullMem, TLC

CONSTANTS Parts, a, b, p1, p2

VARIABLE part

MCPayloads == {<<a, b>>, <<>>}
MCOffsets  == {-1, 0, 2}
MCQuanta   == {-1, 0, 1, 2}
MCQsets    == {-1, 1, 2}

(* One process reads and writes, the other empties. *)
MCShared == p1 :> {"rw"} @@ p2 :> {"r", "w"}
MCAlone  == p1 :> {"r", "w", "rw"} @@ p2 :> {}
MCTuned  == p1 :> {"rw"} @@ p2 :> {"w"}

(* p1 alone with a device of access.c, whose open() takes no semaphore,
   changing the parameters. *)
Solo == INSTANCE ScullMem WITH
  Modes <- MCAlone, Locked <- FALSE, Tuners <- {p1}, SCULL_QUANTUM <- 1, SCULL_QSET <- 2,
  Quanta <- {1, 2}

(* p2 changes the parameters, empties the device and writes while p1 waits. *)
Tuned == INSTANCE ScullMem WITH
  Modes <- MCTuned, Tuners <- {p2}, Qsets <- {1}, MaxPos <- 2,
  Payloads <- {<<b>>}, Counts <- {1}, Offsets <- {1}

(* Bound: the shared device's sets have one quantum of two bytes. *)
MCInit ==
  /\ part \in Parts /\ Init
  /\ part = "shared" => scull_quantum = 2 /\ scull_qset = 1
  /\ part = "solo"   => scull_quantum > 0
  /\ part = "tuned"  => scull_qset = 1

MCNext ==
  /\ UNCHANGED part
  /\ \/ part = "shared" /\ Next
     \/ part = "solo" /\ Solo!Next
     \/ part = "tuned" /\ Tuned!Next

MCSpec == MCInit /\ [][MCNext]_<<vars, part>>
=============================================================================
