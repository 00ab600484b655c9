---------------------------- MODULE MCShortPrint ----------------------------
(* The instances of ShortPrint that TLC checks, each a part of its own: a
   writer that fills the output buffer while its interrupts get lost; two
   writers that take turns; a reader of the interrupts' times. *)
EXTENDS ShortPrint, TLC

CONSTANTS Parts, w1, w2, r1

VARIABLE part

(* The reader looks on while a writer sends single bytes. *)
Times == INSTANCE ShortPrint WITH Counts <- {1}, InSize <- 3, Signalled <- {r1}

Pair == INSTANCE ShortPrint WITH Counts <- {1, 4}, Signalled <- Writers

MCInit == part \in Parts /\ Init

(* Bounds: one writer is enough for the first and the last; the timer serves the
   first only, to which liveness is thereby confined. *)
MCNext ==
  /\ UNCHANGED part
  /\ \/ part = "bytes" /\ Printing /\ pc'[w2] = "idle"
     \/ /\ part = "pair"
        /\ Pair!Printing
        /\ UNCHANGED tmr
        /\ printer = "busy" /\ printer' = "ack" => isr' = "test"
        /\ \A w \in Writers : pc'[w] # "closing"
     \/ /\ part = "times"
        /\ Times!Next
        /\ UNCHANGED tmr
        /\ pc'[w1] # "closing" /\ pc'[w2] = "idle"

MCSpec == MCInit /\ [][MCNext]_<<printVars, part>> /\ Fairness

MCTypeOK == IF part = "times" THEN Times!PrintTypeOK ELSE PrintTypeOK
=============================================================================
