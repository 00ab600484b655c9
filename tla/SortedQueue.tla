----------------------------- MODULE SortedQueue -----------------------------
(***************************************************************************)
(* What a timeline promises the scheduler: a queue sorted by a key whose   *)
(* comparison is given, first come first served among equal keys, and its  *)
(* first entity at hand.                                                   *)
(***************************************************************************)
EXTENDS Integers, Sequences

CONSTANTS Entities, NoEntity, Before(_, _)

VARIABLES queue, first

(* queue with e after the last entity that it does not go before. *)
Insert(e) ==
  LET i == Len(SelectSeq(queue, LAMBDA x : ~Before(e, x)))
  IN  SubSeq(queue, 1, i) \o <<e>> \o SubSeq(queue, i + 1, Len(queue))

Enqueue(e) == queue' = Insert(e)

Dequeue(e) == queue' = SelectSeq(queue, LAMBDA x : x # e)

Init == queue = <<>> /\ first = NoEntity

Next ==
  /\ \E e \in Entities : Enqueue(e) \/ Dequeue(e)
  /\ first' = IF queue' = <<>> THEN NoEntity ELSE Head(queue')

Spec == Init /\ [][Next]_<<queue, first>>
=============================================================================
