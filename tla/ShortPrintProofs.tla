-------------------------- MODULE ShortPrintProofs --------------------------
(***************************************************************************)
(* Theorems about ShortPrint for any number of writers and readers, any    *)
(* size of the two buffers, any counts and any choice of who may be        *)
(* interrupted, however many interrupts of the printer get lost.           *)
(***************************************************************************)
EXTENDS ShortPrint, TLAPS

Procs == Writers \cup Readers

(* A writer has the semaphore from down_interruptible() to up(). *)
Holding == {"test", "above", "below", "copy", "asleep", "advance", "kick", "out"}

(* Where a process stands, what it has the semaphore for, and what it is
   queued for. *)
PlacesInv ==
  /\ pc \in [Procs -> {"idle", "down", "closing", "draining", "look", "unread", "take"}
                         \cup Holding]
  /\ space \in [Procs -> Nat] /\ left \in [Writers -> Nat]
  /\ \A w \in Writers :
       /\ pc[w] \in Holding <=> out_sem = w
       /\ w \in waiting => pc[w] \in {"test", "above", "below", "asleep"}
       /\ pc[w] = "asleep" => w \in waiting
       /\ pc[w] \notin {"look", "unread", "take"}
  /\ \A r \in Readers : pc[r] \in {"idle", "look", "unread", "take"}

(* What a writer computed of the buffer is still true when it fills it: the
   worker moves the tail meanwhile, but never past the head. *)
RoomInv ==
  \A w \in Writers :
    /\ pc[w] = "above" => out_head >= out_tail
    /\ pc[w] \in {"copy", "advance"} =>
         /\ space[w] <= left[w]
         /\ out_head + space[w] <= PageSize
         /\ Used + space[w] <= PageSize - 1
    /\ pc[w] = "advance" =>
         \A i \in 0 .. space[w] - 1 : out_buffer[out_head + i] = Nth(accepted + 1 + i)

(* The invariant that every step keeps. *)
PrintInv ==
  PrintTypeOK /\ PlacesInv /\ RoomInv /\ PrintsInOrder /\ TimerCoversOutput


-----------------------------------------------------------------------------
\* Arithmetic of the circular buffer.

(* C's and TLA+'s remainder for operands up to twice the divisor; the last is
   TLA+'s alone, for the distance of two places. *)
LEMMA Remainder ==
  ASSUME NEW n \in Nat \ {0}, NEW x \in Int
  PROVE  /\ x \in 0 .. n - 1 => x % n = x
         /\ x \in n .. 2 * n - 1 => x % n = x - n
         /\ x \in 0 - n .. -1 => x % n = x + n
<1>1. ASSUME x \in 0 .. n - 1 PROVE x % n = x
  BY <1>1, SMT
<1>2. ASSUME x \in n .. 2 * n - 1 PROVE x % n = x - n
  BY <1>2, SMT
<1>3. ASSUME x \in 0 - n .. -1 PROVE x % n = x + n
  BY <1>3, SMT
<1> QED BY <1>1, <1>2, <1>3

(* How many bytes the buffer holds. *)
LEMMA UsedBytes ==
  ASSUME NEW h \in 0 .. PageSize - 1, NEW t \in 0 .. PageSize - 1
  PROVE  /\ h >= t => (h - t) % PageSize = h - t
         /\ h < t => (h - t) % PageSize = h - t + PageSize
<1>1. h - t \in Int /\ PageSize \in Nat \ {0}
  BY PrintAssumption
<1>2. h >= t => h - t \in 0 .. PageSize - 1
  BY <1>1
<1>3. h < t => h - t \in 0 - PageSize .. -1
  BY <1>1
<1> QED BY <1>1, <1>2, <1>3, Remainder

(* Where the byte i places on from t is. *)
LEMMA Place ==
  ASSUME NEW t \in 0 .. PageSize - 1, NEW i \in 0 .. PageSize
  PROVE  (t + i) % PageSize = IF t + i < PageSize THEN t + i ELSE t + i - PageSize
<1>1. t + i \in Int /\ PageSize \in Nat \ {0}
  BY PrintAssumption
<1>2. CASE t + i < PageSize
  <2>1. t + i \in 0 .. PageSize - 1
    BY <1>1, <1>2
  <2> QED BY <1>1, <1>2, <2>1, Remainder
<1>3. CASE ~(t + i < PageSize)
  <2>1. t + i \in PageSize .. 2 * PageSize - 1
    BY <1>1, <1>3
  <2> QED BY <1>1, <1>3, <2>1, Remainder
<1> QED BY <1>2, <1>3

LEMMA InBuffer ==
  ASSUME NEW t \in 0 .. PageSize - 1, NEW i \in 0 .. PageSize
  PROVE  (t + i) % PageSize \in 0 .. PageSize - 1
<1>1. t + i \in Nat /\ PageSize \in Nat \ {0}
  BY PrintAssumption
<1> QED BY <1>1, Place

LEMMA IsByte ==
  ASSUME NEW a \in Int
  PROVE  Nth(a) \in Byte
<1> DEFINE m == 2 * PageSize
<1>1. m \in Nat \ {0}
  BY PrintAssumption
<1>2. Byte = 0 .. m - 1 /\ Nth(a) = a % m
  BY DEF Byte, Nth
<1> HIDE DEF m
<1> QED BY <1>1, <1>2

LEMMA ByteRange ==
  ASSUME NEW b \in Byte
  PROVE  b \in Nat /\ b < 2 * PageSize
  BY PrintAssumption DEF Byte

(* Bytes can be counted on from any of them. *)
LEMMA Onwards ==
  ASSUME NEW a \in Nat, NEW b \in Nat, a + b < 4 * PageSize
  PROVE  Nth(Nth(a) + b) = Nth(a + b) /\ Nth(a) \in Byte
<1> DEFINE m == 2 * PageSize
<1>0. m \in Nat \ {0} /\ a + b < 2 * m /\ PageSize \in Nat
  BY PrintAssumption
<1>m. Byte = 0 .. m - 1 /\ \A x : Nth(x) = x % m
  BY DEF Byte, Nth
<1> HIDE DEF m
<1>1. CASE a < m
  <2>1. Nth(a) = a
    BY <1>0, <1>m, <1>1, a \in 0 .. m - 1, a \in Int, Remainder
  <2> QED BY <1>0, <1>m, <1>1, <2>1
<1>2. CASE a >= m
  <2>1. a % m = a - m
    BY <1>0, <1>2, a \in m .. 2 * m - 1, a \in Int, Remainder
  <2>2. (a + b) % m = a + b - m
    BY <1>0, <1>2, a + b \in m .. 2 * m - 1, a + b \in Int, Remainder
  <2>3. (a - m + b) % m = a - m + b
    BY <1>0, <1>2, a - m + b \in 0 .. m - 1, a - m + b \in Int, Remainder
  <2>4. a - m \in 0 .. m - 1
    BY <1>0, <1>2
  <2>5. a - m + b = a + b - m
    BY <1>0
  <2> QED BY <1>m, <2>1, <2>2, <2>3, <2>4, <2>5, Zenon
<1> QED BY <1>0, <1>1, <1>2


-----------------------------------------------------------------------------
\* The missed-interrupt timer.

(* Whoever makes output active, or takes away what looks after it, leaves
   something in its place. *)
LEMMA TimerStep == TimerCoversOutput /\ [Next]_printVars => TimerCoversOutput'
<1> SUFFICES ASSUME TimerCoversOutput, [Next]_printVars
             PROVE  TimerCoversOutput'
  OBVIOUS
<1> USE DEF TimerCoversOutput
<1>1. ASSUME NEW w \in Writers, NEW n \in Counts, Write(w, n)
      PROVE  TimerCoversOutput'
  BY <1>1 DEF Write, device, buffer
<1>2. ASSUME NEW w \in Writers, Close(w) \/ Drained(w) \/ CloseInterrupted(w)
      PROVE  TimerCoversOutput'
  BY <1>2 DEF Close, Drained, CloseInterrupted, device, buffer
<1>3. ASSUME NEW w \in Writers, Down(w) \/ DownInterrupted(w) \/ Out(w)
      PROVE  TimerCoversOutput'
  BY <1>3 DEF Down, DownInterrupted, Out, device, buffer
<1>4. ASSUME NEW w \in Writers,
             SpaceTest(w) \/ HasSpace(w) \/ NoSpace(w) \/ Resume(w) \/ Interrupted(w)
             \/ WaitInterrupted(w)
      PROVE  TimerCoversOutput'
  BY <1>4 DEF SpaceTest, HasSpace, NoSpace, Resume, Interrupted, WaitInterrupted, device, buffer
<1>5. ASSUME NEW w \in Writers, Copy(w) \/ CopyFault(w) \/ Advance(w)
      PROVE  TimerCoversOutput'
  BY <1>5 DEF Copy, CopyFault, Advance, device
<1>6. ASSUME NEW w \in Writers, Kick(w)
      PROVE  TimerCoversOutput'
  BY <1>6 DEF Kick, StartOutput
<1>7. ASSUME Output
      PROVE  TimerCoversOutput'
  BY <1>7 DEF Output, WorkBegin, WorkEmpty, WorkByte, Record, buffer
<1>8. ASSUME Acknowledge \/ Ready \/ Interrupt \/ InterruptQueue
      PROVE  TimerCoversOutput'
  BY <1>8 DEF Acknowledge, Ready, Interrupt, InterruptQueue, buffer
<1>9. ASSUME Timeout \/ TimeoutStep
      PROVE  TimerCoversOutput'
  BY <1>9 DEF Timeout, TimeoutStep, TimeoutBusy, TimeoutMissed, TimeoutQueue, buffer
<1>10. ASSUME NEW r \in Readers,
              Read(r) \/ ReadInterrupted(r) \/ ReadTake(r) \/ ReadFault(r)
       PROVE  TimerCoversOutput'
  BY <1>10 DEF Read, ReadInterrupted, ReadTake, ReadFault, device, buffer
<1>11. CASE UNCHANGED printVars
  BY <1>11 DEF printVars, device, buffer
<1> HIDE DEF TimerCoversOutput
<1> QED BY <1>1, <1>2, <1>3, <1>4, <1>5, <1>6, <1>7, <1>8, <1>9, <1>10, <1>11
     DEF Next, Printing, Reading, WriterStep


-----------------------------------------------------------------------------
\* Types and places.

(* What a writer finds free lies within the buffer, and within what is free. *)
LEMMA FreeSpace ==
  ASSUME PrintTypeOK, RoomInv, NEW w \in Writers, pc[w] \in {"above", "below"},
         OutSpace(w) > 0
  PROVE  /\ OutSpace(w) \in Nat /\ OutSpace(w) <= PageSize
         /\ out_head + OutSpace(w) <= PageSize
         /\ Used + OutSpace(w) <= PageSize - 1
<1>1. /\ out_head \in 0 .. PageSize - 1 /\ out_tail \in 0 .. PageSize - 1
      /\ PageSize \in Nat \ {0}
  BY PrintAssumption DEF PrintTypeOK
<1>2. CASE pc[w] = "above"
  <2>1. out_head >= out_tail
    BY <1>2 DEF RoomInv
  <2>2. Used = out_head - out_tail
    BY <1>1, <2>1, UsedBytes DEF Used
  <2>3. CASE out_tail = 0
    <3>1. OutSpace(w) = PageSize - out_head - 1
      BY <1>2, <2>3 DEF OutSpace
    <3> QED BY <1>1, <2>2, <2>3, <3>1
  <2>4. CASE out_tail # 0
    <3>1. OutSpace(w) = PageSize - out_head
      BY <1>2, <2>4 DEF OutSpace
    <3> QED BY <1>1, <2>2, <2>4, <3>1
  <2> QED BY <2>3, <2>4
<1>3. CASE pc[w] = "below"
  <2>1. out_tail - out_head - 1 > 0
    BY <1>3 DEF OutSpace
  <2>2. out_head < out_tail
    BY <1>1, <2>1
  <2>3. Used = out_head - out_tail + PageSize
    BY <1>1, <2>2, UsedBytes DEF Used
  <2> QED BY <1>1, <1>3, <2>1, <2>3 DEF OutSpace
<1> QED BY <1>2, <1>3

LEMMA TypeStep ==
  ASSUME PrintTypeOK, PlacesInv, RoomInv, [Next]_printVars
  PROVE  PrintTypeOK' /\ PlacesInv'
<1> USE PrintAssumption DEF PrintTypeOK, PlacesInv, Procs, Holding, Go
<1>1. ASSUME NEW w \in Writers, NEW n \in Counts, Write(w, n)
      PROVE  PrintTypeOK' /\ PlacesInv'
  BY <1>1 DEF Write, device, buffer, input
<1>2. ASSUME NEW w \in Writers, Close(w)
      PROVE  PrintTypeOK' /\ PlacesInv'
  BY <1>2 DEF Close, device, buffer, input
<1>2a. ASSUME NEW w \in Writers, Drained(w)
       PROVE  PrintTypeOK' /\ PlacesInv'
  BY <1>2a DEF Drained, device, buffer, input
<1>2b. ASSUME NEW w \in Writers, CloseInterrupted(w)
       PROVE  PrintTypeOK' /\ PlacesInv'
  BY <1>2b DEF CloseInterrupted, device, buffer, input
<1>3. ASSUME NEW w \in Writers, Down(w)
      PROVE  PrintTypeOK' /\ PlacesInv'
  BY <1>3 DEF Down, device, input
<1>4. ASSUME NEW w \in Writers, DownInterrupted(w)
      PROVE  PrintTypeOK' /\ PlacesInv'
  BY <1>4 DEF DownInterrupted, device, buffer, input
<1>5. ASSUME NEW w \in Writers, SpaceTest(w)
      PROVE  PrintTypeOK' /\ PlacesInv'
  BY <1>5 DEF SpaceTest, device, buffer, input
<1>6. ASSUME NEW w \in Writers, HasSpace(w)
      PROVE  PrintTypeOK' /\ PlacesInv'
  <2>1. OutSpace(w) \in Nat /\ OutSpace(w) <= PageSize
    BY <1>6, FreeSpace DEF HasSpace
  <2> QED BY <1>6, <2>1 DEF HasSpace, device, buffer, input
<1>7. ASSUME NEW w \in Writers, NoSpace(w)
      PROVE  PrintTypeOK' /\ PlacesInv'
  <2>1. CASE w \in waiting
    <3>1. PrintTypeOK'
      BY <1>7, <2>1 DEF NoSpace, device, buffer, input
    <3>2. PlacesInv'
      <4>1. /\ pc' = [pc EXCEPT ![w] = "asleep"]
            /\ UNCHANGED <<out_sem, space, left, waiting>>
            /\ pc[w] \in {"above", "below"}
        BY <1>7, <2>1 DEF NoSpace, buffer
      <4>2. ASSUME NEW v \in Writers
            PROVE  /\ pc'[v] \in Holding <=> out_sem' = v
                   /\ v \in waiting' => pc'[v] \in {"test", "above", "below", "asleep"}
                   /\ pc'[v] = "asleep" => v \in waiting'
                   /\ pc'[v] \notin {"look", "unread", "take"}
        BY <2>1, <4>1
      <4> QED BY <4>1, <4>2
    <3> QED BY <3>1, <3>2
  <2>2. CASE w \notin waiting
    <3>1. PrintTypeOK'
      BY <1>7, <2>2 DEF NoSpace, device, buffer, input
    <3>2. PlacesInv'
      <4>1. /\ pc' = [pc EXCEPT ![w] = "test"] /\ waiting' = waiting \cup {w}
            /\ UNCHANGED <<out_sem, space, left>> /\ pc[w] \in {"above", "below"}
        BY <1>7, <2>2 DEF NoSpace, buffer
      <4>2. ASSUME NEW v \in Writers
            PROVE  /\ pc'[v] \in Holding <=> out_sem' = v
                   /\ v \in waiting' => pc'[v] \in {"test", "above", "below", "asleep"}
                   /\ pc'[v] = "asleep" => v \in waiting'
                   /\ pc'[v] \notin {"look", "unread", "take"}
        BY <4>1
      <4> QED BY <4>1, <4>2
    <3> QED BY <3>1, <3>2
  <2> QED BY <2>1, <2>2
<1>8. ASSUME NEW w \in Writers, Resume(w)
      PROVE  PrintTypeOK' /\ PlacesInv'
  BY <1>8 DEF Resume, device, buffer, input
<1>9. ASSUME NEW w \in Writers, Interrupted(w)
      PROVE  PrintTypeOK' /\ PlacesInv'
  BY <1>9 DEF Interrupted, device, buffer, input
<1>9b. ASSUME NEW w \in Writers, WaitInterrupted(w)
       PROVE  PrintTypeOK' /\ PlacesInv'
  BY <1>9b DEF WaitInterrupted, device, buffer, input
<1>10. ASSUME NEW w \in Writers, Copy(w)
       PROVE  PrintTypeOK' /\ PlacesInv'
  <2>1. /\ space[w] \in 0 .. PageSize /\ accepted \in 0 .. 2 * PageSize - 1
        /\ out_head \in 0 .. PageSize - 1
    BY DEF Byte
  <2>2. ASSUME NEW i \in out_head .. out_head + space[w] - 1
        PROVE  Nth(accepted + 1 + i - out_head) \in Byte
    BY <2>1, <2>2, accepted + 1 + i - out_head \in Int, IsByte
  <2>3. out_buffer' \in [0 .. PageSize - 1 -> Byte]
    BY <1>10, <2>2, Zenon DEF Copy
  <2> QED BY <1>10, <2>3 DEF Copy, device, input
<1>11. ASSUME NEW w \in Writers, CopyFault(w)
       PROVE  PrintTypeOK' /\ PlacesInv'
  BY <1>11 DEF CopyFault, device, input
<1>12. ASSUME NEW w \in Writers, Advance(w)
       PROVE  PrintTypeOK' /\ PlacesInv'
  <2>1. /\ space[w] \in 0 .. PageSize /\ accepted \in 0 .. 2 * PageSize - 1
        /\ out_head \in 0 .. PageSize - 1 /\ left[w] \in Nat
    BY DEF Byte
  <2>2. space[w] <= left[w]
    BY <1>12 DEF Advance, RoomInv
  <2>3. out_head' \in 0 .. PageSize - 1
    BY <1>12, <2>1, InBuffer DEF Advance
  <2>4. accepted' \in Byte
    BY <1>12, <2>1, accepted + space[w] \in Int, IsByte DEF Advance
  <2>5. left[w] - space[w] \in Nat
    BY <2>1, <2>2
  <2> QED BY <1>12, <2>3, <2>4, <2>5, SMTT(20) DEF Advance, device, input
<1>13. ASSUME NEW w \in Writers, Kick(w)
       PROVE  PrintTypeOK' /\ PlacesInv'
  BY <1>13 DEF Kick, StartOutput, input
<1>14. ASSUME NEW w \in Writers, Out(w)
       PROVE  PrintTypeOK' /\ PlacesInv'
  BY <1>14 DEF Out, device, input
<1>15. CASE WorkBegin
  BY <1>15 DEF WorkBegin, buffer, procs, input
<1>16. CASE WorkEmpty
  BY <1>16 DEF WorkEmpty, input
<1>17. CASE WorkByte
  <2>0. out_tail \in 0 .. PageSize - 1 /\ 1 \in 0 .. PageSize
    OBVIOUS
  <2>1. out_tail' \in 0 .. PageSize - 1
    BY <1>17, <2>0, InBuffer DEF WorkByte
  <2>2. data' \in Byte
    BY <1>17 DEF WorkByte
  <2> QED BY <1>17, <2>1, <2>2 DEF WorkByte, input
<1>18. CASE Record
  <2>1. in_head' \in 0 .. InSize - 1
    BY <1>18 DEF Record, IncrIn
  <2> QED BY <1>18, <2>1 DEF Record, buffer
<1>19. CASE Acknowledge \/ Ready \/ Interrupt \/ InterruptQueue
  <2>1. CASE Acknowledge
    BY <2>1 DEF Acknowledge, buffer, procs, input
  <2>2. CASE Ready
    BY <2>2 DEF Ready, buffer, procs, input
  <2>3. CASE Interrupt
    BY <2>3 DEF Interrupt, buffer, procs, input
  <2>4. CASE InterruptQueue
    BY <2>4 DEF InterruptQueue, buffer, procs, input
  <2> QED BY <1>19, <2>1, <2>2, <2>3, <2>4
<1>20. CASE Timeout \/ TimeoutStep
  <2>1. CASE Timeout
    BY <2>1 DEF Timeout, buffer, procs, input
  <2>2. CASE TimeoutBusy
    BY <2>2 DEF TimeoutBusy, buffer, procs, input
  <2>3. CASE TimeoutMissed
    BY <2>3 DEF TimeoutMissed, buffer, procs, input
  <2>4. CASE TimeoutQueue
    BY <2>4 DEF TimeoutQueue, buffer, procs, input
  <2> QED BY <1>20, <2>1, <2>2, <2>3, <2>4 DEF TimeoutStep
<1>21. ASSUME NEW r \in Readers, Read(r)
       PROVE  PrintTypeOK' /\ PlacesInv'
  <2>1. CASE in_head = in_tail
    <3>1. PrintTypeOK'
      BY <1>21, <2>1 DEF Read, device, buffer, input
    <3>2. /\ pc' = [pc EXCEPT ![r] = "unread"]
          /\ UNCHANGED <<out_sem, space, left, waiting>>
      BY <1>21, <2>1 DEF Read, buffer
    <3>3. PlacesInv'
      BY <3>2
    <3> QED BY <3>1, <3>3
  <2>2. CASE in_head # in_tail
    <3>1. PICK n \in 1 .. (IF in_head > in_tail THEN in_head ELSE InSize) - in_tail :
            space' = [space EXCEPT ![r] = n]
      BY <1>21, <2>2 DEF Read
    <3>2. n \in Nat
      BY <3>1
    <3>3. PrintTypeOK'
      BY <1>21, <2>2, <3>1 DEF Read, device, buffer, input
    <3>4. /\ pc' = [pc EXCEPT ![r] = "take"] /\ space' \in [Procs -> Nat]
          /\ UNCHANGED <<out_sem, left, waiting>>
      BY <1>21, <2>2, <3>1, <3>2 DEF Read, buffer
    <3>5. PlacesInv'
      BY <3>4
    <3> QED BY <3>3, <3>5
  <2> QED BY <2>1, <2>2
<1>22. ASSUME NEW r \in Readers, ReadInterrupted(r)
       PROVE  PrintTypeOK' /\ PlacesInv'
  BY <1>22 DEF ReadInterrupted, device, buffer, input
<1>22a. ASSUME NEW r \in Readers, ReadFault(r)
        PROVE  PrintTypeOK' /\ PlacesInv'
  BY <1>22a DEF ReadFault, device, buffer, input
<1>23. ASSUME NEW r \in Readers, ReadTake(r)
       PROVE  PrintTypeOK' /\ PlacesInv'
  <2>1. in_tail' \in 0 .. InSize - 1
    BY <1>23 DEF ReadTake, IncrIn
  <2> QED BY <1>23, <2>1 DEF ReadTake, device, buffer
<1>24. CASE UNCHANGED printVars
  BY <1>24 DEF printVars, device, buffer, procs, input
<1> HIDE DEF PrintTypeOK, PlacesInv, Procs, Holding, Go
<1> QED BY <1>1, <1>2, <1>2a, <1>2b, <1>3, <1>4, <1>5, <1>6, <1>7, <1>8, <1>9, <1>9b, <1>10,
           <1>11, <1>12, <1>13, <1>14, <1>15, <1>16, <1>17, <1>18, <1>19, <1>20, <1>21, <1>22, <1>22a,
           <1>23, <1>24
     DEF Next, Printing, Reading, WriterStep, Output


-----------------------------------------------------------------------------
\* The room a writer found stays free until it has filled it.

LEMMA UsedRange ==
  ASSUME PrintTypeOK
  PROVE  /\ out_head \in 0 .. PageSize - 1 /\ out_tail \in 0 .. PageSize - 1
         /\ PageSize \in Nat \ {0}
         /\ Used \in 0 .. PageSize - 1
         /\ out_head >= out_tail => Used = out_head - out_tail
         /\ out_head < out_tail => Used = out_head - out_tail + PageSize
<1>1. /\ out_head \in 0 .. PageSize - 1 /\ out_tail \in 0 .. PageSize - 1
      /\ PageSize \in Nat \ {0}
  BY PrintAssumption DEF PrintTypeOK
<1>2. /\ out_head >= out_tail => Used = out_head - out_tail
      /\ out_head < out_tail => Used = out_head - out_tail + PageSize
  BY <1>1, UsedBytes DEF Used
<1> QED BY <1>1, <1>2

(* The worker takes one byte and leaves the others. *)
LEMMA TakesOne ==
  ASSUME PrintTypeOK, PrintTypeOK', WorkByte
  PROVE  /\ Used \in 1 .. PageSize - 1 /\ Used' = Used - 1
         /\ out_head >= out_tail => out_head >= out_tail'
<1>1. /\ out_head \in 0 .. PageSize - 1 /\ out_tail \in 0 .. PageSize - 1
      /\ PageSize \in Nat \ {0} /\ out_head # out_tail /\ out_head' = out_head
  BY UsedRange DEF WorkByte
<1>2. out_tail' = IF out_tail + 1 < PageSize THEN out_tail + 1
                                             ELSE out_tail + 1 - PageSize
  BY <1>1, 1 \in 0 .. PageSize, Place DEF WorkByte
<1>3. /\ out_head >= out_tail => Used = out_head - out_tail
      /\ out_head < out_tail => Used = out_head - out_tail + PageSize
  BY UsedRange
<1>4. /\ out_tail' \in 0 .. PageSize - 1
      /\ out_head' >= out_tail' => Used' = out_head' - out_tail'
      /\ out_head' < out_tail' => Used' = out_head' - out_tail' + PageSize
  <2>1. out_head' \in 0 .. PageSize - 1 /\ out_tail' \in 0 .. PageSize - 1
    BY <1>1, <1>2
  <2> QED BY <2>1, UsedBytes DEF Used
<1> QED BY <1>1, <1>2, <1>3, <1>4

(* The writer moves the head over what it has filled. *)
LEMMA AddsSpace ==
  ASSUME PrintTypeOK, RoomInv, NEW w \in Writers, Advance(w), space[w] \in Nat
  PROVE  Used' = Used + space[w]
<1> DEFINE s == space[w]
<1>1. /\ out_head \in 0 .. PageSize - 1 /\ out_tail \in 0 .. PageSize - 1
      /\ PageSize \in Nat \ {0} /\ out_tail' = out_tail /\ s \in 0 .. PageSize
      /\ out_head + s <= PageSize /\ Used + s <= PageSize - 1 /\ Used \in Nat
  <2>1. /\ out_head \in 0 .. PageSize - 1 /\ out_tail \in 0 .. PageSize - 1
        /\ PageSize \in Nat \ {0} /\ s \in 0 .. PageSize
    BY PrintAssumption DEF PrintTypeOK
  <2>2. out_tail' = out_tail /\ out_head + s <= PageSize /\ Used + s <= PageSize - 1
    BY DEF Advance, RoomInv
  <2>3. Used \in Nat
    BY UsedRange
  <2> QED BY <2>1, <2>2, <2>3
<1>2. out_head' = IF out_head + s < PageSize THEN out_head + s
                                             ELSE out_head + s - PageSize
  BY <1>1, Place DEF Advance
<1>3. /\ out_head >= out_tail => Used = out_head - out_tail
      /\ out_head < out_tail => Used = out_head - out_tail + PageSize
  BY UsedRange
<1>4. /\ out_head' \in 0 .. PageSize - 1
      /\ out_head' >= out_tail' => Used' = out_head' - out_tail'
      /\ out_head' < out_tail' => Used' = out_head' - out_tail' + PageSize
  <2>1. out_head' \in 0 .. PageSize - 1 /\ out_tail' \in 0 .. PageSize - 1
    BY <1>1, <1>2
  <2> QED BY <2>1, UsedBytes DEF Used
<1> HIDE DEF s
<1>5. Used' = Used + s
  BY <1>1, <1>2, <1>3, <1>4
<1> QED BY <1>5 DEF s

(* A step that leaves the buffer alone, and the writers that rely on it. *)
LEMMA RoomKept ==
  ASSUME RoomInv, UNCHANGED <<out_head, out_tail, out_buffer, accepted>>,
         \A w \in Writers : pc'[w] \in {"above", "copy", "advance"} =>
           pc'[w] = pc[w] /\ space'[w] = space[w] /\ left'[w] = left[w]
  PROVE  RoomInv'
  BY DEF RoomInv, Used


LEMMA RoomStep ==
  ASSUME PrintTypeOK, PrintTypeOK', PlacesInv, RoomInv, [Next]_printVars
  PROVE  RoomInv'
<1>t. pc \in [Procs -> {"idle", "down", "closing", "draining", "look", "unread", "take"}
                         \cup Holding]
      /\ space \in [Procs -> Nat] /\ left \in [Writers -> Nat]
  BY DEF PlacesInv
<1>p. Writers \subseteq Procs /\ Readers \subseteq Procs /\ Writers \cap Readers = {}
  BY PrintAssumption DEF Procs
<1>h. ASSUME NEW w \in Writers, NEW v \in Writers, v # w, pc[w] \in Holding
      PROVE  pc[v] \notin Holding
  BY <1>h DEF PlacesInv
<1> USE DEF Go
<1>1. ASSUME NEW w \in Writers, NEW n \in Counts, Write(w, n)
      PROVE  RoomInv'
  BY <1>1, <1>t, <1>p, RoomKept DEF Write, buffer
<1>2. ASSUME NEW w \in Writers, Close(w) \/ Drained(w) \/ CloseInterrupted(w)
      PROVE  RoomInv'
  BY <1>2, <1>t, <1>p, RoomKept DEF Close, Drained, CloseInterrupted, buffer
<1>3. ASSUME NEW w \in Writers, Down(w) \/ DownInterrupted(w) \/ Out(w)
      PROVE  RoomInv'
  BY <1>3, <1>t, <1>p, RoomKept DEF Down, DownInterrupted, Out, buffer
<1>4. ASSUME NEW w \in Writers, SpaceTest(w)
      PROVE  RoomInv'
  <2>1. UNCHANGED <<out_head, out_tail, out_buffer, accepted, space, left>>
    BY <1>4 DEF SpaceTest, buffer
  <2>2. pc'[w] \in {"above", "below"} /\ (pc'[w] = "above" => out_head >= out_tail)
    BY <1>4, <1>t, <1>p DEF SpaceTest
  <2>3. \A v \in Writers \ {w} : pc'[v] = pc[v]
    BY <1>4, <1>t, <1>p DEF SpaceTest
  <2> QED BY <2>1, <2>2, <2>3 DEF RoomInv, Used
<1>5. ASSUME NEW w \in Writers, HasSpace(w)
      PROVE  RoomInv'
  <2>1. UNCHANGED <<out_head, out_tail, out_buffer, accepted, left>>
    BY <1>5 DEF HasSpace, buffer
  <2>2. pc'[w] = "copy" /\ \A v \in Writers \ {w} : pc'[v] = pc[v] /\ space'[v] = space[v]
    BY <1>5, <1>t, <1>p DEF HasSpace
  <2>3. /\ OutSpace(w) \in Nat /\ out_head + OutSpace(w) <= PageSize
        /\ Used + OutSpace(w) <= PageSize - 1
    BY <1>5, FreeSpace DEF HasSpace
  <2>4. space'[w] \in Nat /\ space'[w] <= left[w] /\ space'[w] <= OutSpace(w)
    BY <1>5, <1>t, <1>p, <2>3 DEF HasSpace
  <2>5. out_head + space'[w] <= PageSize /\ Used + space'[w] <= PageSize - 1
    BY <2>3, <2>4, UsedRange
  <2> QED BY <2>1, <2>2, <2>4, <2>5 DEF RoomInv, Used
<1>6. ASSUME NEW w \in Writers, NoSpace(w)
      PROVE  RoomInv'
  BY <1>6, <1>t, <1>p, RoomKept DEF NoSpace, buffer
<1>7. ASSUME NEW w \in Writers, Resume(w) \/ Interrupted(w) \/ WaitInterrupted(w) \/ CopyFault(w)
      PROVE  RoomInv'
  BY <1>7, <1>t, <1>p, RoomKept DEF Resume, Interrupted, WaitInterrupted, CopyFault, buffer
<1>8. ASSUME NEW w \in Writers, Copy(w)
      PROVE  RoomInv'
  <2>1. UNCHANGED <<out_head, out_tail, accepted, space, left>>
    BY <1>8 DEF Copy
  <2>2. pc[w] = "copy" /\ pc'[w] = "advance" /\ \A v \in Writers \ {w} : pc'[v] = pc[v]
    BY <1>8, <1>t, <1>p DEF Copy
  <2>3. \A v \in Writers \ {w} : pc'[v] \notin Holding
    BY <2>2, <1>h DEF Holding
  <2>4. space[w] \in Nat /\ out_head + space[w] <= PageSize
    BY <2>2, <1>t, <1>p DEF RoomInv
  <2>5. ASSUME NEW i \in 0 .. space[w] - 1
        PROVE  out_buffer'[out_head + i] = Nth(accepted + 1 + i)
    <3>0. accepted \in Int
      BY PrintAssumption DEF PrintTypeOK, Byte
    <3>1. /\ out_head + i \in 0 .. PageSize - 1
          /\ out_head + i \in out_head .. out_head + space[w] - 1
      BY <2>4, UsedRange
    <3>2. DOMAIN out_buffer = 0 .. PageSize - 1
      BY DEF PrintTypeOK
    <3>3. out_buffer'[out_head + i] = Nth(accepted + 1 + (out_head + i) - out_head)
      BY <1>8, <3>1, <3>2, Zenon DEF Copy
    <3>4. accepted + 1 + (out_head + i) - out_head = accepted + 1 + i
      BY <3>0, <3>1, UsedRange
    <3> QED BY <3>3, <3>4
  <2> QED BY <2>1, <2>2, <2>3, <2>5 DEF RoomInv, Used, Holding
<1>9. ASSUME NEW w \in Writers, Advance(w)
      PROVE  RoomInv'
  <2>1. pc[w] = "advance" /\ pc'[w] = "kick" /\ \A v \in Writers \ {w} : pc'[v] = pc[v]
    BY <1>9, <1>t, <1>p DEF Advance
  <2>2. \A v \in Writers \ {w} : pc'[v] \notin Holding
    BY <2>1, <1>h DEF Holding
  <2> QED BY <2>1, <2>2 DEF RoomInv, Holding
<1>10. ASSUME NEW w \in Writers, Kick(w)
       PROVE  RoomInv'
  BY <1>10, <1>t, <1>p, RoomKept DEF Kick
<1>11. CASE WorkByte
  <2>1. UNCHANGED <<out_head, out_buffer, accepted, pc, space, left>>
    BY <1>11 DEF WorkByte
  <2>2. /\ Used \in Nat /\ Used' = Used - 1 /\ PageSize \in Nat
        /\ out_head >= out_tail => out_head >= out_tail'
    BY <1>11, TakesOne, UsedRange
  <2>3. ASSUME NEW w \in Writers, Used + space[w] <= PageSize - 1
        PROVE  Used' + space[w] <= PageSize - 1
    BY <1>t, <1>p, <2>2, <2>3
  <2> QED BY <2>1, <2>2, <2>3 DEF RoomInv
<1>12. CASE WorkBegin \/ WorkEmpty \/ Record
  BY <1>12, <1>t, <1>p, RoomKept DEF WorkBegin, WorkEmpty, Record, buffer, procs
<1>13. CASE Acknowledge \/ Ready \/ Interrupt \/ InterruptQueue
  BY <1>13, RoomKept DEF Acknowledge, Ready, Interrupt, InterruptQueue, buffer, procs
<1>14. CASE Timeout \/ TimeoutStep
  BY <1>14, RoomKept DEF Timeout, TimeoutStep, TimeoutBusy, TimeoutMissed,
                         TimeoutQueue, buffer, procs
<1>15. ASSUME NEW r \in Readers,
              Read(r) \/ ReadInterrupted(r) \/ ReadTake(r) \/ ReadFault(r)
       PROVE  RoomInv'
  BY <1>15, <1>t, <1>p, RoomKept DEF Read, ReadInterrupted, ReadTake, ReadFault, buffer
<1>16. CASE UNCHANGED printVars
  BY <1>16, RoomKept DEF printVars, buffer, procs
<1> HIDE DEF Go
<1> QED BY <1>1, <1>2, <1>3, <1>4, <1>5, <1>6, <1>7, <1>8, <1>9, <1>10, <1>11, <1>12,
           <1>13, <1>14, <1>15, <1>16
     DEF Next, Printing, Reading, WriterStep, Output


-----------------------------------------------------------------------------
\* The printer gets every byte, in order.

(* A step that leaves the buffer and the printer's data alone. *)
LEMMA OrderKept ==
  ASSUME PrintsInOrder,
         UNCHANGED <<out_head, out_tail, out_buffer, accepted, data>>
  PROVE  PrintsInOrder'
  BY DEF PrintsInOrder, Used

LEMMA OrderWorkByte ==
  ASSUME PrintTypeOK, PrintTypeOK', PrintsInOrder, WorkByte
  PROVE  PrintsInOrder'
<1>1. /\ Used \in 1 .. PageSize - 1 /\ Used' = Used - 1
      /\ out_tail \in 0 .. PageSize - 1 /\ PageSize \in Nat \ {0}
      /\ UNCHANGED <<out_buffer, accepted>> /\ data \in Nat /\ data < 2 * PageSize
  <2>1. data \in Byte
    BY DEF PrintTypeOK
  <2>2. data \in Nat /\ data < 2 * PageSize
    BY <2>1, ByteRange
  <2>3. UNCHANGED <<out_buffer, accepted>>
    BY DEF WorkByte
  <2> QED BY <2>2, <2>3, TakesOne, UsedRange
<1>2. data' = Nth(data + 1)
  <2>1. out_buffer[(out_tail + 0) % PageSize] = Nth(data + 1 + 0)
    BY <1>1, 0 \in 0 .. Used - 1 DEF PrintsInOrder
  <2>2. (out_tail + 0) % PageSize = out_tail
    <3>1. (out_tail + 0) % PageSize =
            IF out_tail + 0 < PageSize THEN out_tail + 0 ELSE out_tail + 0 - PageSize
      BY <1>1, 0 \in 0 .. PageSize, Place
    <3> QED BY <1>1, <3>1
  <2>3. data' = out_buffer[out_tail] /\ data + 1 + 0 = data + 1
    BY <1>1 DEF WorkByte
  <2> QED BY <2>1, <2>2, <2>3
<1>3. ASSUME NEW n \in 0 .. PageSize
      PROVE  Nth(data' + n) = Nth(data + 1 + n)
  <2>1. data + 1 \in Nat /\ n \in Nat /\ data + 1 + n < 4 * PageSize
    BY <1>1
  <2>2. Nth(Nth(data + 1) + n) = Nth(data + 1 + n)
    BY <2>1, Onwards
  <2> QED BY <1>2, <2>2
<1>4. accepted' = Nth(data' + Used')
  <2>1. Used' \in 0 .. PageSize /\ data + 1 + Used' = data + Used
    BY <1>1
  <2>2. accepted = Nth(data + Used)
    BY DEF PrintsInOrder
  <2> QED BY <1>1, <1>3, <2>1, <2>2
<1>5. ASSUME NEW i \in 0 .. Used' - 1
      PROVE  out_buffer'[(out_tail' + i) % PageSize] = Nth(data' + 1 + i)
  <2>1. /\ i + 1 \in 0 .. Used - 1 /\ i + 1 \in 0 .. PageSize /\ i \in 0 .. PageSize
        /\ data + 1 + (i + 1) = data + 1 + i + 1
    BY <1>1
  <2>2. out_buffer[(out_tail + (i + 1)) % PageSize] = Nth(data + 1 + (i + 1))
    BY <2>1 DEF PrintsInOrder
  <2>3. data' \in Nat /\ data' + 1 + i = data' + (i + 1)
    BY <2>1, PrintAssumption, SMTT(20) DEF PrintTypeOK, Byte
  <2>4. (out_tail' + i) % PageSize = (out_tail + (i + 1)) % PageSize
    <3>1. out_tail' = IF out_tail + 1 < PageSize THEN out_tail + 1
                                                 ELSE out_tail + 1 - PageSize
      BY <1>1, 1 \in 0 .. PageSize, Place DEF WorkByte
    <3>2. out_tail' \in 0 .. PageSize - 1
      BY <1>1, <3>1
    <3>3. (out_tail' + i) % PageSize =
            IF out_tail' + i < PageSize THEN out_tail' + i ELSE out_tail' + i - PageSize
      BY <2>1, <3>2, Place
    <3>4. (out_tail + (i + 1)) % PageSize =
            IF out_tail + (i + 1) < PageSize THEN out_tail + (i + 1)
                                             ELSE out_tail + (i + 1) - PageSize
      BY <1>1, <2>1, Place
    <3> QED BY <1>1, <2>1, <3>1, <3>3, <3>4
  <2> QED BY <1>1, <1>3, <2>1, <2>2, <2>3, <2>4
<1> QED BY <1>4, <1>5 DEF PrintsInOrder

(* Copying overwrites no byte that is still to be printed. *)
LEMMA OrderCopy ==
  ASSUME PrintTypeOK, PlacesInv, RoomInv, PrintsInOrder, NEW w \in Writers, Copy(w)
  PROVE  PrintsInOrder'
<1>1. /\ UNCHANGED <<out_head, out_tail, accepted, data>>
      /\ space[w] \in Nat /\ Used + space[w] <= PageSize - 1
      /\ out_head + space[w] <= PageSize
  BY PrintAssumption DEF Copy, device, RoomInv, PrintTypeOK
<1>2. ASSUME NEW i \in 0 .. Used - 1
      PROVE  out_buffer'[(out_tail + i) % PageSize] = out_buffer[(out_tail + i) % PageSize]
  <2> DEFINE k == (out_tail + i) % PageSize
  <2>1. k = IF out_tail + i < PageSize THEN out_tail + i ELSE out_tail + i - PageSize
    BY UsedRange, i \in 0 .. PageSize, Place
  <2>2. k \in 0 .. PageSize - 1 /\ k \notin out_head .. out_head + space[w] - 1
    BY <1>1, <2>1, UsedRange
  <2>3. DOMAIN out_buffer = 0 .. PageSize - 1
    BY DEF PrintTypeOK
  <2> HIDE DEF k
  <2>4. out_buffer'[k] = out_buffer[k]
    BY <2>2, <2>3, Zenon DEF Copy
  <2> QED BY <2>4 DEF k
<1> QED BY <1>1, <1>2 DEF PrintsInOrder, Used

LEMMA OrderAdvance ==
  ASSUME PrintTypeOK, RoomInv, PrintsInOrder, NEW w \in Writers, Advance(w)
  PROVE  PrintsInOrder'
<1> DEFINE s == space[w]
<1>1. /\ UNCHANGED <<out_buffer, out_tail, data>>
      /\ s \in Nat /\ Used \in Nat /\ Used + s <= PageSize - 1
      /\ data \in Nat /\ data < 2 * PageSize /\ PageSize \in Nat \ {0}
  <2>1. data \in Byte /\ s \in Nat
    BY PrintAssumption DEF PrintTypeOK
  <2>2. data \in Nat /\ data < 2 * PageSize
    BY <2>1, ByteRange
  <2>3. UNCHANGED <<out_buffer, out_tail, data>> /\ Used + s <= PageSize - 1
    BY DEF Advance, device, RoomInv
  <2> QED BY <2>1, <2>2, <2>3, UsedRange
<1>2. Used' = Used + s
  BY <1>1, AddsSpace
<1>3. ASSUME NEW n \in 0 .. PageSize
      PROVE  Nth(accepted + n) = Nth(data + Used + n)
  <2>1. data + Used \in Nat /\ n \in Nat /\ data + Used + n < 4 * PageSize
    BY <1>1
  <2>2. Nth(Nth(data + Used) + n) = Nth(data + Used + n)
    BY <2>1, Onwards
  <2> QED BY <2>2 DEF PrintsInOrder
<1>4. accepted' = Nth(data' + Used')
  <2>1. s \in 0 .. PageSize /\ data + Used + s = data + (Used + s)
    BY <1>1
  <2>2. accepted' = Nth(accepted + s)
    BY DEF Advance
  <2> QED BY <1>1, <1>2, <1>3, <2>1, <2>2
<1>5. ASSUME NEW i \in 0 .. Used' - 1
      PROVE  out_buffer'[(out_tail' + i) % PageSize] = Nth(data' + 1 + i)
  <2>1. CASE i < Used
    <3>1. i \in 0 .. Used - 1
      BY <1>1, <2>1
    <3> QED BY <1>1, <3>1 DEF PrintsInOrder
  <2>2. CASE i >= Used
    <3> DEFINE j == i - Used
    <3>1. j \in 0 .. s - 1 /\ j + 1 \in 0 .. PageSize /\ i \in 0 .. PageSize
      BY <1>1, <1>2, <2>2
    <3>2. (out_tail + i) % PageSize = out_head + j
      <4>1. (out_tail + i) % PageSize =
              IF out_tail + i < PageSize THEN out_tail + i ELSE out_tail + i - PageSize
        BY <3>1, UsedRange, Place
      <4>2. out_head + s <= PageSize
        BY DEF Advance, RoomInv
      <4> QED BY <1>1, <2>2, <3>1, <4>1, <4>2, UsedRange
    <3>3. out_buffer[out_head + j] = Nth(accepted + 1 + j)
      BY <3>1 DEF Advance, RoomInv
    <3>4. accepted \in Nat /\ accepted + 1 + j = accepted + (j + 1)
      BY <1>1, <3>1 DEF PrintTypeOK, Byte
    <3>5. data + Used + (j + 1) = data + 1 + i
      BY <1>1, <2>2
    <3> HIDE DEF j
    <3>6. Nth(accepted + (j + 1)) = Nth(data + Used + (j + 1))
      BY <1>3, <3>1
    <3> QED BY <1>1, <3>2, <3>3, <3>4, <3>5, <3>6
  <2>3. i \in Int /\ Used \in Int
    BY <1>1
  <2> QED BY <2>1, <2>2, <2>3
<1> QED BY <1>4, <1>5 DEF PrintsInOrder


LEMMA OrderStep ==
  ASSUME PrintTypeOK, PrintTypeOK', PlacesInv, RoomInv, PrintsInOrder, [Next]_printVars
  PROVE  PrintsInOrder'
<1>1. ASSUME NEW w \in Writers, NEW n \in Counts, Write(w, n)
      PROVE  PrintsInOrder'
  BY <1>1, OrderKept DEF Write, device, buffer
<1>2. ASSUME NEW w \in Writers, Close(w) \/ Drained(w) \/ CloseInterrupted(w)
      PROVE  PrintsInOrder'
  BY <1>2, OrderKept DEF Close, Drained, CloseInterrupted, device, buffer
<1>3. ASSUME NEW w \in Writers, Down(w) \/ DownInterrupted(w) \/ Out(w) \/ Kick(w)
      PROVE  PrintsInOrder'
  BY <1>3, OrderKept DEF Down, DownInterrupted, Out, Kick, device, buffer
<1>4. ASSUME NEW w \in Writers,
             \/ SpaceTest(w) \/ HasSpace(w) \/ NoSpace(w) \/ Resume(w)
             \/ Interrupted(w) \/ WaitInterrupted(w) \/ CopyFault(w)
      PROVE  PrintsInOrder'
  BY <1>4, OrderKept DEF SpaceTest, HasSpace, NoSpace, Resume, Interrupted, WaitInterrupted, CopyFault,
                         device, buffer
<1>5. ASSUME NEW w \in Writers, Copy(w) \/ Advance(w)
      PROVE  PrintsInOrder'
  BY <1>5, OrderCopy, OrderAdvance
<1>6. CASE WorkByte
  BY <1>6, OrderWorkByte
<1>7. CASE WorkBegin \/ WorkEmpty \/ Record
  BY <1>7, OrderKept DEF WorkBegin, WorkEmpty, Record, buffer
<1>8. CASE Acknowledge \/ Ready \/ Interrupt \/ InterruptQueue
  BY <1>8, OrderKept DEF Acknowledge, Ready, Interrupt, InterruptQueue, buffer
<1>9. CASE Timeout \/ TimeoutStep
  BY <1>9, OrderKept DEF Timeout, TimeoutStep, TimeoutBusy, TimeoutMissed,
                         TimeoutQueue, buffer
<1>10. ASSUME NEW r \in Readers,
              Read(r) \/ ReadInterrupted(r) \/ ReadTake(r) \/ ReadFault(r)
       PROVE  PrintsInOrder'
  BY <1>10, OrderKept DEF Read, ReadInterrupted, ReadTake, ReadFault, device, buffer
<1>11. CASE UNCHANGED printVars
  BY <1>11, OrderKept DEF printVars, device, buffer
<1> QED BY <1>1, <1>2, <1>3, <1>4, <1>5, <1>6, <1>7, <1>8, <1>9, <1>10, <1>11
     DEF Next, Printing, Reading, WriterStep, Output

-----------------------------------------------------------------------------
\* The theorems.

LEMMA PrintInvInit == Init => PrintInv
<1> SUFFICES ASSUME Init
             PROVE  PrintInv
  OBVIOUS
<1>1. PrintTypeOK
  <2>1. PageSize \in Nat \ {0} /\ InSize \in Nat \ {0}
    BY PrintAssumption
  <2>2. 0 \in 0 .. PageSize - 1 /\ 0 \in 0 .. InSize - 1 /\ 0 \in 0 .. PageSize
    BY <2>1
  <2>3. 0 \in Byte
    BY <2>1 DEF Byte
  <2> QED BY <2>2, <2>3 DEF Init, PrintTypeOK
<1>2. PlacesInv
  BY PrintAssumption DEF Init, PlacesInv, Procs, Holding
<1>3. RoomInv
  BY DEF Init, RoomInv
<1>4. PrintsInOrder
  <2>1. Used = 0 /\ data = 0 /\ accepted = 0
    BY <1>1, UsedRange DEF Init
  <2>2. Nth(0) = 0
    BY PrintAssumption DEF Nth
  <2> QED BY <2>1, <2>2 DEF PrintsInOrder
<1>5. TimerCoversOutput
  BY DEF Init, TimerCoversOutput
<1> QED BY <1>1, <1>2, <1>3, <1>4, <1>5 DEF PrintInv

(* PrintInv holds in every state, whoever writes and whatever gets lost. *)
THEOREM PrintInvariant == Spec => []PrintInv
<1>1. PrintInv /\ [Next]_printVars => PrintInv'
  BY TypeStep, RoomStep, OrderStep, TimerStep DEF PrintInv
<1> QED BY PrintInvInit, <1>1, PTL DEF Spec

(* Head and tail stay inside the page, no writer is given more room than the page
   has, and who wakes up from shortp_out_queue is in its wait loop. *)
THEOREM PrintTypes == Spec => []PrintTypeOK
<1>1. PrintInv => PrintTypeOK
  BY DEF PrintInv
<1> QED BY <1>1, PrintInvariant, PTL

(* However the writers, the work function and the interrupts interleave, the
   buffer holds exactly the bytes written and not yet printed, in their order. *)
THEOREM PrintOrder == Spec => []PrintsInOrder
<1>1. PrintInv => PrintsInOrder
  BY DEF PrintInv
<1> QED BY <1>1, PrintInvariant, PTL

(* Output is never active with nothing left that will look after it. *)
THEOREM PrintTimer == Spec => []TimerCoversOutput
<1>1. PrintInv => TimerCoversOutput
  BY DEF PrintInv
<1> QED BY <1>1, PrintInvariant, PTL

(* Two writers are never both between down_interruptible() and up(): the bytes of
   one write() are not interleaved with those of another (shortprint.c:275-278). *)
THEOREM PrintExclusive ==
  Spec => [](\A v, w \in Writers : pc[v] \in Holding /\ pc[w] \in Holding => v = w)
<1>1. PrintInv => \A v, w \in Writers : pc[v] \in Holding /\ pc[w] \in Holding => v = w
  BY DEF PrintInv, PlacesInv
<1> QED BY <1>1, PrintInvariant, PTL
=============================================================================
