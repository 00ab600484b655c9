---------------------------- MODULE ScullMemProofs ----------------------------
(***************************************************************************)
(* Theorems about ScullMem for any processes, any parameters (negative and *)
(* zero ones among them), any payloads and offsets, and any bounds.        *)
(*                                                                         *)
(* They hold of a device whose list one process at a time works on: since  *)
(* open() takes the semaphore (Locked), or since only one process has the  *)
(* device (OneUser), which is what the open() functions of scull/access.c  *)
(* are for.  What is said of the list holds until a call works by another  *)
(* geometry than the device's, or by a negative quantum (misfit).  No call *)
(* does if no quantum is negative and nobody changes the parameters or one *)
(* process has the device (Steady).                                        *)
(***************************************************************************)
EXTENDS ScullMem, SequenceTheorems, TLAPS

Bytes == Byte \cup {Junk}
Lists == Seq(Seq(Seq(Bytes)))
Geometry == [quantum : Quanta, qset : Qsets]

OneUser == \E u \in Procs : \A p \in Procs \ {u} : Modes[p] = {}
Guarded == Locked \/ OneUser

Inside  == Trimming \cup Accesses
Writing == {"write_down", "write_find", "write_copy"}
InCall  == Accesses \cup {"read_down", "write_down"}

(* TypeOK, and what the local variables are functions of. *)
Types ==
  /\ TypeOK
  /\ geo \in [Procs -> {NoGeo} \cup Geometry]
  /\ arg \in [Procs -> {None} \cup Seq(Bytes)]
  /\ want \in [Procs -> Nat]

(* The semaphore's holder is where it is needed.  Nobody waits for it in an
   open() that does not take it, and who may not open the device has not. *)
SemInv ==
  /\ \A p \in Procs : pc[p] \in Critical <=> sem = p
  /\ \A p \in Procs : pc[p] = "open_down" => Locked
  /\ \A p \in Procs : Modes[p] = {} => pc[p] = "closed"

(* No process holds a dead pointer, and dev->data is one only in scull_trim(). *)
FreedInv ==
  /\ stale = {}
  /\ freed => \E p \in Procs : pc[p] = "trim_reset"

(* What a call has noted and what it still has to do. *)
CallInv(p) ==
  /\ pc[p] \in InCall => geo[p] \in Geometry
  /\ pc[p] \in {"read_copy", "write_copy"} => Itemsize(p) # 0
  /\ pc[p] = "read_copy" => pos[p] + want[p] <= MaxPos
  /\ pc[p] \in Writing => arg[p] \in Seq(Byte) /\ pos[p] + Len(arg[p]) <= MaxPos

(* What every step keeps of a device that one process at a time works on. *)
MemInv == Types /\ SemInv /\ FreedInv /\ \A p \in Procs : CallInv(p)

Steady == Tuners = {} \/ OneUser

(* The parameters and the geometry that a call noted, while it is steady. *)
GeometryInv ==
  /\ Tuners = {} => scull_quantum = quantum /\ scull_qset = qset
  /\ \A p \in Procs : pc[p] \in InCall => geo[p] = Noted

(* Every array of list d has qset places, every quantum holds quantum bytes. *)
Shaped(d) ==
  \A i \in 1 .. Len(d) :
    d[i] # <<>> =>
      /\ Len(d[i]) = qset
      /\ \A j \in 1 .. qset : d[i][j] # <<>> => Len(d[i][j]) = quantum

Backed(x) == Usable /\ (Kept(x) \/ (x > 0 /\ Kept(x - 1)))

(* The list, and where in it a call is. *)
ListInv ==
  /\ ~wild /\ Shaped(data)
  /\ size > 0 /\ ~freed => Backed(size)
  /\ \A p \in Procs : pc[p] \in {"read_copy", "write_copy"} => Fits(p) /\ HasQuantum(data, p)
  /\ \A p \in Procs : pc[p] = "write_size" => Backed(pos[p])

(* What a step keeps moreover until a call works by a wrong geometry. *)
ShapeInv == misfit \/ ListInv

-----------------------------------------------------------------------------
\* Arithmetic of positions.

LEMMA Division ==
  ASSUME NEW n \in Nat \ {0}, NEW x \in Nat
  PROVE  /\ x \div n \in Nat /\ x % n \in 0 .. n - 1
         /\ x = n * (x \div n) + (x % n)
<1>1. x % n \in 0 .. n - 1
  OBVIOUS
<1>2. x = n * (x \div n) + (x % n)
  OBVIOUS
<1>3. x \div n \in Int /\ x \div n >= 0
  OBVIOUS
<1> QED BY <1>1, <1>2, <1>3

LEMMA DivisionUnique ==
  ASSUME NEW n \in Nat \ {0}, NEW x \in Nat, NEW d \in Nat, NEW r \in 0 .. n - 1,
         x = n * d + r
  PROVE  x \div n = d /\ x % n = r
OBVIOUS

(* A position lies in one place of one quantum of one array. *)
LEMMA Location ==
  ASSUME NEW q \in Nat \ {0}, NEW s \in Nat \ {0}, NEW x \in Nat
  PROVE  /\ q * s \in Nat \ {0}
         /\ x \div (q * s) \in Nat /\ x % (q * s) \in 0 .. q * s - 1
         /\ (x % (q * s)) \div q \in 0 .. s - 1
         /\ (x % (q * s)) % q \in 0 .. q - 1
<1> DEFINE n == q * s
           r == x % n
           j == r \div q
<1>1. n \in Nat \ {0}
  OBVIOUS
<1> HIDE DEF n
<1>2. x \div n \in Nat /\ r \in 0 .. n - 1
  BY <1>1, Division
<1> HIDE DEF r
<1>3. j \in Nat /\ r % q \in 0 .. q - 1 /\ r = q * j + (r % q)
  BY <1>2, r \in Nat, Division
<1> HIDE DEF j
<1>4. j < s
  <2>1. SUFFICES ASSUME j >= s PROVE FALSE
    BY <1>3
  <2>2. q * j >= q * s
    BY <1>3, <2>1
  <2>3. r < q * s
    BY <1>2 DEF n
  <2> QED BY <1>2, <1>3, <2>2, <2>3
<1> QED BY <1>1, <1>2, <1>3, <1>4 DEF n, r, j

(* The rest of a quantum lies in it. *)
LEMMA SameQuantum ==
  ASSUME NEW q \in Nat \ {0}, NEW s \in Nat \ {0}, NEW x \in Nat, NEW k \in Nat,
         ((x % (q * s)) % q) + k < q
  PROVE  /\ (x + k) \div (q * s) = x \div (q * s)
         /\ ((x + k) % (q * s)) \div q = (x % (q * s)) \div q
<1> DEFINE n == q * s
           d == x \div n
           r == x % n
           j == r \div q
           b == r % q
<1>1. n \in Nat \ {0} /\ d \in Nat /\ r \in Nat /\ j \in 0 .. s - 1 /\ b \in 0 .. q - 1
  <2>1. /\ n \in Nat \ {0} /\ d \in Nat /\ r \in 0 .. n - 1
        /\ j \in 0 .. s - 1 /\ b \in 0 .. q - 1
    BY Location, Zenon
  <2> HIDE DEF n, d, r, j, b
  <2> QED BY <2>1
<1>2. n = q * s /\ b + k < q
  OBVIOUS
<1> HIDE DEF n
<1>3. x = n * d + r
  BY <1>1, Division
<1> HIDE DEF d, r
<1>4. r = q * j + b
  BY <1>1, Division
<1> HIDE DEF j, b
<1>5. r + k \in 0 .. n - 1
  <2>1. q * (j + 1) <= q * s
    BY <1>1
  <2>2. q * (j + 1) = q * j + q
    BY <1>1
  <2> QED BY <1>1, <1>2, <1>4, <2>1, <2>2
<1>6. x + k = n * d + (r + k)
  BY <1>1, <1>3
<1>7. (x + k) \div n = d /\ (x + k) % n = r + k
  BY <1>1, <1>5, <1>6, x + k \in Nat, DivisionUnique
<1>8. r + k = q * j + (b + k)
  BY <1>1, <1>4
<1>9. (r + k) \div q = j
  BY <1>1, <1>2, <1>8, r + k \in Nat, b + k \in 0 .. q - 1, DivisionUnique
<1> QED BY <1>7, <1>9 DEF n, d, r, j

(* A noted geometry of no bytes is not used, whatever else it is. *)
LEMMA Places ==
  ASSUME Types, NEW p \in Procs, geo[p] \in Geometry, Itemsize(p) # 0
  PROVE  /\ geo[p].quantum \in Int \ {0} /\ geo[p].qset \in Int
         /\ Item(p) \in Int /\ SPos(p) \in Int /\ QPos(p) \in Nat
<1> DEFINE q == geo[p].quantum
           n == Itemsize(p)
           r == Rest(p)
<1>1. q \in Int /\ geo[p].qset \in Int /\ n = q * geo[p].qset
  BY MemAssumption DEF Geometry, Itemsize
<1>2. n \in Int \ {0}
  BY <1>1
<1>3. q # 0
  BY <1>1, <1>2
<1>4. pos[p] \in Nat
  BY MemAssumption DEF Types, TypeOK
<1>5. ASSUME NEW x \in Nat, NEW m \in Int \ {0}
      PROVE  Quot(x, m) \in Int /\ Rem(x, m) \in Nat
  <2>1. CASE m > 0
    BY <2>1, Division DEF Quot, Rem
  <2>2. CASE m < 0
    <3>1. -m \in Nat \ {0}
      BY <2>2
    <3> DEFINE k == -m
    <3>2. k \in Nat \ {0}
      BY <3>1
    <3>3. Quot(x, m) = -(x \div k) /\ Rem(x, m) = x % k
      BY <2>2 DEF Quot, Rem
    <3> HIDE DEF k
    <3>4. x \div k \in Nat /\ x % k \in Nat
      BY <3>2, Division
    <3> QED BY <3>3, <3>4
  <2> QED BY <2>1, <2>2
<1>6. Item(p) = Quot(pos[p], n) /\ r = Rem(pos[p], n)
  BY DEF Item, Rest
<1>7. SPos(p) = Quot(r, q) /\ QPos(p) = Rem(r, q)
  BY DEF SPos, QPos
<1> HIDE DEF q, n, r
<1>8. Item(p) \in Int /\ r \in Nat
  BY <1>2, <1>4, <1>5, <1>6
<1>9. SPos(p) \in Int /\ QPos(p) \in Nat
  BY <1>1, <1>3, <1>5, <1>7, <1>8
<1> QED BY <1>1, <1>3, <1>8, <1>9 DEF q

(* By a usable geometry a position lies in one place. *)
LEMMA UsablePlaces ==
  ASSUME Types, NEW p \in Procs, Fits(p), Usable
  PROVE  /\ quantum \in Nat \ {0} /\ qset \in Nat \ {0} /\ pos[p] \in Nat
         /\ geo[p].quantum = quantum /\ geo[p].qset = qset /\ Itemsize(p) # 0
         /\ Item(p) = pos[p] \div (quantum * qset)
         /\ SPos(p) = (pos[p] % (quantum * qset)) \div quantum
         /\ QPos(p) = (pos[p] % (quantum * qset)) % quantum
         /\ Item(p) \in Nat /\ SPos(p) \in 0 .. qset - 1 /\ QPos(p) \in 0 .. quantum - 1
<1>1. geo[p].quantum = quantum /\ geo[p].qset = qset
  BY DEF Fits, Noted
<1>2. quantum \in Nat \ {0} /\ qset \in Nat \ {0} /\ pos[p] \in Nat
  BY MemAssumption DEF Types, TypeOK, Usable
<1>3. quantum * qset > 0
  BY <1>2, Location
<1>4. /\ Item(p) = pos[p] \div (quantum * qset)
      /\ SPos(p) = (pos[p] % (quantum * qset)) \div quantum
      /\ QPos(p) = (pos[p] % (quantum * qset)) % quantum
  BY <1>1, <1>3, Zenon DEF Item, SPos, QPos, Rest, Itemsize, Quot, Rem, Usable
<1>5. /\ pos[p] \div (quantum * qset) \in Nat
      /\ (pos[p] % (quantum * qset)) \div quantum \in 0 .. qset - 1
      /\ (pos[p] % (quantum * qset)) % quantum \in 0 .. quantum - 1
  BY <1>2, Location, Zenon
<1>6. Itemsize(p) # 0
  BY <1>1, <1>2, <1>3 DEF Itemsize
<1> QED BY <1>1, <1>2, <1>4, <1>5, <1>6, Zenon

-----------------------------------------------------------------------------
\* The list, its arrays and their quanta.

LEMMA Replaced ==
  ASSUME NEW S, NEW d \in Seq(Seq(S)), NEW i \in 1 .. Len(d), NEW j \in 1 .. Len(d[i]),
         NEW v \in S, NEW e, e = [d EXCEPT ![i] = [d[i] EXCEPT ![j] = v]]
  PROVE  /\ e \in Seq(Seq(S)) /\ Len(e) = Len(d)
         /\ \A k \in 1 .. Len(d) : k # i => e[k] = d[k]
         /\ Len(e[i]) = Len(d[i])
         /\ \A k \in 1 .. Len(d[i]) : e[i][k] = IF k = j THEN v ELSE d[i][k]
<1> DEFINE a == [d[i] EXCEPT ![j] = v]
<1>1. d[i] \in Seq(S)
  BY ElementOfSeq
<1>2. /\ a \in Seq(S) /\ Len(a) = Len(d[i])
      /\ \A k \in 1 .. Len(d[i]) : a[k] = IF k = j THEN v ELSE d[i][k]
  BY <1>1, ExceptSeq
<1>3. e = [d EXCEPT ![i] = a]
  OBVIOUS
<1> HIDE DEF a
<1>4. /\ e \in Seq(Seq(S)) /\ Len(e) = Len(d)
      /\ \A k \in 1 .. Len(d) : e[k] = IF k = i THEN a ELSE d[k]
  BY <1>2, <1>3, ExceptSeq
<1> QED BY <1>2, <1>4

LEMMA NullsSeq ==
  ASSUME NEW n \in Nat, NEW S
  PROVE  /\ Nulls(n) \in Seq(Seq(S)) /\ Len(Nulls(n)) = n
         /\ \A i \in 1 .. n : Nulls(n)[i] = <<>>
<1>1. <<>> \in Seq(S)
  BY EmptySeq
<1> QED BY <1>1 DEF Nulls

(* scull_follow() adds empty items. *)
LEMMA Follows ==
  ASSUME Types, NEW p \in Procs, Item(p) \in Int, NEW d \in Followed(p)
  PROVE  /\ d \in Lists /\ Len(d) >= Len(data) /\ Len(data) \in Nat
         /\ \A i \in 1 .. Len(d) : d[i] = IF i <= Len(data) THEN data[i] ELSE <<>>
<1>1. data \in Lists /\ Len(data) \in Nat
  <2>1. data \in Lists
    BY DEF Types, TypeOK, Lists, Bytes
  <2> QED BY <2>1, LenProperties DEF Lists
<1>2. PICK k \in Nat : d = data \o Nulls(k)
  <2> DEFINE m == Max2(0, (IF Item(p) < 0 THEN MaxItems ELSE Item(p) + 1) - Len(data))
  <2>1. m \in Int
    BY <1>1, MemAssumption DEF Max2
  <2>2. d \in {data \o Nulls(k) : k \in 0 .. m}
    BY DEF Followed
  <2> HIDE DEF m
  <2> QED BY <2>1, <2>2
<1>3. /\ Nulls(k) \in Lists /\ Len(Nulls(k)) = k
      /\ \A i \in 1 .. k : Nulls(k)[i] = <<>>
  BY NullsSeq DEF Lists
<1>4. /\ d \in Lists /\ Len(d) = Len(data) + k
      /\ \A i \in 1 .. Len(data) + k :
           d[i] = IF i <= Len(data) THEN data[i] ELSE Nulls(k)[i - Len(data)]
  BY <1>1, <1>2, <1>3, ConcatProperties DEF Lists
<1> QED BY <1>1, <1>3, <1>4

(* Where the caller's position lies, a missing array is added ... *)
LEMMA ArrayAdded ==
  ASSUME NEW p \in Procs, NEW d \in Lists, Item(p) \in Int, Reaches(d, p),
         geo[p].qset \in Int, HasArray(d, p) \/ geo[p].qset > 0
  PROVE  LET e == WithArray(d, p)
             i == Item(p) + 1
         IN  /\ e \in Lists /\ Len(e) = Len(d) /\ i \in 1 .. Len(d)
             /\ \A k \in 1 .. Len(d) : k # i => e[k] = d[k]
             /\ e[i] = IF d[i] # <<>> THEN d[i] ELSE Nulls(geo[p].qset)
             /\ e[i] # <<>>
<1> DEFINE i == Item(p) + 1
           n == geo[p].qset
<1>1. Len(d) \in Nat
  BY LenProperties DEF Lists
<1>2. i \in 1 .. Len(d)
  BY <1>1 DEF Reaches
<1>5. CASE d[i] # <<>>
  BY <1>2, <1>5 DEF WithArray, HasArray, Array
<1>6. CASE d[i] = <<>>
  <2>n. n \in Nat \ {0}
    BY <1>6 DEF HasArray, Array
  <2>s. Nulls(n) \in Seq(Seq(Bytes)) /\ Len(Nulls(n)) = n
    BY <2>n, NullsSeq
  <2>e. Nulls(n) # <<>>
    <3>1. n # 0
      BY <2>n
    <3> HIDE DEF n
    <3> QED BY <2>s, <3>1, EmptySeq
  <2>1. WithArray(d, p) = [d EXCEPT ![i] = Nulls(n)]
    BY <1>6 DEF WithArray, HasArray, Array
  <2> HIDE DEF n, i
  <2>2. /\ [d EXCEPT ![i] = Nulls(n)] \in Lists
        /\ Len([d EXCEPT ![i] = Nulls(n)]) = Len(d)
        /\ \A k \in 1 .. Len(d) :
             [d EXCEPT ![i] = Nulls(n)][k] = IF k = i THEN Nulls(n) ELSE d[k]
    BY <1>2, <2>s, ExceptSeq DEF Lists
  <2>3. [d EXCEPT ![i] = Nulls(n)][i] = Nulls(n)
    BY <1>2, <2>2
  <2> QED BY <1>2, <2>e, <1>6, <2>1, <2>2, <2>3 DEF n, i
<1> QED BY <1>5, <1>6

(* ... and a missing quantum, unless the array is too short. *)
LEMMA QuantumAdded ==
  ASSUME NEW p \in Procs, NEW d \in Lists, Item(p) \in Int, SPos(p) \in Int,
         HasArray(d, p), geo[p].quantum \in Int,
         OutOfArray(d, p) \/ HasQuantum(d, p) \/ geo[p].quantum > 0
  PROVE  LET e == WithQuantum(d, p)
             i == Item(p) + 1
             j == SPos(p) + 1
         IN  /\ e \in Lists /\ Len(e) = Len(d) /\ i \in 1 .. Len(d)
             /\ \A k \in 1 .. Len(d) : k # i => e[k] = d[k]
             /\ Len(e[i]) = Len(d[i])
             /\ \A k \in 1 .. Len(d[i]) : k # j => e[i][k] = d[i][k]
             /\ e[i] # <<>>
             /\ j \in 1 .. Len(d[i]) =>
                  /\ e[i][j] # <<>>
                  /\ Len(e[i][j]) = IF d[i][j] # <<>> THEN Len(d[i][j]) ELSE geo[p].quantum
<1> DEFINE i == Item(p) + 1
           j == SPos(p) + 1
           v == [x \in 1 .. geo[p].quantum |-> Junk]
<1>1. Len(d) \in Nat
  BY LenProperties DEF Lists
<1>2. i \in 1 .. Len(d) /\ d[i] # <<>>
  BY <1>1 DEF HasArray, Reaches, Array
<1>3. d[i] \in Seq(Seq(Bytes))
  BY <1>2, ElementOfSeq DEF Lists
<1>4. Len(d[i]) \in Nat
  BY <1>3, LenProperties
<1>5. OutOfArray(d, p) <=> ~(j \in 1 .. Len(d[i]))
  BY <1>4 DEF OutOfArray, Array
<1>6. HasQuantum(d, p) <=> j \in 1 .. Len(d[i]) /\ d[i][j] # <<>>
  BY <1>5 DEF HasQuantum, Quantum, Array
<1>7. CASE ~(j \in 1 .. Len(d[i])) \/ d[i][j] # <<>>
  <2>1. WithQuantum(d, p) = d
    BY <1>5, <1>6, <1>7 DEF WithQuantum
  <2> HIDE DEF i, j
  <2> QED BY <1>2, <1>7, <2>1 DEF i, j
<1>8. CASE j \in 1 .. Len(d[i]) /\ d[i][j] = <<>>
  <2>1. WithQuantum(d, p) = [d EXCEPT ![i] = [d[i] EXCEPT ![j] = v]]
    BY <1>2, <1>5, <1>6, <1>8 DEF WithQuantum
  <2>q. geo[p].quantum \in Nat \ {0}
    BY <1>5, <1>6, <1>8
  <2>2. v \in Seq(Bytes) /\ Len(v) = geo[p].quantum
    BY <2>q DEF Bytes
  <2>3. v # <<>>
    <3> HIDE DEF v
    <3> QED BY <2>2, <2>q, EmptySeq
  <2> DEFINE e == WithQuantum(d, p)
  <2> HIDE DEF i, j, v, e
  <2>4. e = [d EXCEPT ![i] = [d[i] EXCEPT ![j] = v]]
    BY <2>1 DEF e
  <2>5. /\ e \in Seq(Seq(Seq(Bytes))) /\ Len(e) = Len(d)
        /\ \A k \in 1 .. Len(d) : k # i => e[k] = d[k]
        /\ Len(e[i]) = Len(d[i])
        /\ \A k \in 1 .. Len(d[i]) : e[i][k] = IF k = j THEN v ELSE d[i][k]
    <3>1. d \in Seq(Seq(Seq(Bytes)))
      BY DEF Lists
    <3>2. i \in 1 .. Len(d) /\ j \in 1 .. Len(d[i]) /\ v \in Seq(Bytes)
      BY <1>2, <1>8, <2>2
    <3> QED BY <2>4, <3>1, <3>2, Replaced, SMTT(30)
  <2>6. e[i] # <<>>
    BY <1>8, <2>5, <1>4, EmptySeq
  <2>7. e[i][j] = v
    BY <1>8, <2>5
  <2>8. QED
    BY <1>2, <1>8, <2>2, <2>3, <2>5, <2>6, <2>7 DEF i, j, e, Lists
<1> QED BY <1>7, <1>8

(* Bytes stored in a quantum leave the shape of the list alone. *)
LEMMA StoredBytes ==
  ASSUME Types, NEW p \in Procs, Item(p) \in Int, SPos(p) \in Int, QPos(p) \in Nat,
         NEW b \in Seq(Bytes)
  PROVE  LET e == Stored(p, b)
         IN  /\ e \in Lists /\ Len(e) = Len(data)
             /\ \A k \in 1 .. Len(data) :
                  /\ Len(e[k]) = Len(data[k])
                  /\ \A l \in 1 .. Len(data[k]) : Len(e[k][l]) = Len(data[k][l])
<1> DEFINE i == Item(p) + 1
           j == SPos(p) + 1
           o == data[i][j]
           v == [x \in DOMAIN o |-> IF x \in QPos(p) + 1 .. QPos(p) + Len(b)
                                    THEN b[x - QPos(p)] ELSE o[x]]
<1>1. data \in Lists /\ Len(data) \in Nat
  <2>1. data \in Lists
    BY DEF Types, TypeOK, Lists, Bytes
  <2> QED BY <2>1, LenProperties DEF Lists
<1>2. CASE p \in stale \/ ~HasQuantum(data, p)
  BY <1>1, <1>2 DEF Stored
<1>3. CASE p \notin stale /\ HasQuantum(data, p)
  <2>1. i \in 1 .. Len(data)
    BY <1>1, <1>3 DEF HasQuantum, HasArray, Reaches
  <2>2. data[i] \in Seq(Seq(Bytes))
    BY <1>1, <2>1, ElementOfSeq DEF Lists
  <2>3. Len(data[i]) \in Nat
    BY <2>2, LenProperties
  <2>4. j \in 1 .. Len(data[i])
    BY <1>3, <2>3 DEF HasQuantum, OutOfArray, HasArray, Array
  <2>5. o \in Seq(Bytes)
    BY <2>2, <2>4, ElementOfSeq
  <2>6. Stored(p, b) = [data EXCEPT ![i] = [data[i] EXCEPT ![j] = v]]
    BY <1>3, <2>1, <2>4 DEF Stored
  <2>7. v \in Seq(Bytes) /\ Len(v) = Len(o)
    <3>1. DOMAIN o = 1 .. Len(o) /\ Len(o) \in Nat
      BY <2>5, LenProperties
    <3>2. ASSUME NEW x \in 1 .. Len(o)
          PROVE  (IF x \in QPos(p) + 1 .. QPos(p) + Len(b)
                  THEN b[x - QPos(p)] ELSE o[x]) \in Bytes
      <4>1. CASE x \in QPos(p) + 1 .. QPos(p) + Len(b)
        <5>1. Len(b) \in Nat
          BY LenProperties
        <5>2. x - QPos(p) \in 1 .. Len(b)
          BY <3>1, <4>1, <5>1
        <5> QED BY <4>1, <5>2, ElementOfSeq
      <4>2. CASE ~(x \in QPos(p) + 1 .. QPos(p) + Len(b))
        BY <2>5, <4>2, ElementOfSeq
      <4> QED BY <4>1, <4>2
    <3> HIDE DEF o
    <3> QED BY <3>1, <3>2
  <2> DEFINE e == Stored(p, b)
  <2> HIDE DEF i, j, v, e, o
  <2>8. e = [data EXCEPT ![i] = [data[i] EXCEPT ![j] = v]]
    BY <2>6 DEF e
  <2>9. /\ e \in Seq(Seq(Seq(Bytes))) /\ Len(e) = Len(data)
        /\ \A k \in 1 .. Len(data) : k # i => e[k] = data[k]
        /\ Len(e[i]) = Len(data[i])
        /\ \A k \in 1 .. Len(data[i]) : e[i][k] = IF k = j THEN v ELSE data[i][k]
    <3>1. data \in Seq(Seq(Seq(Bytes)))
      BY <1>1 DEF Lists
    <3>2. i \in 1 .. Len(data) /\ j \in 1 .. Len(data[i]) /\ v \in Seq(Bytes)
      BY <2>1, <2>4, <2>7
    <3> QED BY <2>8, <3>1, <3>2, Replaced, SMTT(30)
  <2>10. ASSUME NEW k \in 1 .. Len(data)
         PROVE  /\ Len(e[k]) = Len(data[k])
                /\ \A l \in 1 .. Len(data[k]) : Len(e[k][l]) = Len(data[k][l])
    <3>1. CASE k = i
      BY <2>7, <2>9, <3>1 DEF o
    <3>2. CASE k # i
      BY <2>9, <3>2
    <3> QED BY <3>1, <3>2
  <2> QED BY <2>9, <2>10 DEF e, Lists
<1> QED BY <1>2, <1>3

-----------------------------------------------------------------------------
\* The semaphore.

(* One process at a time is between down() and up(), or in scull_trim(). *)
LEMMA Exclusive ==
  ASSUME Types, SemInv, Guarded, NEW p \in Procs, NEW q \in Procs, p # q,
         pc[p] \in Inside
  PROVE  pc[q] \notin Inside
<1>1. CASE Locked
  BY <1>1 DEF SemInv, Critical, Inside
<1>2. CASE OneUser
  <2>1. Modes[p] = {} \/ Modes[q] = {}
    BY <1>2 DEF OneUser
  <2> QED BY <2>1 DEF SemInv, Inside, Trimming, Accesses
<1> QED BY <1>1, <1>2 DEF Guarded

LEMMA SemKept ==
  ASSUME Types, SemInv, NEW p \in Procs, NEW here, NEW there, Goto(p, here, there),
         here = "closed" => Modes[p] # {},
         there = "open_down" => Locked,
         \/ sem' = sem /\ (here \in Critical <=> there \in Critical)
         \/ sem = NoProc /\ sem' = p /\ here \notin Critical /\ there \in Critical
         \/ sem' = NoProc /\ here \in Critical /\ there \notin Critical
  PROVE  SemInv'
<1>1. /\ pc' = [pc EXCEPT ![p] = there] /\ pc[p] = here /\ pc \in [Procs -> PCs]
      /\ NoProc \notin Procs
  BY MemAssumption DEF Goto, Types, TypeOK
<1>2. ASSUME NEW q \in Procs
      PROVE  pc'[q] \in Critical <=> sem' = q
  <2>1. pc[q] \in Critical <=> sem = q
    BY DEF SemInv
  <2>2. pc[p] \in Critical <=> sem = p
    BY DEF SemInv
  <2>3. CASE q = p
    BY <1>1, <2>2, <2>3
  <2>4. CASE q # p
    BY <1>1, <2>1, <2>2, <2>4
  <2> QED BY <2>3, <2>4
<1>3. ASSUME NEW q \in Procs
      PROVE  /\ pc'[q] = "open_down" => Locked
             /\ Modes[q] = {} => pc'[q] = "closed"
  BY <1>1 DEF SemInv
<1> QED BY <1>2, <1>3 DEF SemInv, Critical

LEMMA SemStep ==
  ASSUME Types, SemInv, NEW p \in Procs, Call(p) \/ Step(p)
  PROVE  SemInv'
<1>m. MemAssumption /\ Modes[p] \subseteq {"r", "w", "rw"}
  BY MemAssumption DEF MemAssumption
<1>c. /\ Critical = Accesses \cup {"killed"} \cup (IF Locked THEN Trimming ELSE {})
      /\ Critical' = Critical
  BY DEF Critical
<1>s. ASSUME UNCHANGED <<pc, sem>> PROVE SemInv'
  BY <1>s, <1>c DEF SemInv
<1>o. pc[p] = "open_down" => Locked
  BY DEF SemInv
<1> USE DEF Accesses, Trimming, Down, Out, Interrupted
<1>1. ASSUME NEW m \in Modes[p], OpenCall(p, m)
      PROVE  SemInv'
  BY <1>1, <1>c, SemKept DEF OpenCall
<1>2. CASE "w" \in Modes[p] /\ OpenEmptying(p)
  <2>1. CASE Locked
    BY <1>2, <1>c, <2>1, SemKept DEF OpenEmptying
  <2>2. CASE ~Locked
    BY <1>2, <1>c, <2>2, SemKept DEF OpenEmptying
  <2> QED BY <2>1, <2>2
<1>3. CASE Release(p)
  BY <1>3, <1>c, SemKept DEF Release
<1>4. CASE \E w \in {"set", "cur", "end"} : \E o \in Offsets : Llseek(p, w, o)
  BY <1>4, <1>s DEF Llseek
<1>5. ASSUME NEW n \in Counts, ReadCall(p, n)
      PROVE  SemInv'
  BY <1>5, <1>c, SemKept DEF ReadCall
<1>6. ASSUME NEW d \in Payloads, WriteCall(p, d)
      PROVE  SemInv'
  BY <1>6, <1>c, SemKept DEF WriteCall
<1>7. CASE \/ \E v \in Quanta : IoctlQuantum(p, v)
           \/ \E v \in Qsets : IoctlQset(p, v)
           \/ IoctlReset(p)
  BY <1>7, <1>s DEF IoctlQuantum, IoctlQset, IoctlReset
<1>8. CASE OpenDown(p)
  BY <1>8, <1>c, <1>o, SemKept DEF OpenDown, Goto
<1>9. CASE OpenInterrupted(p)
  BY <1>9, <1>c, SemKept DEF OpenInterrupted
<1>10. CASE TrimFree(p)
  BY <1>10, <1>c, SemKept DEF TrimFree
<1>11. CASE TrimReset(p)
  <2>1. CASE Locked
    BY <1>11, <1>c, <2>1, SemKept DEF TrimReset
  <2>2. CASE ~Locked
    BY <1>11, <1>c, <2>2, SemKept DEF TrimReset
  <2> QED BY <2>1, <2>2
<1>12. CASE ReadDown(p)
  BY <1>12, <1>c, SemKept DEF ReadDown
<1>13. CASE ReadInterrupted(p)
  BY <1>13, <1>c, SemKept DEF ReadInterrupted
<1>14. CASE ReadEnd(p) \/ ReadHole(p)
  BY <1>14, <1>c, SemKept DEF ReadEnd, ReadHole
<1>15. CASE ReadFound(p) \/ ReadCopy(p)
  BY <1>15, <1>c, SemKept DEF ReadFound, ReadCopy
<1>16. CASE ReadFault(p) \/ ReadOut(p)
  BY <1>16, <1>c, SemKept DEF ReadFault, ReadOut
<1>17. CASE WriteDown(p)
  BY <1>17, <1>c, SemKept DEF WriteDown
<1>18. CASE WriteInterrupted(p)
  BY <1>18, <1>c, SemKept DEF WriteInterrupted
<1>19. CASE WriteFind(p) \/ WriteCopy(p)
  BY <1>19, <1>c, SemKept DEF WriteFind, WriteCopy
<1>20. CASE WriteNoMemory(p) \/ WriteFault(p) \/ WriteSize(p)
  BY <1>20, <1>c, SemKept DEF WriteNoMemory, WriteFault, WriteSize
<1>21. CASE Divide(p)
  BY <1>21, <1>c, SemKept DEF Divide
<1> QED BY <1>1, <1>2, <1>3, <1>4, <1>5, <1>6, <1>7, <1>8, <1>9, <1>10, <1>11, <1>12,
           <1>13, <1>14, <1>15, <1>16, <1>17, <1>18, <1>19, <1>20, <1>21 DEF Call, Step

-----------------------------------------------------------------------------
\* What a step of one process leaves to the others.

Own(q) ==
  /\ pc'[q] = pc[q] /\ mode'[q] = mode[q] /\ pos'[q] = pos[q]
  /\ geo'[q] = geo[q] /\ arg'[q] = arg[q] /\ want'[q] = want[q]

LEMMA OthersOwn ==
  ASSUME Types, NEW p \in Procs, Call(p) \/ Step(p), NEW q \in Procs \ {p}
  PROVE  Own(q)
<1>t. /\ pc \in [Procs -> PCs] /\ mode \in [Procs -> {"r", "w", "rw"}]
      /\ pos \in [Procs -> 0 .. MaxPos] /\ geo \in [Procs -> {NoGeo} \cup Geometry]
      /\ arg \in [Procs -> {None} \cup Seq(Bytes)] /\ want \in [Procs -> Nat]
  BY DEF Types, TypeOK
<1> USE <1>t DEF Own, Goto, Down, Out, Interrupted, locals
<1>1. CASE \E m \in Modes[p] : OpenCall(p, m)
  BY <1>1 DEF OpenCall
<1>2. CASE OpenEmptying(p)
  BY <1>2 DEF OpenEmptying
<1>3. CASE Release(p)
  BY <1>3 DEF Release
<1>4. CASE \E w \in {"set", "cur", "end"} : \E o \in Offsets : Llseek(p, w, o)
  BY <1>4 DEF Llseek
<1>5. CASE \E n \in Counts : ReadCall(p, n)
  BY <1>5 DEF ReadCall
<1>6. CASE \E d \in Payloads : WriteCall(p, d)
  BY <1>6 DEF WriteCall
<1>7. CASE \/ \E v \in Quanta : IoctlQuantum(p, v)
           \/ \E v \in Qsets : IoctlQset(p, v)
           \/ IoctlReset(p)
  BY <1>7 DEF IoctlQuantum, IoctlQset, IoctlReset
<1>8. CASE OpenDown(p) \/ TrimFree(p) \/ TrimReset(p) \/ ReadDown(p) \/ WriteDown(p)
  BY <1>8 DEF OpenDown, TrimFree, TrimReset, ReadDown, WriteDown
<1>9. CASE OpenInterrupted(p)
  BY <1>9 DEF OpenInterrupted
<1>10. CASE ReadInterrupted(p) \/ WriteInterrupted(p)
  BY <1>10 DEF ReadInterrupted, WriteInterrupted
<1>11. CASE ReadEnd(p) \/ ReadHole(p)
  BY <1>11 DEF ReadEnd, ReadHole
<1>12. CASE ReadFound(p)
  BY <1>12 DEF ReadFound
<1>13. CASE ReadCopy(p)
  BY <1>13 DEF ReadCopy
<1>14. CASE ReadFault(p) \/ ReadOut(p)
  BY <1>14 DEF ReadFault, ReadOut
<1>15. CASE WriteFind(p)
  BY <1>15 DEF WriteFind
<1>16. CASE WriteCopy(p)
  BY <1>16 DEF WriteCopy
<1>17. CASE WriteNoMemory(p)
  BY <1>17 DEF WriteNoMemory
<1>18. CASE WriteFault(p)
  BY <1>18 DEF WriteFault
<1>19. CASE WriteSize(p)
  BY <1>19 DEF WriteSize
<1>20. CASE Divide(p)
  BY <1>20 DEF Divide
<1> QED BY <1>1, <1>2, <1>3, <1>4, <1>5, <1>6, <1>7, <1>8, <1>9, <1>10, <1>11, <1>12,
           <1>13, <1>14, <1>15, <1>16, <1>17, <1>18, <1>19, <1>20 DEF Call, Step

(* Who changes the device is between down() and up(), or in scull_trim(). *)
LEMMA DeviceKept ==
  ASSUME NEW p \in Procs, Call(p) \/ Step(p), pc[p] \notin Inside
  PROVE  UNCHANGED <<quantum, qset, size, data, stale, freed, wild, misfit>>
<1> USE DEF Goto, Down, Out, Interrupted, device, heap, Inside, Trimming, Accesses
<1>1. CASE Call(p)
  BY <1>1 DEF Call, OpenCall, OpenEmptying, Release, Llseek, ReadCall, WriteCall,
              IoctlQuantum, IoctlQset, IoctlReset
<1>2. CASE Step(p)
  BY <1>2 DEF Step, OpenDown, OpenInterrupted, TrimFree, TrimReset, ReadDown, ReadInterrupted,
              ReadEnd, ReadHole, Divide, ReadFound, ReadCopy, ReadFault, ReadOut, WriteDown,
              WriteInterrupted, WriteFind, WriteNoMemory, WriteCopy, WriteFault, WriteSize
<1> QED BY <1>1, <1>2

LEMMA FreedStep ==
  ASSUME MemInv, Guarded, NEW p \in Procs, Call(p) \/ Step(p)
  PROVE  FreedInv'
<1>t. Types /\ SemInv /\ FreedInv /\ pc \in [Procs -> PCs]
  BY DEF MemInv, Types, TypeOK
<1>1. CASE TrimFree(p)
  <2>1. pc[p] = "trim_free" /\ pc' = [pc EXCEPT ![p] = "trim_reset"]
    BY <1>1 DEF TrimFree, Goto
  <2>2. \A q \in Procs : pc[q] \notin {"read_copy", "write_copy"}
    BY <1>t, <2>1, Exclusive DEF Inside, Trimming, Accesses
  <2>3. stale' = {}
    BY <1>1, <2>2 DEF TrimFree
  <2> QED BY <1>t, <2>1, <2>3 DEF FreedInv
<1>2. CASE TrimReset(p)
  BY <1>t, <1>2 DEF TrimReset, FreedInv
<1>3. CASE ~TrimFree(p) /\ ~TrimReset(p)
  <2>1. stale' = {} /\ freed' = freed
    <3>1. CASE pc[p] \notin Inside
      BY <1>t, <3>1, DeviceKept DEF FreedInv
    <3>2. CASE pc[p] \in Inside
      BY <1>t, <1>3, <3>2 DEF Call, Step, Inside, Accesses, Trimming, Goto, Out, Down, Interrupted,
         OpenCall, OpenEmptying, Release, Llseek, ReadCall, WriteCall, IoctlQuantum,
         IoctlQset, IoctlReset, OpenDown, OpenInterrupted, ReadDown, ReadInterrupted,
         ReadEnd, ReadHole, Divide, ReadFound, ReadCopy, ReadFault, ReadOut, WriteDown,
         WriteInterrupted, WriteFind, WriteNoMemory, WriteCopy, WriteFault, WriteSize,
         FreedInv, device, heap
    <3> QED BY <3>1, <3>2
  <2>2. ASSUME NEW r \in Procs, pc[r] = "trim_reset"
        PROVE  pc'[r] = "trim_reset"
    <3>1. CASE r # p
      BY <1>t, <2>2, <3>1, OthersOwn DEF Own
    <3>2. CASE r = p
      <4>1. ~Call(p) /\ ~Step(p)
        BY <1>3, <2>2, <3>2 DEF Call, Step, Goto, Out, Down, Interrupted,
           OpenCall, OpenEmptying, Release, Llseek, ReadCall, WriteCall, IoctlQuantum,
           IoctlQset, IoctlReset, OpenDown, OpenInterrupted, ReadDown, ReadInterrupted,
           ReadEnd, ReadHole, Divide, ReadFound, ReadCopy, ReadFault, ReadOut, WriteDown,
           WriteInterrupted, WriteFind, WriteNoMemory, WriteCopy, WriteFault, WriteSize
      <4> QED BY <4>1
    <3> QED BY <3>1, <3>2
  <2> QED BY <1>t, <2>1, <2>2 DEF FreedInv
<1> QED BY <1>1, <1>2, <1>3

-----------------------------------------------------------------------------
\* A call adds to the list and takes nothing from it.

(* Arrays and quanta stay, at their lengths, and new ones have the lengths that
   the call noted. *)
Extends(e, p) ==
  /\ e \in Lists /\ Len(e) >= Len(data)
  /\ \A k \in 1 .. Len(data) : data[k] # <<>> =>
       /\ e[k] # <<>> /\ Len(e[k]) = Len(data[k])
       /\ \A l \in 1 .. Len(data[k]) :
            data[k][l] # <<>> => e[k][l] # <<>> /\ Len(e[k][l]) = Len(data[k][l])
  /\ \A k \in 1 .. Len(e) : e[k] # <<>> =>
       /\ (k <= Len(data) /\ data[k] # <<>>) \/ Len(e[k]) = geo[p].qset
       /\ \A l \in 1 .. Len(e[k]) : e[k][l] # <<>> =>
            \/ k <= Len(data) /\ data[k] # <<>> /\ data[k][l] # <<>>
            \/ Len(e[k][l]) = geo[p].quantum

LEMMA ListTyped ==
  ASSUME NEW d \in Lists
  PROVE  /\ Len(d) \in Nat
         /\ \A k \in 1 .. Len(d) :
              /\ d[k] \in Seq(Seq(Bytes)) /\ Len(d[k]) \in Nat
              /\ d[k] # <<>> <=> Len(d[k]) # 0
              /\ \A l \in 1 .. Len(d[k]) :
                   /\ d[k][l] \in Seq(Bytes) /\ Len(d[k][l]) \in Nat
                   /\ d[k][l] # <<>> <=> Len(d[k][l]) # 0
<1>1. d \in Seq(Seq(Seq(Bytes)))
  BY DEF Lists
<1>2. Len(d) \in Nat
  BY <1>1, LenProperties
<1>3. ASSUME NEW k \in 1 .. Len(d)
      PROVE  /\ d[k] \in Seq(Seq(Bytes)) /\ Len(d[k]) \in Nat
             /\ d[k] # <<>> <=> Len(d[k]) # 0
  <2>1. d[k] \in Seq(Seq(Bytes))
    BY <1>1, ElementOfSeq
  <2> QED BY <2>1, LenProperties, EmptySeq
<1>4. ASSUME NEW k \in 1 .. Len(d), NEW l \in 1 .. Len(d[k])
      PROVE  /\ d[k][l] \in Seq(Bytes) /\ Len(d[k][l]) \in Nat
             /\ d[k][l] # <<>> <=> Len(d[k][l]) # 0
  <2>1. d[k][l] \in Seq(Bytes)
    BY <1>3, ElementOfSeq
  <2> QED BY <2>1, LenProperties, EmptySeq
<1> QED BY <1>2, <1>3, <1>4

LEMMA DataTyped ==
  ASSUME Types
  PROVE  data \in Lists
BY DEF Types, TypeOK, Lists, Bytes

LEMMA FollowedExtends ==
  ASSUME Types, NEW p \in Procs, Item(p) \in Int, NEW d \in Followed(p)
  PROVE  Extends(d, p)
<1>1. /\ d \in Lists /\ Len(d) >= Len(data) /\ Len(data) \in Nat /\ Len(d) \in Nat
      /\ \A i \in 1 .. Len(d) : d[i] = IF i <= Len(data) THEN data[i] ELSE <<>>
  BY Follows, ListTyped
<1>2. ASSUME NEW k \in 1 .. Len(data)
      PROVE  k \in 1 .. Len(d) /\ d[k] = data[k]
  BY <1>1
<1>3. ASSUME NEW k \in 1 .. Len(d), d[k] # <<>>
      PROVE  k <= Len(data) /\ d[k] = data[k]
  BY <1>1, <1>3
<1> QED BY <1>1, <1>2, <1>3 DEF Extends

LEMMA ArrayExtends ==
  ASSUME Types, NEW p \in Procs, geo[p] \in Geometry, Itemsize(p) # 0,
         NEW d, Extends(d, p), Reaches(d, p), HasArray(d, p) \/ geo[p].qset > 0
  PROVE  Extends(WithArray(d, p), p) /\ HasArray(WithArray(d, p), p)
<1> DEFINE e == WithArray(d, p)
           i == Item(p) + 1
           n == geo[p].qset
<1>1. d \in Lists /\ Item(p) \in Int /\ n \in Int
  BY Places DEF Extends
<1>2. /\ e \in Lists /\ Len(e) = Len(d) /\ i \in 1 .. Len(d)
      /\ \A k \in 1 .. Len(d) : k # i => e[k] = d[k]
      /\ e[i] = IF d[i] # <<>> THEN d[i] ELSE Nulls(n)
      /\ e[i] # <<>>
  BY <1>1, ArrayAdded
<1>3. ASSUME d[i] = <<>>
      PROVE  n \in Nat /\ Len(Nulls(n)) = n /\ \A k \in 1 .. n : Nulls(n)[k] = <<>>
  <2>1. n \in Nat
    BY <1>1, <1>3 DEF HasArray, Array
  <2> QED BY <2>1, NullsSeq
<1>4. HasArray(e, p)
  BY <1>1, <1>2 DEF HasArray, Reaches, Array
<1>5. Len(data) \in Nat /\ Len(d) \in Nat
  BY <1>1, DataTyped, ListTyped
<1> HIDE DEF e, i, n
<1>6. ASSUME NEW k \in 1 .. Len(data), data[k] # <<>>
      PROVE  e[k] = d[k]
  BY <1>2, <1>5, <1>6 DEF Extends
<1>7. ASSUME NEW k \in 1 .. Len(e), e[k] # <<>>
      PROVE  /\ (k <= Len(data) /\ data[k] # <<>>) \/ Len(e[k]) = geo[p].qset
             /\ \A l \in 1 .. Len(e[k]) : e[k][l] # <<>> =>
                  \/ k <= Len(data) /\ data[k] # <<>> /\ data[k][l] # <<>>
                  \/ Len(e[k][l]) = geo[p].quantum
  <2>1. CASE e[k] = d[k]
    <3>1. k \in 1 .. Len(d) /\ d[k] # <<>>
      BY <1>2, <1>7, <2>1
    <3>2. /\ (k <= Len(data) /\ data[k] # <<>>) \/ Len(d[k]) = geo[p].qset
          /\ \A l \in 1 .. Len(d[k]) : d[k][l] # <<>> =>
               \/ k <= Len(data) /\ data[k] # <<>> /\ data[k][l] # <<>>
               \/ Len(d[k][l]) = geo[p].quantum
      BY <3>1 DEF Extends
    <3> QED BY <2>1, <3>2
  <2>2. CASE e[k] # d[k]
    <3>1. e[k] = Nulls(n) /\ d[i] = <<>>
      BY <1>2, <2>2
    <3> QED BY <1>3, <3>1 DEF n
  <2> QED BY <2>1, <2>2
<1>8. Extends(e, p)
  <2>1. e \in Lists /\ Len(e) >= Len(data)
    BY <1>2 DEF Extends
  <2>2. ASSUME NEW k \in 1 .. Len(data), data[k] # <<>>
        PROVE  /\ e[k] # <<>> /\ Len(e[k]) = Len(data[k])
               /\ \A l \in 1 .. Len(data[k]) :
                    data[k][l] # <<>> => e[k][l] # <<>> /\ Len(e[k][l]) = Len(data[k][l])
    BY <1>6, <2>2 DEF Extends
  <2> QED BY <1>7, <2>1, <2>2 DEF Extends
<1> QED BY <1>4, <1>8 DEF e

LEMMA QuantumExtends ==
  ASSUME Types, NEW p \in Procs, geo[p] \in Geometry, Itemsize(p) # 0,
         NEW d, Extends(d, p), HasArray(d, p),
         OutOfArray(d, p) \/ HasQuantum(d, p) \/ geo[p].quantum > 0
  PROVE  /\ Extends(WithQuantum(d, p), p)
         /\ HasArray(WithQuantum(d, p), p)
         /\ ~OutOfArray(d, p) => HasQuantum(WithQuantum(d, p), p)
<1> DEFINE e == WithQuantum(d, p)
           i == Item(p) + 1
           j == SPos(p) + 1
           n == geo[p].quantum
<1>1. /\ d \in Lists /\ Item(p) \in Int /\ SPos(p) \in Int /\ n \in Int
  BY Places DEF Extends
<1>2. /\ e \in Lists /\ Len(e) = Len(d) /\ i \in 1 .. Len(d)
      /\ \A k \in 1 .. Len(d) : k # i => e[k] = d[k]
      /\ Len(e[i]) = Len(d[i])
      /\ \A k \in 1 .. Len(d[i]) : k # j => e[i][k] = d[i][k]
      /\ e[i] # <<>>
      /\ j \in 1 .. Len(d[i]) =>
           /\ e[i][j] # <<>>
           /\ Len(e[i][j]) = IF d[i][j] # <<>> THEN Len(d[i][j]) ELSE n
  BY <1>1, QuantumAdded
<1>3. Len(data) \in Nat /\ Len(d) \in Nat /\ Len(d[i]) \in Nat
  BY <1>1, <1>2, DataTyped, ListTyped
<1>4. d[i] # <<>>
  BY DEF HasArray, Array
<1>5. HasArray(e, p)
  BY <1>1, <1>2, <1>3 DEF HasArray, Reaches, Array
<1>6. ASSUME ~OutOfArray(d, p)
      PROVE  HasQuantum(e, p)
  <2>1. j \in 1 .. Len(d[i])
    BY <1>1, <1>3, <1>6 DEF OutOfArray, Array
  <2> QED BY <1>1, <1>2, <1>3, <1>5, <1>6, <2>1 DEF HasQuantum, OutOfArray, Quantum, Array
<1> HIDE DEF e, i, j, n
<1>7. ASSUME NEW k \in 1 .. Len(data), data[k] # <<>>
      PROVE  /\ e[k] # <<>> /\ Len(e[k]) = Len(data[k])
             /\ \A l \in 1 .. Len(data[k]) :
                  data[k][l] # <<>> => e[k][l] # <<>> /\ Len(e[k][l]) = Len(data[k][l])
  <2>1. /\ k \in 1 .. Len(d) /\ d[k] # <<>> /\ Len(d[k]) = Len(data[k])
        /\ \A l \in 1 .. Len(data[k]) :
             data[k][l] # <<>> => d[k][l] # <<>> /\ Len(d[k][l]) = Len(data[k][l])
    <3>1. Len(d) >= Len(data) /\ k \in 1 .. Len(d)
      BY <1>3, <1>7 DEF Extends
    <3> QED BY <1>7, <3>1 DEF Extends
  <2>2. CASE k # i
    BY <1>2, <2>1, <2>2
  <2>3. CASE k = i
    <3>1. ASSUME NEW l \in 1 .. Len(data[k]), data[k][l] # <<>>
          PROVE  e[k][l] # <<>> /\ Len(e[k][l]) = Len(data[k][l])
      BY <1>2, <2>1, <2>3, <3>1
    <3> QED BY <1>2, <2>1, <2>3, <3>1
  <2> QED BY <2>2, <2>3
<1>8. ASSUME NEW k \in 1 .. Len(e), e[k] # <<>>
      PROVE  /\ (k <= Len(data) /\ data[k] # <<>>) \/ Len(e[k]) = geo[p].qset
             /\ \A l \in 1 .. Len(e[k]) : e[k][l] # <<>> =>
                  \/ k <= Len(data) /\ data[k] # <<>> /\ data[k][l] # <<>>
                  \/ Len(e[k][l]) = geo[p].quantum
  <2>1. d[k] # <<>> /\ k \in 1 .. Len(d)
    BY <1>2, <1>4, <1>8
  <2>2. /\ (k <= Len(data) /\ data[k] # <<>>) \/ Len(d[k]) = geo[p].qset
        /\ \A l \in 1 .. Len(d[k]) : d[k][l] # <<>> =>
             \/ k <= Len(data) /\ data[k] # <<>> /\ data[k][l] # <<>>
             \/ Len(d[k][l]) = geo[p].quantum
    BY <2>1 DEF Extends
  <2>3. CASE k # i
    BY <1>2, <2>1, <2>2, <2>3
  <2>4. CASE k = i
    <3>1. ASSUME NEW l \in 1 .. Len(e[k]), e[k][l] # <<>>
          PROVE  \/ k <= Len(data) /\ data[k] # <<>> /\ data[k][l] # <<>>
                 \/ Len(e[k][l]) = geo[p].quantum
      <4>1. CASE l # j
        BY <1>2, <2>2, <2>4, <3>1, <4>1
      <4>2. CASE l = j
        BY <1>2, <2>2, <2>4, <3>1, <4>2 DEF n
      <4> QED BY <4>1, <4>2
    <3> QED BY <1>2, <2>2, <2>4, <3>1
  <2> QED BY <2>3, <2>4
<1>9. Extends(e, p)
  <2>1. e \in Lists /\ Len(e) >= Len(data)
    BY <1>2 DEF Extends
  <2> QED BY <1>7, <1>8, <2>1 DEF Extends
<1> QED BY <1>5, <1>6, <1>9 DEF e, i

LEMMA StoredExtends ==
  ASSUME Types, NEW p \in Procs, geo[p] \in Geometry, Itemsize(p) # 0, NEW b \in Seq(Bytes)
  PROVE  Extends(Stored(p, b), p)
<1> DEFINE e == Stored(p, b)
<1>1. /\ e \in Lists /\ Len(e) = Len(data)
      /\ \A k \in 1 .. Len(data) :
           /\ Len(e[k]) = Len(data[k])
           /\ \A l \in 1 .. Len(data[k]) : Len(e[k][l]) = Len(data[k][l])
  <2>1. Item(p) \in Int /\ SPos(p) \in Int /\ QPos(p) \in Nat
    BY Places
  <2> QED BY <2>1, StoredBytes
<1> HIDE DEF e
<1>2. Len(data) \in Nat
  BY DataTyped, ListTyped
<1>3. ASSUME NEW k \in 1 .. Len(data)
      PROVE  /\ e[k] # <<>> <=> data[k] # <<>>
             /\ \A l \in 1 .. Len(data[k]) : e[k][l] # <<>> <=> data[k][l] # <<>>
  <2>1. /\ e[k] # <<>> <=> Len(e[k]) # 0
        /\ \A l \in 1 .. Len(e[k]) : e[k][l] # <<>> <=> Len(e[k][l]) # 0
    BY <1>1, ListTyped
  <2>2. /\ data[k] # <<>> <=> Len(data[k]) # 0
        /\ \A l \in 1 .. Len(data[k]) : data[k][l] # <<>> <=> Len(data[k][l]) # 0
    BY DataTyped, ListTyped
  <2> QED BY <1>1, <2>1, <2>2
<1>4. e \in Lists /\ Len(e) >= Len(data)
  BY <1>1, <1>2
<1>5. ASSUME NEW k \in 1 .. Len(data), data[k] # <<>>
      PROVE  /\ e[k] # <<>> /\ Len(e[k]) = Len(data[k])
             /\ \A l \in 1 .. Len(data[k]) :
                  data[k][l] # <<>> => e[k][l] # <<>> /\ Len(e[k][l]) = Len(data[k][l])
  BY <1>1, <1>3, <1>5
<1>6. ASSUME NEW k \in 1 .. Len(e), e[k] # <<>>
      PROVE  /\ k <= Len(data) /\ data[k] # <<>>
             /\ \A l \in 1 .. Len(e[k]) : e[k][l] # <<>> => data[k][l] # <<>>
  <2>1. k \in 1 .. Len(data)
    BY <1>1
  <2> QED BY <1>1, <1>2, <1>3, <1>6, <2>1
<1>7. Extends(e, p)
  BY <1>4, <1>5, <1>6 DEF Extends
<1> QED BY <1>7 DEF e

-----------------------------------------------------------------------------
\* Types, and what a call has noted.

(* A call copies no more than was asked for, and none beyond the quantum. *)
LEMMA CopyCounts ==
  ASSUME Types, NEW p \in Procs, CallInv(p)
  PROVE  /\ pc[p] = "read_copy" => ReadCount(p) \in 0 .. want[p]
         /\ pc[p] = "write_copy" =>
              Len(arg[p]) \in Nat /\ WriteCount(p) \in 0 .. Len(arg[p])
<1>1. ASSUME pc[p] \in {"read_copy", "write_copy"}, NEW n \in Nat
      PROVE  UpToQuantum(p, n) \in 0 .. n
  <2>1. geo[p].quantum \in Int /\ QPos(p) \in Nat
    BY <1>1, Places DEF CallInv, InCall, Accesses
  <2> QED BY <2>1 DEF UpToQuantum, Min2
<1>2. ASSUME pc[p] = "write_copy"
      PROVE  Len(arg[p]) \in Nat
  BY <1>2, LenProperties DEF CallInv, Writing
<1>3. want[p] \in Nat
  BY DEF Types
<1> QED BY <1>1, <1>2, <1>3 DEF ReadCount, WriteCount

LEMMA CopyInside ==
  ASSUME Types, NEW p \in Procs, Fits(p), Usable, NEW n \in Nat
  PROVE  QPos(p) + UpToQuantum(p, n) <= quantum
<1>1. quantum \in Nat /\ geo[p].quantum = quantum /\ QPos(p) \in 0 .. quantum - 1
  BY UsablePlaces
<1> QED BY <1>1 DEF UpToQuantum, Min2

LEMMA DataStep ==
  ASSUME MemInv, NEW p \in Procs, Call(p) \/ Step(p)
  PROVE  \/ data' = data
         \/ TrimReset(p) /\ data' = <<>>
         \/ pc[p] \in Accesses /\ geo[p] \in Geometry /\ Extends(data', p)
<1>t. Types /\ CallInv(p)
  BY DEF MemInv
<1>a. ASSUME pc[p] \in Accesses
      PROVE  geo[p] \in Geometry
  BY <1>t, <1>a DEF CallInv, InCall
<1>b. ASSUME pc[p] \in Accesses, Itemsize(p) # 0, NEW d \in Followed(p)
      PROVE  Extends(d, p)
  BY <1>t, <1>a, <1>b, Places, FollowedExtends
<1>c. ASSUME pc[p] \in Accesses, Itemsize(p) # 0, NEW d \in Arrays(p)
      PROVE  Extends(d, p) /\ HasArray(d, p)
  <2>1. PICK e \in Followed(p) :
          d = WithArray(e, p) /\ Reaches(e, p) /\ (HasArray(e, p) \/ geo[p].qset > 0)
    BY DEF Arrays
  <2>2. geo[p] \in Geometry /\ Extends(e, p)
    BY <1>a, <1>b, <1>c
  <2> QED BY <1>t, <1>c, <2>1, <2>2, ArrayExtends
<1>1. CASE TrimReset(p)
  BY <1>1 DEF TrimReset
<1>2. CASE ReadHole(p)
  <2>1. pc[p] \in Accesses /\ data' \in Followed(p) /\ Itemsize(p) # 0
    BY <1>2 DEF ReadHole, Goto, Accesses
  <2> QED BY <1>a, <1>b, <2>1
<1>3. CASE WriteFind(p)
  <2>1. pc[p] \in Accesses /\ Itemsize(p) # 0
    BY <1>3 DEF WriteFind, Goto, Accesses
  <2>2. PICK d \in Arrays(p) :
          /\ OutOfArray(d, p) \/ HasQuantum(d, p) \/ geo[p].quantum > 0
          /\ data' = WithQuantum(d, p)
    BY <1>3 DEF WriteFind
  <2> QED BY <1>t, <1>a, <1>c, <2>1, <2>2, QuantumExtends
<1>4. CASE WriteNoMemory(p)
  <2>1. pc[p] \in Accesses /\ Itemsize(p) # 0
    BY <1>4 DEF WriteNoMemory, Out, Goto, Accesses
  <2>2. data' \in Followed(p) \/ data' \in Arrays(p)
    BY <1>4 DEF WriteNoMemory
  <2> QED BY <1>a, <1>b, <1>c, <2>1, <2>2
<1>5. ASSUME pc[p] = "write_copy"
      PROVE  /\ WriteCount(p) \in 0 .. Len(arg[p]) /\ Len(arg[p]) \in Nat
             /\ arg[p] \in Seq(Byte) /\ Itemsize(p) # 0
  BY <1>t, <1>5, CopyCounts DEF CallInv, Writing
<1>6. CASE WriteCopy(p)
  <2>1. pc[p] = "write_copy"
    BY <1>6 DEF WriteCopy, Goto
  <2> DEFINE b == SubSeq(arg[p], 1, WriteCount(p))
  <2>2. b \in Seq(Bytes)
    <3>1. \A i \in 1 .. WriteCount(p) : arg[p][i] \in Bytes
      BY <1>5, <2>1, ElementOfSeq DEF Bytes
    <3> QED BY <1>5, <2>1, <3>1, SubSeqProperties
  <2>3. data' = Stored(p, b)
    BY <1>6 DEF WriteCopy
  <2> QED BY <1>t, <1>a, <1>5, <2>1, <2>2, <2>3, StoredExtends DEF Accesses
<1>7. CASE WriteFault(p)
  <2>1. pc[p] = "write_copy"
    BY <1>7 DEF WriteFault, Out, Goto
  <2>2. PICK k \in 0 .. WriteCount(p) - 1 :
          data' = Stored(p, [i \in 1 .. WriteCount(p) |-> IF i <= k THEN arg[p][i] ELSE Junk])
    BY <1>7 DEF WriteFault
  <2> DEFINE b == [i \in 1 .. WriteCount(p) |-> IF i <= k THEN arg[p][i] ELSE Junk]
  <2>3. b \in Seq(Bytes)
    <3>1. \A i \in 1 .. WriteCount(p) : arg[p][i] \in Bytes
      BY <1>5, <2>1, ElementOfSeq DEF Bytes
    <3> QED BY <1>5, <2>1, <3>1 DEF Bytes
  <2> QED BY <1>t, <1>a, <1>5, <2>1, <2>2, <2>3, StoredExtends DEF Accesses
<1>8. CASE Call(p)
  BY <1>8 DEF Call, OpenCall, OpenEmptying, Release, Llseek, ReadCall, WriteCall,
              IoctlQuantum, IoctlQset, IoctlReset, device
<1>9. CASE Step(p) /\ ~TrimReset(p) /\ ~ReadHole(p) /\ ~WriteFind(p) /\ ~WriteNoMemory(p)
           /\ ~WriteCopy(p) /\ ~WriteFault(p)
  BY <1>9 DEF Step, OpenDown, OpenInterrupted, Interrupted, TrimFree, ReadDown, ReadInterrupted,
              ReadEnd, Divide, ReadFound, ReadCopy, ReadFault, ReadOut, WriteDown,
              WriteInterrupted, WriteSize, device
<1> QED BY <1>1, <1>2, <1>3, <1>4, <1>6, <1>7, <1>8, <1>9

(* The bytes that read() copies are the device's. *)
LEMMA ReadBytes ==
  ASSUME MemInv, NEW p \in Procs, ReadCopy(p)
  PROVE  arg' \in [Procs -> {None} \cup Seq(Bytes)]
<1> DEFINE n == ReadCount(p)
           b == [i \in 1 .. n |-> ByteAt(p, i - 1)]
<1>t. Types /\ CallInv(p) /\ pc[p] = "read_copy"
  BY DEF MemInv, ReadCopy, Goto
<1>1. Item(p) \in Int /\ SPos(p) \in Int /\ QPos(p) \in Nat
  <2>1. geo[p] \in Geometry /\ Itemsize(p) # 0
    BY <1>t DEF CallInv, InCall, Accesses
  <2> QED BY <1>t, <2>1, Places
<1>2. n \in Nat
  BY <1>t, CopyCounts DEF Types
<1>3. ASSUME HasQuantum(data, p)
      PROVE  Quantum(data, p) \in Seq(Bytes)
  <2>1. Item(p) + 1 \in 1 .. Len(data)
    BY <1>t, <1>1, <1>3, DataTyped, ListTyped DEF HasQuantum, HasArray, Reaches
  <2>2. Len(data[Item(p) + 1]) \in Nat
    BY <1>t, <2>1, DataTyped, ListTyped
  <2>3. SPos(p) + 1 \in 1 .. Len(data[Item(p) + 1])
    BY <1>1, <1>3, <2>2 DEF HasQuantum, OutOfArray, Array
  <2> QED BY <1>t, <2>1, <2>3, DataTyped, ListTyped DEF Quantum, Array
<1>4. ASSUME NEW i \in 1 .. n
      PROVE  ByteAt(p, i - 1) \in Bytes
  <2>1. CASE WildCopy(p, i - 1 + 1)
    BY <2>1 DEF ByteAt, Bytes
  <2>2. CASE ~WildCopy(p, i - 1 + 1)
    <3>1. ByteAt(p, i - 1) = Quantum(data, p)[QPos(p) + (i - 1) + 1]
      BY <2>2 DEF ByteAt
    <3>q. Quantum(data, p) \in Seq(Bytes)
      BY <1>3, <2>2 DEF WildCopy
    <3>2. Len(Quantum(data, p)) \in Nat
      BY <3>q, LenProperties
    <3>3. QPos(p) + (i - 1 + 1) <= Len(Quantum(data, p))
      BY <1>1, <1>2, <2>2, <3>2 DEF WildCopy
    <3>4. QPos(p) + (i - 1) + 1 \in 1 .. Len(Quantum(data, p))
      BY <1>1, <1>2, <3>2, <3>3
    <3> QED BY <3>q, <3>1, <3>4, ElementOfSeq
  <2> QED BY <2>1, <2>2
<1>5. b \in Seq(Bytes)
  BY <1>2, <1>4
<1>6. arg' = [arg EXCEPT ![p] = b]
  BY DEF ReadCopy
<1> HIDE DEF b
<1> QED BY <1>t, <1>5, <1>6 DEF Types

LEMMA TypesStep ==
  ASSUME MemInv, NEW p \in Procs, Call(p) \/ Step(p)
  PROVE  Types'
<1>t. Types /\ CallInv(p)
  BY DEF MemInv
<1>l. data' \in Seq(Seq(Seq(Byte \cup {Junk})))
  <2>1. data \in Lists /\ <<>> \in Lists
    BY <1>t, DataTyped, EmptySeq DEF Lists
  <2>2. data' \in Lists
    BY <2>1, DataStep DEF Extends
  <2> QED BY <2>2 DEF Lists, Bytes
<1>a. ASSUME NEW d \in Seq(Byte)
      PROVE  d \in Seq(Bytes)
  BY SeqMonotonic DEF Bytes
<1>m. /\ Quanta \subseteq Int /\ Qsets \subseteq Int /\ Counts \subseteq Nat
      /\ MaxPos \in Nat /\ Payloads \subseteq Seq(Byte) /\ Modes[p] \subseteq {"r", "w", "rw"}
      /\ SCULL_QUANTUM \in Quanta /\ SCULL_QSET \in Qsets
  BY MemAssumption
<1> DEFINE Local ==
      /\ geo' \in [Procs -> {NoGeo} \cup Geometry]
      /\ arg' \in [Procs -> {None} \cup Seq(Bytes)]
      /\ want' \in [Procs -> Nat]
<1>k. ASSUME scull_quantum' \in Quanta, scull_qset' \in Qsets,
             quantum' \in Quanta, qset' \in Qsets, sem' \in Procs \cup {NoProc},
             size' \in 0 .. MaxPos, pc' \in [Procs -> PCs],
             mode' \in [Procs -> {"r", "w", "rw"}], pos' \in [Procs -> 0 .. MaxPos],
             Local, stale' \subseteq Procs, freed' \in BOOLEAN, wild' \in BOOLEAN,
             misfit' \in BOOLEAN
      PROVE  Types'
  <2>1. \A q \in Procs :
          /\ geo'[q] = NoGeo \/ geo'[q] \in [quantum : Quanta, qset : Qsets]
          /\ arg'[q] = None \/ arg'[q] \in Seq(Byte \cup {Junk})
          /\ want'[q] \in Nat
    BY <1>k DEF Geometry, Bytes
  <2> QED BY <1>k, <1>l, <2>1 DEF Types, TypeOK
<1>u. /\ scull_quantum \in Quanta /\ scull_qset \in Qsets
      /\ quantum \in Quanta /\ qset \in Qsets /\ sem \in Procs \cup {NoProc}
      /\ size \in 0 .. MaxPos /\ pc \in [Procs -> PCs]
      /\ mode \in [Procs -> {"r", "w", "rw"}] /\ pos \in [Procs -> 0 .. MaxPos]
      /\ stale \subseteq Procs /\ freed \in BOOLEAN /\ wild \in BOOLEAN /\ misfit \in BOOLEAN
      /\ geo \in [Procs -> {NoGeo} \cup Geometry]
      /\ arg \in [Procs -> {None} \cup Seq(Bytes)]
      /\ want \in [Procs -> Nat]
  BY <1>t DEF Types, TypeOK
<1>n. Noted \in Geometry
  BY <1>u DEF Noted, Geometry
<1> USE DEF Goto, Down, Out, Interrupted, device, params, locals, heap,
            PCs, Outside, Trimming, Accesses
<1>1. ASSUME NEW m \in Modes[p], OpenCall(p, m)
      PROVE  Types'
  <2>1. m \in {"r", "w", "rw"}
    BY <1>m
  <2> QED BY <1>1, <1>k, <1>u, <2>1 DEF OpenCall
<1>2. CASE OpenEmptying(p)
  BY <1>2, <1>k, <1>u DEF OpenEmptying
<1>3. CASE Release(p)
  BY <1>3, <1>m, <1>k, <1>u DEF Release
<1>4. CASE \E w \in {"set", "cur", "end"} : \E o \in Offsets : Llseek(p, w, o)
  BY <1>4, <1>k, <1>u DEF Llseek
<1>5. ASSUME NEW n \in Counts, ReadCall(p, n)
      PROVE  Types'
  <2>1. n \in Nat
    BY <1>m
  <2> QED BY <1>5, <1>k, <1>u, <1>n, <2>1 DEF ReadCall
<1>6. ASSUME NEW d \in Payloads, WriteCall(p, d)
      PROVE  Types'
  <2>1. d \in Seq(Bytes)
    BY <1>m, <1>a
  <2> QED BY <1>6, <1>k, <1>u, <1>n, <2>1 DEF WriteCall
<1>7. CASE \/ \E v \in Quanta : IoctlQuantum(p, v)
           \/ \E v \in Qsets : IoctlQset(p, v)
           \/ IoctlReset(p)
  BY <1>7, <1>k, <1>u, <1>m DEF IoctlQuantum, IoctlQset, IoctlReset
<1>8. CASE OpenDown(p) \/ ReadDown(p) \/ WriteDown(p)
  BY <1>8, <1>k, <1>u DEF OpenDown, ReadDown, WriteDown
<1>9. CASE OpenInterrupted(p)
  BY <1>9, <1>k, <1>u DEF OpenInterrupted
<1>10. CASE TrimFree(p)
  BY <1>10, <1>k, <1>u DEF TrimFree
<1>11. CASE TrimReset(p)
  <2>1. /\ pc' \in [Procs -> PCs] /\ sem' \in Procs \cup {NoProc} /\ size' \in 0 .. MaxPos
    BY <1>11, <1>u, <1>m DEF TrimReset
  <2>2. /\ scull_quantum' \in Quanta /\ scull_qset' \in Qsets
        /\ quantum' \in Quanta /\ qset' \in Qsets /\ freed' \in BOOLEAN
        /\ UNCHANGED <<mode, pos, geo, arg, want, stale, wild, misfit>>
    BY <1>11, <1>u DEF TrimReset
  <2> HIDE DEF PCs
  <2> QED BY <1>k, <1>u, <2>1, <2>2
<1>12. CASE ReadInterrupted(p) \/ WriteInterrupted(p)
  <2>1. CASE ReadInterrupted(p)
    BY <2>1, <1>k, <1>u DEF ReadInterrupted
  <2>2. CASE WriteInterrupted(p)
    BY <2>2, <1>k, <1>u DEF WriteInterrupted
  <2> QED BY <1>12, <2>1, <2>2
<1>13. CASE ReadEnd(p) \/ ReadHole(p)
  <2>1. arg' = [arg EXCEPT ![p] = <<>>]
    BY <1>13 DEF ReadEnd, ReadHole
  <2>2. arg' \in [Procs -> {None} \cup Seq(Bytes)]
    <3>1. <<>> \in Seq(Bytes)
      BY EmptySeq
    <3> QED BY <1>u, <2>1, <3>1
  <2>3. CASE ReadEnd(p)
    BY <1>k, <1>u, <2>2, <2>3 DEF ReadEnd
  <2>4. CASE ReadHole(p)
    BY <1>k, <1>u, <2>2, <2>4 DEF ReadHole, Finds
  <2> QED BY <1>13, <2>3, <2>4
<1>14. CASE ReadFound(p)
  <2>1. Min2(want[p], size - pos[p]) \in Nat
    BY <1>14, <1>u DEF ReadFound, Min2
  <2> QED BY <1>14, <1>k, <1>u, <2>1 DEF ReadFound, Finds
<1>15. CASE ReadCopy(p)
  <2>1. pos[p] + ReadCount(p) \in 0 .. MaxPos
    <3>1. ReadCount(p) \in 0 .. want[p] /\ pos[p] + want[p] <= MaxPos
      BY <1>15, <1>t, CopyCounts DEF ReadCopy, CallInv
    <3>2. pos[p] \in Nat /\ want[p] \in Nat /\ MaxPos \in Nat
      BY <1>u, <1>m
    <3> QED BY <3>1, <3>2
  <2>2. arg' \in [Procs -> {None} \cup Seq(Bytes)]
    BY <1>15, ReadBytes
  <2> QED BY <1>15, <1>k, <1>u, <2>1, <2>2 DEF ReadCopy
<1>16. CASE ReadFault(p) \/ ReadOut(p)
  <2>1. CASE ReadFault(p)
    BY <2>1, <1>k, <1>u DEF ReadFault
  <2>2. CASE ReadOut(p)
    BY <2>2, <1>k, <1>u DEF ReadOut
  <2> QED BY <1>16, <2>1, <2>2
<1>17. CASE WriteFind(p)
  BY <1>17, <1>k, <1>u DEF WriteFind, Finds
<1>18. CASE WriteCopy(p)
  <2>1. pos[p] + WriteCount(p) \in 0 .. MaxPos
    <3>1. WriteCount(p) \in 0 .. Len(arg[p]) /\ pos[p] + Len(arg[p]) <= MaxPos
          /\ Len(arg[p]) \in Nat
      BY <1>18, <1>t, CopyCounts DEF WriteCopy, CallInv, Writing
    <3>2. pos[p] \in Nat /\ MaxPos \in Nat
      BY <1>u, <1>m
    <3> QED BY <3>1, <3>2
  <2> QED BY <1>18, <1>k, <1>u, <2>1 DEF WriteCopy
<1>19. CASE WriteNoMemory(p)
  BY <1>19, <1>k, <1>u DEF WriteNoMemory, Finds
<1>20. CASE WriteFault(p)
  BY <1>20, <1>k, <1>u DEF WriteFault
<1>21. CASE WriteSize(p)
  <2>1. Max2(size, pos[p]) \in 0 .. MaxPos
    BY <1>u DEF Max2
  <2> QED BY <1>21, <1>k, <1>u, <2>1 DEF WriteSize
<1>22. CASE Divide(p)
  BY <1>22, <1>k, <1>u DEF Divide
<1> QED BY <1>1, <1>2, <1>3, <1>4, <1>5, <1>6, <1>7, <1>8, <1>9, <1>10, <1>11, <1>12, <1>13,
           <1>14, <1>15, <1>16, <1>17, <1>18, <1>19, <1>20, <1>21, <1>22 DEF Call, Step

(* The clauses about a process's place in the list are about its own noted
   geometry, and about the list. *)
LEMMA PlaceKept ==
  ASSUME NEW p \in Procs, geo'[p] = geo[p], pos'[p] = pos[p], data' = data
  PROVE  HasQuantum(data, p)' <=> HasQuantum(data, p)
BY DEF HasQuantum, HasArray, OutOfArray, Quantum, Array, Reaches, Item, SPos, Rest, Itemsize, Quot,
   Rem

LEMMA CallOthers ==
  ASSUME MemInv, NEW p \in Procs, Call(p) \/ Step(p), NEW q \in Procs \ {p}
  PROVE  CallInv(q)'
<1>1. Own(q) /\ CallInv(q)
  BY OthersOwn DEF MemInv
<1> QED BY <1>1 DEF CallInv, Own, Itemsize

LEMMA CallOwn ==
  ASSUME MemInv, NEW p \in Procs, Call(p) \/ Step(p)
  PROVE  CallInv(p)'
<1>t. Types /\ CallInv(p)
  BY DEF MemInv
<1>m. /\ Quanta \subseteq Int /\ Qsets \subseteq Int /\ Counts \subseteq Nat
      /\ MaxPos \in Nat /\ Payloads \subseteq Seq(Byte)
  BY MemAssumption
<1>u. /\ quantum \in Quanta /\ qset \in Qsets
      /\ size \in 0 .. MaxPos /\ pc \in [Procs -> PCs] /\ pos \in [Procs -> 0 .. MaxPos]
      /\ geo \in [Procs -> {NoGeo} \cup Geometry]
      /\ arg \in [Procs -> {None} \cup Seq(Bytes)]
      /\ want \in [Procs -> Nat]
  BY <1>t DEF Types, TypeOK
<1>n. Noted \in Geometry
  BY <1>u DEF Noted, Geometry
<1>q. ASSUME pc'[p] \notin InCall
      PROVE  CallInv(p)'
  BY <1>q DEF CallInv, InCall, Accesses, Writing
<1> USE DEF Goto, Down, Out, Interrupted, device, params, locals, heap
<1>1. CASE \/ \E m \in Modes[p] : OpenCall(p, m)
           \/ OpenEmptying(p) \/ Release(p)
           \/ \E w \in {"set", "cur", "end"} : \E o \in Offsets : Llseek(p, w, o)
           \/ \E v \in Quanta : IoctlQuantum(p, v)
           \/ \E v \in Qsets : IoctlQset(p, v)
           \/ IoctlReset(p)
  <2>1. pc'[p] \notin InCall
    BY <1>1, <1>u DEF OpenCall, OpenEmptying, Release, Llseek, IoctlQuantum, IoctlQset,
                      IoctlReset, InCall, Accesses
  <2> QED BY <1>q, <2>1
<1>2. CASE \E n \in Counts : ReadCall(p, n)
  BY <1>2, <1>u, <1>m, <1>n DEF ReadCall, CallInv, Writing
<1>3. CASE \E d \in Payloads : WriteCall(p, d)
  <2>1. PICK d \in Payloads : WriteCall(p, d)
    BY <1>3
  <2>2. /\ pc'[p] = "write_down" /\ geo'[p] = Noted /\ arg'[p] = d /\ pos'[p] = pos[p]
        /\ pos[p] + Len(d) <= MaxPos
    BY <1>u, <2>1 DEF WriteCall
  <2> QED BY <1>m, <1>n, <2>1, <2>2 DEF CallInv, Writing
<1>4. CASE OpenDown(p) \/ OpenInterrupted(p) \/ TrimFree(p) \/ TrimReset(p)
  <2>1. pc'[p] \notin InCall
    BY <1>4, <1>u DEF OpenDown, OpenInterrupted, TrimFree, TrimReset, InCall, Accesses
  <2> QED BY <1>q, <2>1
<1>5. CASE \/ ReadInterrupted(p) \/ ReadFault(p) \/ ReadOut(p)
           \/ WriteInterrupted(p) \/ WriteNoMemory(p) \/ WriteFault(p) \/ WriteSize(p)
           \/ Divide(p)
  <2>1. pc'[p] \notin InCall
    BY <1>5, <1>u DEF ReadInterrupted, ReadFault, ReadOut, WriteInterrupted, WriteNoMemory,
                      WriteFault, WriteSize, Divide, InCall, Accesses
  <2> QED BY <1>q, <2>1
<1>6. CASE ReadDown(p)
  BY <1>6, <1>t, <1>u DEF ReadDown, CallInv, InCall, Accesses, Writing
<1>7. CASE ReadEnd(p) \/ ReadHole(p)
  BY <1>7, <1>t, <1>u DEF ReadEnd, ReadHole, CallInv, InCall, Accesses, Writing
<1>8. CASE ReadFound(p)
  <2>1. /\ pc[p] = "read_find" /\ pc'[p] = "read_copy" /\ geo'[p] = geo[p] /\ pos'[p] = pos[p]
        /\ pos[p] < size /\ want'[p] = Min2(want[p], size - pos[p]) /\ Itemsize(p)' # 0
    BY <1>8, <1>u DEF ReadFound, Itemsize
  <2>2. want[p] \in Nat /\ geo[p] \in Geometry
    BY <1>t, <1>u, <2>1 DEF CallInv, InCall, Accesses
  <2>3. pos'[p] + want'[p] <= MaxPos
    BY <1>u, <1>m, <2>1, <2>2 DEF Min2
  <2> QED BY <2>1, <2>2, <2>3 DEF CallInv, Writing
<1>9. CASE ReadCopy(p)
  BY <1>9, <1>t, <1>u DEF ReadCopy, CallInv, InCall, Accesses, Writing
<1>10. CASE WriteDown(p) \/ WriteFind(p)
  <2>1. /\ pc[p] \in {"write_down", "write_find"} /\ pc'[p] \in {"write_find", "write_copy"}
        /\ UNCHANGED <<geo, arg, pos>>
        /\ pc'[p] = "write_copy" => Itemsize(p)' # 0
    BY <1>10, <1>u DEF WriteDown, WriteFind, Itemsize
  <2> QED BY <1>t, <2>1 DEF CallInv, InCall, Accesses, Writing
<1>11. CASE WriteCopy(p)
  BY <1>11, <1>t, <1>u DEF WriteCopy, CallInv, InCall, Accesses, Writing
<1> QED BY <1>1, <1>2, <1>3, <1>4, <1>5, <1>6, <1>7, <1>8, <1>9, <1>10, <1>11 DEF Call, Step

-----------------------------------------------------------------------------
\* The first theorems.

LEMMA MemInit ==
  ASSUME Init
  PROVE  MemInv
<1>1. Types
  <2>1. <<>> \in Seq(Seq(Seq(Byte \cup {Junk})))
    BY EmptySeq
  <2>2. data \in Seq(Seq(Seq(Byte \cup {Junk})))
    BY <2>1 DEF Init
  <2>3. /\ geo \in [Procs -> {NoGeo} \cup Geometry]
        /\ arg \in [Procs -> {None} \cup Seq(Bytes)]
        /\ want \in [Procs -> Nat]
    BY DEF Init
  <2>4. \A p \in Procs : geo[p] = NoGeo /\ arg[p] = None /\ want[p] \in Nat
    BY DEF Init
  <2>5. size \in 0 .. MaxPos /\ pos \in [Procs -> 0 .. MaxPos] /\ pc \in [Procs -> PCs]
    BY MemAssumption DEF Init, PCs, Outside
  <2>6. /\ scull_quantum \in Quanta /\ scull_qset \in Qsets
        /\ quantum \in Quanta /\ qset \in Qsets /\ sem \in Procs \cup {NoProc}
        /\ mode \in [Procs -> {"r", "w", "rw"}]
        /\ stale \subseteq Procs /\ freed \in BOOLEAN /\ wild \in BOOLEAN /\ misfit \in BOOLEAN
    BY DEF Init
  <2> QED BY <2>2, <2>3, <2>4, <2>5, <2>6 DEF Types, TypeOK
<1>2. SemInv
  BY MemAssumption DEF Init, SemInv, Critical, Accesses, Trimming
<1>3. FreedInv
  BY DEF Init, FreedInv
<1>4. \A p \in Procs : CallInv(p)
  BY DEF Init, CallInv, InCall, Accesses, Writing
<1> QED BY <1>1, <1>2, <1>3, <1>4 DEF MemInv

LEMMA MemNext ==
  ASSUME MemInv, Guarded, [Next]_vars
  PROVE  MemInv'
<1>1. CASE UNCHANGED vars
  BY <1>1 DEF MemInv, Types, TypeOK, SemInv, FreedInv, CallInv, Itemsize, Critical,
     vars, params, device, locals, heap
<1>2. ASSUME NEW p \in Procs, Call(p) \/ Step(p)
      PROVE  MemInv'
  <2>1. Types'
    BY <1>2, TypesStep
  <2>2. SemInv'
    BY <1>2, SemStep DEF MemInv
  <2>3. FreedInv'
    BY <1>2, FreedStep
  <2>4. \A q \in Procs : CallInv(q)'
    BY <1>2, CallOthers, CallOwn
  <2> QED BY <2>1, <2>2, <2>3, <2>4 DEF MemInv
<1> QED BY <1>1, <1>2 DEF Next

(* For any processes and parameters, changed at any time, and whatever calls
   fail: the invariant holds of a device whose open() takes the semaphore, and
   of any device that one process has alone. *)
THEOREM MemInvariant ==
  ASSUME Guarded
  PROVE  Spec => []MemInv
<1>1. Init => MemInv
  BY MemInit
<1>2. MemInv /\ [Next]_vars => MemInv'
  BY MemNext
<1> QED BY <1>1, <1>2, PTL DEF Spec

(* Every variable keeps a value of its kind: whatever the geometry, zero or
   negative, neither the size nor a position passes MaxPos (main.c:304-307). *)
THEOREM MemTypes ==
  ASSUME Guarded
  PROVE  Spec => []TypeOK
<1>1. MemInv => TypeOK
  BY DEF MemInv, Types
<1> QED BY <1>1, MemInvariant, PTL

(* scull_trim() is never beside a read() or write() that uses the list
   (main.c:60). *)
THEOREM MemTrimAlone ==
  ASSUME Guarded
  PROVE  Spec => []TrimAlone
<1>1. MemInv => TrimAlone
  BY Exclusive DEF MemInv, TrimAlone, Inside
<1> QED BY <1>1, MemInvariant, PTL

-----------------------------------------------------------------------------
\* The geometry of the list.

LEMMA ExtendsShape ==
  ASSUME Types, Shaped(data), NEW p \in Procs, geo[p] = Noted, NEW e, Extends(e, p)
  PROVE  Shaped(e)
<1>1. geo[p].qset = qset /\ geo[p].quantum = quantum
  BY DEF Noted
<1>2. e \in Lists /\ Len(e) \in Nat /\ Len(data) \in Nat /\ Len(e) >= Len(data)
  BY DataTyped, ListTyped DEF Extends
<1>3. ASSUME NEW i \in 1 .. Len(e), e[i] # <<>>
      PROVE  /\ Len(e[i]) = qset
             /\ \A j \in 1 .. qset : e[i][j] # <<>> => Len(e[i][j]) = quantum
  <2>1. /\ (i <= Len(data) /\ data[i] # <<>>) \/ Len(e[i]) = qset
        /\ \A l \in 1 .. Len(e[i]) : e[i][l] # <<>> =>
             \/ i <= Len(data) /\ data[i] # <<>> /\ data[i][l] # <<>>
             \/ Len(e[i][l]) = quantum
    BY <1>1, <1>3 DEF Extends
  <2>2. CASE i <= Len(data) /\ data[i] # <<>>
    <3>1. i \in 1 .. Len(data)
      BY <1>2, <2>2
    <3>2. /\ Len(data[i]) = qset
          /\ \A j \in 1 .. qset : data[i][j] # <<>> => Len(data[i][j]) = quantum
      BY <2>2, <3>1 DEF Shaped
    <3>3. /\ Len(e[i]) = Len(data[i])
          /\ \A l \in 1 .. Len(data[i]) : data[i][l] # <<>> => Len(e[i][l]) = Len(data[i][l])
      BY <2>2, <3>1 DEF Extends
    <3> QED BY <2>1, <3>2, <3>3
  <2>3. CASE ~(i <= Len(data) /\ data[i] # <<>>)
    BY <2>1, <2>3
  <2> QED BY <2>2, <2>3
<1> QED BY <1>3 DEF Shaped

(* By that geometry no position leaves its array or its quantum. *)
LEMMA ShapedPlaces ==
  ASSUME Types, NEW p \in Procs, Fits(p), Itemsize(p) # 0, NEW d \in Lists, Shaped(d)
  PROVE  /\ HasArray(d, p) => Usable
         /\ ~OutOfArray(d, p)
         /\ HasQuantum(d, p) => Len(Quantum(d, p)) = quantum
<1>3. Len(d) \in Nat
  BY ListTyped
<1>g. /\ geo[p] \in Geometry /\ geo[p].qset = qset /\ geo[p].quantum = quantum
      /\ quantum \in Nat /\ qset \in Int
  BY MemAssumption DEF Fits, Noted, Geometry, Types, TypeOK
<1>4. ASSUME HasArray(d, p)
      PROVE  /\ Len(d[Item(p) + 1]) = qset
             /\ \A j \in 1 .. qset :
                  d[Item(p) + 1][j] # <<>> => Len(d[Item(p) + 1][j]) = quantum
             /\ Usable
  <2>1. Item(p) + 1 \in 1 .. Len(d) /\ d[Item(p) + 1] # <<>>
    BY <1>3, <1>4, <1>g, Places DEF HasArray, Reaches, Array
  <2>2. Len(d[Item(p) + 1]) = qset /\ qset > 0
    BY <2>1, <1>g, ListTyped DEF Shaped
  <2>3. quantum > 0
    BY <1>g, <2>2 DEF Itemsize
  <2> QED BY <2>1, <2>2, <2>3 DEF Shaped, Usable
<1>5. ASSUME HasArray(d, p)
      PROVE  SPos(p) \in 0 .. qset - 1
  BY <1>4, <1>5, UsablePlaces
<1>6. ~OutOfArray(d, p)
  BY <1>4, <1>5, <1>g DEF OutOfArray, Array
<1>7. ASSUME HasQuantum(d, p)
      PROVE  Len(Quantum(d, p)) = quantum
  <2>1. SPos(p) + 1 \in 1 .. qset /\ HasArray(d, p)
    BY <1>5, <1>7, <1>g DEF HasQuantum
  <2> QED BY <1>4, <1>7, <2>1 DEF HasQuantum, Quantum, Array
<1> QED BY <1>4, <1>6, <1>7

LEMMA KeptHere ==
  ASSUME Types, NEW p \in Procs, Fits(p), Usable, HasQuantum(data, p)
  PROVE  Kept(pos[p])
<1>1. /\ Item(p) = pos[p] \div (quantum * qset)
      /\ SPos(p) = (pos[p] % (quantum * qset)) \div quantum
  BY UsablePlaces
<1> QED BY <1>1, Zenon DEF Kept, HasQuantum, HasArray, Reaches, Quantum, Array

LEMMA KeptExtends ==
  ASSUME Types, Shaped(data), NEW p \in Procs, Extends(data', p),
         UNCHANGED <<quantum, qset>>, Usable, NEW x \in Nat, Kept(x)
  PROVE  Kept(x)'
<1> DEFINE m == x \div (quantum * qset)
           n == (x % (quantum * qset)) \div quantum
<1>1. quantum \in Nat \ {0} /\ qset \in Nat \ {0}
  BY MemAssumption DEF Types, TypeOK, Usable
<1>2. m \in Nat /\ n \in 0 .. qset - 1
  BY <1>1, Location, Zenon
<1>3. Len(data) > m /\ data[m + 1] # <<>> /\ data[m + 1][n + 1] # <<>>
  BY Zenon DEF Kept
<1>4. ASSUME Len(data') > m, data'[m + 1] # <<>>, data'[m + 1][n + 1] # <<>>
      PROVE  Kept(x)'
  <2>1. quantum' = quantum /\ qset' = qset
    OBVIOUS
  <2> QED BY <1>4, <2>1, Zenon DEF Kept
<1>5. Len(data) \in Nat /\ Len(data') \in Nat /\ Len(data') >= Len(data)
  BY DataTyped, ListTyped DEF Extends
<1> HIDE DEF m, n
<1>6. m + 1 \in 1 .. Len(data) /\ Len(data[m + 1]) = qset /\ n + 1 \in 1 .. qset
  BY <1>1, <1>2, <1>3, <1>5 DEF Shaped
<1>7. data'[m + 1] # <<>> /\ data'[m + 1][n + 1] # <<>>
  BY <1>3, <1>6 DEF Extends
<1> QED BY <1>2, <1>3, <1>4, <1>5, <1>7

LEMMA GeometryKept ==
  ASSUME NEW p \in Procs, Call(p) \/ Step(p), ~TrimReset(p)
  PROVE  /\ quantum' = quantum /\ qset' = qset /\ Noted' = Noted
         /\ Tuners = {} => scull_quantum' = scull_quantum /\ scull_qset' = scull_qset
<1> USE DEF Noted, Goto, Down, Out, Interrupted, device, params
<1>1. CASE Call(p)
  BY <1>1 DEF Call, OpenCall, OpenEmptying, Release, Llseek, ReadCall, WriteCall,
              IoctlQuantum, IoctlQset, IoctlReset
<1>2. CASE Step(p)
  BY <1>2 DEF Step, OpenDown, OpenInterrupted, TrimFree, ReadDown, ReadInterrupted,
              ReadEnd, ReadHole, Divide, ReadFound, ReadCopy, ReadFault, ReadOut, WriteDown,
              WriteInterrupted, WriteFind, WriteNoMemory, WriteCopy, WriteFault, WriteSize
<1> QED BY <1>1, <1>2

(* A call notes the geometry when it starts. *)
LEMMA CallNotes ==
  ASSUME Types, NEW p \in Procs, Call(p) \/ Step(p), pc'[p] \in InCall
  PROVE  geo'[p] = Noted \/ (pc[p] \in InCall /\ geo'[p] = geo[p])
<1>t. pc \in [Procs -> PCs] /\ geo \in [Procs -> {NoGeo} \cup Geometry]
  BY DEF Types, TypeOK
<1> USE <1>t DEF Goto, Down, Out, Interrupted, locals, InCall, Accesses
<1>1. CASE Call(p)
  BY <1>1 DEF Call, OpenCall, OpenEmptying, Release, Llseek, ReadCall, WriteCall,
              IoctlQuantum, IoctlQset, IoctlReset
<1>2. CASE Step(p)
  BY <1>2 DEF Step, OpenDown, OpenInterrupted, TrimFree, TrimReset, ReadDown,
              ReadInterrupted, ReadEnd, ReadHole, Divide, ReadFound, ReadCopy, ReadFault, ReadOut,
              WriteDown, WriteInterrupted, WriteFind, WriteNoMemory, WriteCopy, WriteFault,
              WriteSize
<1> QED BY <1>1, <1>2

LEMMA GeometryStep ==
  ASSUME MemInv, GeometryInv, Steady, NEW p \in Procs, Call(p) \/ Step(p)
  PROVE  GeometryInv'
<1>t. Types /\ SemInv
  BY DEF MemInv
<1>1. CASE TrimReset(p)
  <2>1. /\ pc[p] = "trim_reset" /\ pc'[p] = "idle" /\ geo' = geo
        /\ scull_quantum' = scull_quantum /\ scull_qset' = scull_qset
        /\ quantum' = scull_quantum /\ qset' = scull_qset
    BY <1>1, <1>t DEF TrimReset, Goto, params, locals, Types, TypeOK
  <2>2. ASSUME NEW q \in Procs, pc'[q] \in InCall
        PROVE  geo'[q] = Noted'
    <3>1. q # p /\ pc[q] \in InCall /\ geo[q] = Noted
      BY <1>t, <2>1, <2>2, OthersOwn DEF Own, InCall, Accesses, GeometryInv
    <3>2. ~OneUser
      <4>1. Modes[p] # {} /\ Modes[q] # {}
        BY <1>t, <2>1, <3>1 DEF SemInv, InCall, Accesses
      <4> QED BY <3>1, <4>1 DEF OneUser
    <3>3. quantum' = quantum /\ qset' = qset
      BY <2>1, <3>2 DEF Steady, GeometryInv
    <3> QED BY <2>1, <3>1, <3>3 DEF Noted
  <2> QED BY <2>1, <2>2 DEF GeometryInv
<1>2. CASE ~TrimReset(p)
  <2>1. /\ quantum' = quantum /\ qset' = qset /\ Noted' = Noted
        /\ Tuners = {} => scull_quantum' = scull_quantum /\ scull_qset' = scull_qset
    BY <1>2, GeometryKept
  <2>2. ASSUME NEW q \in Procs, pc'[q] \in InCall
        PROVE  geo'[q] = Noted'
    <3>1. CASE q = p
      BY <1>t, <2>1, <2>2, <3>1, CallNotes DEF GeometryInv
    <3>2. CASE q # p
      BY <1>t, <2>1, <2>2, <3>2, OthersOwn DEF Own, GeometryInv
    <3> QED BY <3>1, <3>2
  <2> QED BY <2>1, <2>2 DEF GeometryInv
<1> QED BY <1>1, <1>2

(* Once a call has worked by a wrong geometry, that is never forgotten; and a
   call that has just looked for its place shows by which it works. *)
LEMMA MisfitStep ==
  ASSUME Types, NEW p \in Procs, Call(p) \/ Step(p), ~misfit'
  PROVE  /\ ~misfit
         /\ (\/ ReadHole(p) \/ ReadFound(p) \/ WriteFind(p) \/ WriteNoMemory(p)
             \/ Divide(p)) => Fits(p)
<1>1. CASE \/ ReadHole(p) \/ ReadFound(p) \/ WriteFind(p) \/ WriteNoMemory(p)
           \/ Divide(p)
  <2>1. misfit' = (misfit \/ ~Fits(p))
    BY <1>1 DEF ReadHole, ReadFound, WriteFind, WriteNoMemory, Divide, Finds
  <2> QED BY <2>1
<1>2. CASE /\ ~ReadHole(p) /\ ~ReadFound(p) /\ ~WriteFind(p) /\ ~WriteNoMemory(p)
           /\ ~Divide(p)
  <2>1. misfit' = misfit
    <3>1. CASE Call(p)
      BY <3>1 DEF Call, OpenCall, OpenEmptying, Release, Llseek, ReadCall, WriteCall,
                  IoctlQuantum, IoctlQset, IoctlReset, heap
    <3>2. CASE Step(p)
      BY <1>2, <3>2 DEF Step, OpenDown, OpenInterrupted, Interrupted, TrimFree, TrimReset,
         ReadDown, ReadInterrupted, ReadEnd, ReadCopy, ReadFault, ReadOut, WriteDown,
         WriteInterrupted, WriteCopy, WriteFault, WriteSize, heap
    <3> QED BY <3>1, <3>2
  <2> QED BY <1>2, <2>1
<1> QED BY <1>1, <1>2

(* Who is not in the list leaves it, and what is said about the others, alone. *)
LEMMA ShapeQuiet ==
  ASSUME MemInv, ListInv, NEW p \in Procs, Call(p) \/ Step(p), pc[p] \notin Inside
  PROVE  ListInv'
<1>t. Types /\ pc \in [Procs -> PCs]
  BY DEF MemInv, Types, TypeOK
<1>1. UNCHANGED <<quantum, qset, size, data, stale, freed, wild>>
  BY DeviceKept
<1>b. ASSUME NEW x, Backed(x)
      PROVE  Backed(x)'
  BY <1>1, <1>b DEF Backed, Usable, Kept
<1>2. ~wild' /\ Shaped(data)' /\ (size' > 0 /\ ~freed' => Backed(size)')
  BY <1>1 DEF ListInv, Shaped, Backed, Usable, Kept
<1>3. pc'[p] \notin {"read_copy", "write_copy", "write_size"}
  BY <1>t DEF Inside, Trimming, Accesses, Call, Step, Goto, Down, Out, Interrupted,
     OpenCall, OpenEmptying, Release, Llseek, ReadCall, WriteCall, IoctlQuantum, IoctlQset,
     IoctlReset, OpenDown, OpenInterrupted, TrimFree, TrimReset, ReadDown, ReadInterrupted,
     ReadEnd, ReadHole, Divide, ReadFound, ReadCopy, ReadFault, ReadOut, WriteDown,
     WriteInterrupted, WriteFind, WriteNoMemory, WriteCopy, WriteFault, WriteSize
<1>4. ASSUME NEW q \in Procs, pc'[q] \in {"read_copy", "write_copy"}
      PROVE  Fits(q)' /\ HasQuantum(data, q)'
  <2>1. q # p /\ Own(q)
    BY <1>t, <1>3, <1>4, OthersOwn
  <2>2. Fits(q) /\ HasQuantum(data, q)
    BY <1>4, <2>1 DEF Own, ListInv
  <2>3. HasQuantum(data, q)'
    BY <1>1, <2>1, <2>2, PlaceKept DEF Own
  <2> QED BY <1>1, <2>1, <2>2, <2>3 DEF Own, Fits, Noted
<1>5. ASSUME NEW q \in Procs, pc'[q] = "write_size"
      PROVE  Backed(pos[q])'
  <2>1. q # p /\ Own(q)
    BY <1>t, <1>3, <1>5, OthersOwn
  <2>2. Backed(pos[q]) /\ pos'[q] = pos[q]
    BY <1>5, <2>1 DEF Own, ListInv
  <2> QED BY <1>1, <2>2 DEF Backed, Usable, Kept
<1> QED BY <1>2, <1>4, <1>5 DEF ListInv

(* Nobody else is in the list, nor about to use a place in it. *)
LEMMA OthersOut ==
  ASSUME MemInv, Guarded, NEW p \in Procs, Call(p) \/ Step(p), pc[p] \in Inside
  PROVE  /\ \A q \in Procs \ {p} : pc'[q] \notin {"read_copy", "write_copy", "write_size"}
         /\ pc[p] # "trim_reset" => ~freed
<1>t. Types /\ SemInv /\ FreedInv
  BY DEF MemInv
<1>1. ASSUME NEW q \in Procs \ {p}
      PROVE  pc[q] \notin Inside /\ pc'[q] = pc[q]
  BY <1>t, Exclusive, OthersOwn DEF Own
<1>2. pc[p] # "trim_reset" => ~freed
  BY <1>t, <1>1 DEF FreedInv, Inside, Trimming
<1> QED BY <1>1, <1>2 DEF Inside, Accesses

LEMMA ShapeTrim ==
  ASSUME MemInv, ListInv, Guarded, NEW p \in Procs, TrimFree(p) \/ TrimReset(p)
  PROVE  ListInv'
<1>t. Types /\ pc \in [Procs -> PCs] /\ pc[p] \in Trimming /\ Step(p)
  BY DEF MemInv, Types, TypeOK, TrimFree, TrimReset, Goto, Trimming, Step
<1>1. /\ \A q \in Procs \ {p} : pc'[q] \notin {"read_copy", "write_copy", "write_size"}
      /\ pc[p] # "trim_reset" => ~freed
  BY <1>t, OthersOut DEF Inside
<1>2. pc'[p] \notin {"read_copy", "write_copy", "write_size"}
  BY <1>t DEF TrimFree, TrimReset, Goto
<1>3. \A q \in Procs : pc'[q] \notin {"read_copy", "write_copy", "write_size"}
  BY <1>1, <1>2
<1>4. CASE TrimFree(p)
  <2>1. /\ UNCHANGED <<quantum, qset, size, data>> /\ freed' = (data # <<>>)
        /\ wild' = (wild \/ freed \/ \E i \in 1 .. Len(data) :
                                       data[i] # <<>> /\ Len(data[i]) < qset)
        /\ ~freed
    BY <1>1, <1>4 DEF TrimFree, device, Goto
  <2>2. ~wild'
    <3>1. qset \in Int
      BY <1>t, MemAssumption DEF Types, TypeOK
    <3>2. ~wild /\ \A i \in 1 .. Len(data) : data[i] # <<>> => Len(data[i]) = qset
      BY DEF ListInv, Shaped
    <3>3. \A i \in 1 .. Len(data) : data[i] # <<>> => ~(Len(data[i]) < qset)
      BY <3>1, <3>2
    <3> QED BY <2>1, <3>2, <3>3
  <2>3. Shaped(data)'
    BY <2>1 DEF ListInv, Shaped
  <2>4. size' > 0 /\ ~freed' => Backed(size)'
    BY <2>1 DEF ListInv, Backed, Usable, Kept
  <2> QED BY <1>3, <2>2, <2>3, <2>4 DEF ListInv
<1>5. CASE TrimReset(p)
  <2>1. size' = 0 /\ data' = <<>> /\ wild' = wild
    BY <1>5 DEF TrimReset
  <2>2. Shaped(data)'
    BY <2>1 DEF Shaped
  <2> QED BY <1>3, <2>1, <2>2 DEF ListInv
<1> QED BY <1>4, <1>5

(* What read() and write() leave of the list. *)
LEMMA AccessKeeps ==
  ASSUME MemInv, ListInv, Guarded, NEW p \in Procs, Call(p) \/ Step(p), pc[p] \in Accesses,
         ~misfit'
  PROVE  /\ geo[p] \in Geometry /\ (data' # data => Fits(p))
         /\ ~freed /\ ~freed' /\ stale = {}
         /\ UNCHANGED <<quantum, qset>>
         /\ Shaped(data')
         /\ \A x \in Nat : Usable /\ Kept(x) => Kept(x)'
         /\ \A x \in Nat : Backed(x) => Backed(x)'
<1>t. /\ Types /\ FreedInv /\ CallInv(p)
  BY DEF MemInv
<1>1. geo[p] \in Geometry
  BY <1>t DEF CallInv, InCall
<1>2. ~freed
  BY OthersOut DEF Inside, Accesses
<1>3. ~TrimReset(p) /\ ~TrimFree(p)
  BY DEF TrimReset, TrimFree, Goto, Accesses
<1>4. UNCHANGED <<quantum, qset>>
  BY <1>3, GeometryKept
<1>5. ~freed'
  <2>1. FreedInv'
    BY FreedStep
  <2>2. ASSUME NEW r \in Procs
        PROVE  pc'[r] # "trim_reset"
    <3>1. CASE r # p
      <4>1. pc[r] \notin Inside /\ pc'[r] = pc[r]
        BY <1>t, <3>1, Exclusive, OthersOwn DEF Own, MemInv, Inside
      <4> QED BY <4>1 DEF Inside, Trimming
    <3>2. CASE r = p
      <4>1. pc \in [Procs -> PCs]
        BY <1>t DEF Types, TypeOK
      <4> QED BY <1>3, <3>2, <4>1 DEF Accesses, Call, Step, Goto, Down, Out, Interrupted,
            OpenCall, OpenEmptying, Release, Llseek, ReadCall, WriteCall, IoctlQuantum,
            IoctlQset, IoctlReset, OpenDown, OpenInterrupted, ReadDown, ReadInterrupted,
            ReadEnd, ReadHole, Divide, ReadFound, ReadCopy, ReadFault, ReadOut,
            WriteDown, WriteInterrupted, WriteFind, WriteNoMemory, WriteCopy, WriteFault,
            WriteSize
    <3> QED BY <3>1, <3>2
  <2> QED BY <2>1, <2>2 DEF FreedInv
<1>6. Shaped(data)
  BY DEF ListInv
<1>7. data' = data \/ Extends(data', p)
  BY <1>3, DataStep
<1>f. ASSUME data' # data
      PROVE  Fits(p)
  <2>1. CASE pc[p] = "write_copy"
    BY <2>1 DEF ListInv
  <2>2. CASE pc[p] # "write_copy"
    <3>1. ReadHole(p) \/ WriteFind(p) \/ WriteNoMemory(p)
      BY <1>3, <1>f, <2>2 DEF Call, Step, Goto, Down, Out, Interrupted, device,
         OpenCall, OpenEmptying, Release, Llseek, ReadCall, WriteCall, IoctlQuantum,
         IoctlQset, IoctlReset, OpenDown, OpenInterrupted, ReadDown, ReadInterrupted,
         ReadEnd, Divide, ReadFound, ReadCopy, ReadFault, ReadOut,
         WriteDown, WriteInterrupted, WriteCopy, WriteFault, WriteSize
    <3> QED BY <1>t, <3>1, MisfitStep
  <2> QED BY <2>1, <2>2
<1>8. Shaped(data')
  BY <1>t, <1>6, <1>7, <1>f, ExtendsShape DEF Fits
<1>9. ASSUME NEW x \in Nat, Usable, Kept(x)
      PROVE  Kept(x)'
  <2>1. CASE data' = data
    BY <1>4, <1>9, <2>1 DEF Kept
  <2>2. CASE Extends(data', p)
    BY <1>t, <1>4, <1>6, <1>9, <2>2, KeptExtends
  <2> QED BY <1>7, <2>1, <2>2
<1>10. ASSUME NEW x \in Nat, Backed(x)
       PROVE  Backed(x)'
  <2>1. Usable /\ Usable'
    BY <1>4, <1>10 DEF Backed, Usable
  <2>2. CASE Kept(x)
    BY <1>9, <2>1, <2>2 DEF Backed
  <2>3. CASE x > 0 /\ Kept(x - 1)
    <3> DEFINE y == x - 1
    <3>1. y \in Nat /\ Kept(y)
      BY <2>3
    <3> HIDE DEF y
    <3>2. Kept(y)'
      BY <1>9, <2>1, <3>1
    <3>3. Kept(x - 1)'
      BY <3>2 DEF y, Kept
    <3> QED BY <2>1, <2>3, <3>3 DEF Backed
  <2> QED BY <1>10, <2>2, <2>3 DEF Backed
<1> QED BY <1>1, <1>2, <1>4, <1>5, <1>8, <1>9, <1>10, <1>f, <1>t DEF FreedInv

(* A copy stays in the quantum, and ends next to a byte of the device. *)
LEMMA CopyKept ==
  ASSUME Types, NEW p \in Procs, Fits(p), Itemsize(p) # 0,
         HasQuantum(data, p), Shaped(data), ~freed, stale = {},
         NEW n \in Nat
  PROVE  /\ Usable
         /\ LET k == UpToQuantum(p, n)
            IN  k \in Nat => ~WildCopy(p, k) /\ Backed(pos[p] + k)
<1>u. Usable /\ Len(Quantum(data, p)) = quantum
  BY DataTyped, ShapedPlaces DEF HasQuantum
<1>1. /\ quantum \in Nat \ {0} /\ qset \in Nat \ {0} /\ pos[p] \in Nat
      /\ QPos(p) = (pos[p] % (quantum * qset)) % quantum
      /\ QPos(p) \in 0 .. quantum - 1
  BY <1>u, UsablePlaces
<1> DEFINE k == UpToQuantum(p, n)
<1>2. QPos(p) + k <= quantum
  BY <1>u, CopyInside
<1> HIDE DEF k
<1>3. ASSUME k \in Nat
      PROVE  ~WildCopy(p, k)
  BY <1>1, <1>2, <1>3, <1>u DEF WildCopy
<1>5. Kept(pos[p])
  BY <1>u, KeptHere
<1>6. ASSUME k \in Nat
      PROVE  Backed(pos[p] + k)
  <2>1. CASE k = 0
    <3>1. pos[p] + k = pos[p]
      BY <1>1, <2>1
    <3> QED BY <1>5, <1>u, <3>1 DEF Backed
  <2>2. CASE k # 0
    <3> DEFINE x == pos[p]
               m == k - 1
    <3>1. ((pos[p] % (quantum * qset)) % quantum) + (k - 1) < quantum
      <4>1. QPos(p) + (k - 1) < quantum
        BY <1>1, <1>2, <1>6, <2>2
      <4> QED BY <1>1, <4>1, Zenon
    <3>2. m \in Nat /\ x \in Nat /\ x + m = (pos[p] + k) - 1 /\ pos[p] + k > 0
      BY <1>1, <1>6, <2>2
    <3>3. ((x % (quantum * qset)) % quantum) + m < quantum
      BY <3>1, Zenon
    <3>4. Kept(x)
      BY <1>5
    <3> HIDE DEF x, m
    <3>5. /\ (x + m) \div (quantum * qset) = x \div (quantum * qset)
          /\ ((x + m) % (quantum * qset)) \div quantum = (x % (quantum * qset)) \div quantum
      <4>1. ASSUME NEW q \in Nat \ {0}, NEW s \in Nat \ {0}, ((x % (q * s)) % q) + m < q
            PROVE  /\ (x + m) \div (q * s) = x \div (q * s)
                   /\ ((x + m) % (q * s)) \div q = (x % (q * s)) \div q
        BY <3>2, <4>1, SameQuantum, Zenon
      <4> QED BY <1>1, <3>3, <4>1, Zenon
    <3>6. Kept(x + m)
      BY <3>4, <3>5, Zenon DEF Kept
    <3>7. Kept((pos[p] + k) - 1)
      BY <3>2, <3>6
    <3> DEFINE y == pos[p] + k
    <3>8. y > 0 /\ Kept(y - 1)
      BY <3>2, <3>7
    <3> HIDE DEF y
    <3>9. Backed(y)
      BY <1>u, <3>8 DEF Backed
    <3> QED BY <3>9 DEF y
  <2> QED BY <2>1, <2>2
<1> QED BY <1>3, <1>6, <1>u DEF k

LEMMA ShapeAccess ==
  ASSUME MemInv, ListInv, Guarded, NEW p \in Procs, Call(p) \/ Step(p), pc[p] \in Accesses,
         ~misfit'
  PROVE  ListInv'
<1>t. /\ Types /\ CallInv(p) /\ pc \in [Procs -> PCs] /\ wild = FALSE /\ Shaped(data)
      /\ pos \in [Procs -> 0 .. MaxPos] /\ size \in 0 .. MaxPos /\ MaxPos \in Nat
  BY MemAssumption DEF MemInv, ListInv, Types, TypeOK
<1>k. /\ geo[p] \in Geometry /\ (data' # data => Fits(p))
      /\ ~freed /\ ~freed' /\ stale = {}
      /\ UNCHANGED <<quantum, qset>>
      /\ Shaped(data')
      /\ \A x \in Nat : Backed(x) => Backed(x)'
  BY AccessKeeps
<1>z. ASSUME ~wild', size' > 0 => Backed(size)',
             pc'[p] \in {"read_copy", "write_copy"} => Fits(p)' /\ HasQuantum(data, p)',
             pc'[p] = "write_size" => Backed(pos[p])'
      PROVE  ListInv'
  <2>1. Shaped(data)'
    BY <1>k DEF Shaped
  <2>2. \A q \in Procs \ {p} : pc'[q] \notin {"read_copy", "write_copy", "write_size"}
    BY OthersOut DEF Inside
  <2> QED BY <1>z, <2>1, <2>2 DEF ListInv
<1>s. ASSUME size' = size
      PROVE  size' > 0 => Backed(size)'
  <2>1. SUFFICES ASSUME size > 0 PROVE Backed(size)'
    BY <1>s
  <2>2. size \in Nat /\ Backed(size)
    BY <1>t, <1>k, <2>1 DEF ListInv
  <2>3. ASSUME NEW y \in Nat, y = size, Backed(y)
        PROVE  Backed(size)'
    <3>1. Backed(y)' /\ size' = y
      BY <1>s, <1>k, <2>3
    <3> QED BY <3>1 DEF Backed, Usable, Kept
  <2> QED BY <2>2, <2>3
<1>f. ASSUME Fits(p), Itemsize(p) # 0, NEW d \in Followed(p)
      PROVE  Extends(d, p) /\ Shaped(d) /\ ~OutOfArray(d, p)
  <2>1. Item(p) \in Int
    BY <1>t, <1>k, <1>f, Places
  <2>2. Extends(d, p)
    BY <1>t, <2>1, FollowedExtends
  <2>3. Shaped(d) /\ d \in Lists
    BY <1>t, <1>f, <2>2, ExtendsShape DEF Extends, Fits
  <2> QED BY <1>t, <1>f, <2>2, <2>3, ShapedPlaces
<1>g. ASSUME Fits(p), Itemsize(p) # 0, NEW d \in Arrays(p)
      PROVE  Extends(d, p) /\ HasArray(d, p) /\ ~OutOfArray(d, p) /\ Usable
  <2>1. PICK e \in Followed(p) :
          d = WithArray(e, p) /\ Reaches(e, p) /\ (HasArray(e, p) \/ geo[p].qset > 0)
    BY DEF Arrays
  <2>2. Extends(d, p) /\ HasArray(d, p)
    BY <1>t, <1>k, <1>f, <1>g, <2>1, ArrayExtends
  <2>3. Shaped(d) /\ d \in Lists
    BY <1>t, <1>g, <2>2, ExtendsShape DEF Extends, Fits
  <2> QED BY <1>t, <1>g, <2>2, <2>3, ShapedPlaces
<1>m. (ReadHole(p) \/ ReadFound(p) \/ WriteFind(p) \/ WriteNoMemory(p)) => Fits(p)
  BY <1>t, MisfitStep
<1>c. ASSUME pc[p] \in {"read_copy", "write_copy"}, NEW n \in Nat,
             UpToQuantum(p, n) \in Nat
      PROVE  ~WildCopy(p, UpToQuantum(p, n)) /\ Backed(pos[p] + UpToQuantum(p, n))
  BY <1>t, <1>k, <1>c, CopyKept DEF ListInv, CallInv
<1>1. CASE ReadEnd(p) \/ ReadOut(p) \/ ReadFault(p) \/ Divide(p)
  <2>1. size' = size /\ wild' = wild
        /\ pc'[p] \notin {"read_copy", "write_copy", "write_size"}
    BY <1>1, <1>t DEF ReadEnd, ReadOut, ReadFault, Divide, Out, Goto, device, heap
  <2> QED BY <1>s, <1>t, <1>z, <2>1
<1>2. CASE ReadHole(p)
  <2>1. PICK d \in Followed(p) : wild' = (wild \/ WildFind(d, p))
    BY <1>2 DEF ReadHole, Finds
  <2>2. Fits(p) /\ Itemsize(p) # 0
    BY <1>2, <1>m DEF ReadHole
  <2>3. ~wild'
    BY <1>k, <1>t, <1>f, <2>1, <2>2 DEF WildFind
  <2>4. size' = size /\ pc'[p] = "read_out"
    BY <1>2, <1>t DEF ReadHole, Goto
  <2> QED BY <1>s, <1>z, <2>3, <2>4
<1>3. CASE ReadFound(p)
  <2>1. Fits(p) /\ Itemsize(p) # 0 /\ ~OutOfArray(data, p)
    BY <1>3, <1>m, <1>t, DataTyped, ShapedPlaces DEF ReadFound
  <2>2. /\ size' = size /\ wild' = (wild \/ WildFind(data, p)) /\ HasQuantum(data, p)
        /\ UNCHANGED <<data, geo, pos>>
    BY <1>3, <2>1 DEF ReadFound, Finds, device
  <2>3. Fits(p)' /\ HasQuantum(data, p)' /\ pc'[p] = "read_copy"
    BY <1>3, <1>t, <1>k, <2>1, <2>2, PlaceKept DEF ReadFound, Goto, Fits, Noted
  <2> QED BY <1>k, <1>s, <1>t, <1>z, <2>1, <2>2, <2>3 DEF WildFind
<1>4. CASE ReadCopy(p)
  <2>1. /\ pc[p] = "read_copy" /\ size' = size /\ pc'[p] = "read_out"
        /\ wild' = (wild \/ WildCopy(p, ReadCount(p)))
    BY <1>4, <1>t DEF ReadCopy, Goto, device
  <2>2. ReadCount(p) \in Nat /\ want[p] \in Nat
    BY <1>t, <2>1, CopyCounts DEF Types
  <2>3. ~WildCopy(p, ReadCount(p))
    BY <1>c, <2>1, <2>2 DEF ReadCount
  <2> QED BY <1>s, <1>t, <1>z, <2>1, <2>3
<1>5. CASE WriteFind(p)
  <2>1. PICK d \in Arrays(p) :
          /\ wild' = (wild \/ WildFind(d, p))
          /\ OutOfArray(d, p) \/ HasQuantum(d, p) \/ geo[p].quantum > 0
          /\ data' = WithQuantum(d, p)
    BY <1>5 DEF WriteFind, Finds
  <2>2. Fits(p) /\ Itemsize(p) # 0
    BY <1>5, <1>m DEF WriteFind
  <2>3. Extends(d, p) /\ HasArray(d, p) /\ ~OutOfArray(d, p)
    BY <1>g, <2>2
  <2>4. HasQuantum(WithQuantum(d, p), p)
    BY <1>t, <1>k, <2>1, <2>2, <2>3, QuantumExtends
  <2>6. HasQuantum(data', p)
    BY <2>1, <2>4
  <2>7. size' = size /\ pc'[p] = "write_copy" /\ geo' = geo /\ pos' = pos
    BY <1>5, <1>t DEF WriteFind, Goto, locals
  <2>8. HasQuantum(data, p)'
    BY <2>6, <2>7 DEF HasQuantum, HasArray, OutOfArray, Quantum, Array, Reaches, Item, SPos, Rest,
       Itemsize, Quot, Rem
  <2>9. ~wild' /\ Fits(p)'
    BY <1>k, <1>t, <2>1, <2>2, <2>3, <2>7 DEF WildFind, Fits, Noted
  <2> QED BY <1>s, <1>z, <2>7, <2>8, <2>9
<1>6. CASE WriteNoMemory(p)
  <2>1. PICK d \in Followed(p) \cup Arrays(p) : wild' = (wild \/ WildFind(d, p))
    BY <1>6 DEF WriteNoMemory, Finds
  <2>2. Fits(p) /\ Itemsize(p) # 0
    BY <1>6, <1>m DEF WriteNoMemory
  <2>3. ~wild'
    BY <1>k, <1>t, <1>f, <1>g, <2>1, <2>2 DEF WildFind
  <2>4. size' = size /\ pc'[p] = "idle"
    BY <1>6, <1>t DEF WriteNoMemory, Out, Goto
  <2> QED BY <1>s, <1>z, <2>3, <2>4
<1>7. ASSUME pc[p] = "write_copy"
      PROVE  /\ WriteCount(p) \in Nat
             /\ ~WildCopy(p, WriteCount(p)) /\ Backed(pos[p] + WriteCount(p))
  <2>1. WriteCount(p) \in Nat /\ Len(arg[p]) \in Nat
    BY <1>t, <1>7, CopyCounts
  <2> QED BY <1>c, <1>7, <2>1 DEF WriteCount
<1>8. CASE WriteCopy(p)
  <2>1. /\ pc[p] = "write_copy" /\ size' = size /\ pc'[p] = "write_size"
        /\ pos'[p] = pos[p] + WriteCount(p)
        /\ wild' = (wild \/ WildCopy(p, WriteCount(p)))
    BY <1>8, <1>t DEF WriteCopy, Goto
  <2>2. /\ pos[p] + WriteCount(p) \in Nat /\ pos[p] + WriteCount(p) = pos'[p]
        /\ Backed(pos[p] + WriteCount(p))
    BY <1>t, <1>7, <2>1
  <2>3. ASSUME NEW y \in Nat, y = pos'[p], Backed(y)
        PROVE  Backed(pos[p])'
    <3>1. Backed(y)'
      BY <1>k, <2>3
    <3> QED BY <2>3, <3>1 DEF Backed, Usable, Kept
  <2>4. Backed(pos[p])'
    BY <2>2, <2>3
  <2> QED BY <1>7, <1>s, <1>t, <1>z, <2>1, <2>4
<1>9. CASE WriteFault(p)
  <2>1. /\ pc[p] = "write_copy" /\ size' = size /\ pc'[p] = "idle"
        /\ wild' = (wild \/ WildCopy(p, WriteCount(p)))
    BY <1>9, <1>t DEF WriteFault, Out, Goto
  <2> QED BY <1>7, <1>s, <1>t, <1>z, <2>1
<1>10. CASE WriteSize(p)
  <2>1. /\ pc[p] = "write_size" /\ size' = Max2(size, pos[p]) /\ pc'[p] = "idle"
        /\ wild' = wild
    BY <1>10, <1>t DEF WriteSize, Out, Goto, heap
  <2>2. size' > 0 => Backed(size)'
    <3>1. CASE size' = size
      BY <1>s, <3>1
    <3>2. CASE size' # size
      <4>1. pos[p] = size' /\ pos[p] \in Nat /\ Backed(pos[p])
        BY <1>t, <2>1, <3>2 DEF Max2, ListInv
      <4>2. ASSUME NEW y \in Nat, y = size', Backed(y)
            PROVE  Backed(size)'
        <5>1. Backed(y)'
          BY <1>k, <4>2
        <5> QED BY <4>2, <5>1 DEF Backed, Usable, Kept
      <4> QED BY <4>1, <4>2
    <3> QED BY <3>1, <3>2
  <2> QED BY <1>t, <1>z, <2>1, <2>2
<1>11. ~Call(p) /\ ~OpenDown(p) /\ ~OpenInterrupted(p) /\ ~TrimFree(p) /\ ~TrimReset(p)
       /\ ~ReadDown(p) /\ ~ReadInterrupted(p) /\ ~WriteDown(p) /\ ~WriteInterrupted(p)
  BY DEF Accesses, Call, Goto, Down, Interrupted, OpenCall, OpenEmptying, Release, Llseek,
     ReadCall, WriteCall, IoctlQuantum, IoctlQset, IoctlReset, OpenDown, OpenInterrupted,
     TrimFree, TrimReset, ReadDown, ReadInterrupted, WriteDown, WriteInterrupted
<1> QED BY <1>1, <1>2, <1>3, <1>4, <1>5, <1>6, <1>8, <1>9, <1>10, <1>11 DEF Step

-----------------------------------------------------------------------------
\* Theorems about the list.

LEMMA ShapeInit ==
  ASSUME Init
  PROVE  ListInv
BY DEF Init, ListInv, Shaped

LEMMA ShapeNext ==
  ASSUME MemInv, ShapeInv, Guarded, [Next]_vars
  PROVE  ShapeInv'
<1>1. CASE UNCHANGED vars
  <2>1. UNCHANGED <<quantum, qset, size, data, freed, wild, misfit, pc, pos, geo>>
    BY <1>1 DEF vars, device, locals, heap
  <2>2. ASSUME ListInv
        PROVE  ListInv'
    <3>1. ~wild' /\ Shaped(data)' /\ (size' > 0 /\ ~freed' => Backed(size)')
      BY <2>1, <2>2 DEF ListInv, Shaped, Backed, Usable, Kept
    <3>2. ASSUME NEW q \in Procs, pc'[q] \in {"read_copy", "write_copy"}
          PROVE  Fits(q)' /\ HasQuantum(data, q)'
      BY <2>1, <2>2, <3>2, PlaceKept DEF ListInv, Fits, Noted
    <3>3. ASSUME NEW q \in Procs, pc'[q] = "write_size"
          PROVE  Backed(pos[q])'
      BY <2>1, <2>2, <3>3 DEF ListInv, Backed, Usable, Kept
    <3> QED BY <3>1, <3>2, <3>3 DEF ListInv
  <2> QED BY <2>1, <2>2 DEF ShapeInv
<1>2. ASSUME NEW p \in Procs, Call(p) \/ Step(p), ~misfit'
      PROVE  ListInv'
  <2>1. ListInv
    BY <1>2, MisfitStep DEF MemInv, ShapeInv
  <2>2. CASE pc[p] \notin Inside
    BY <1>2, <2>1, <2>2, ShapeQuiet
  <2>3. CASE pc[p] \in Accesses
    BY <1>2, <2>1, <2>3, ShapeAccess
  <2>4. CASE pc[p] \in Trimming
    <3>1. TrimFree(p) \/ TrimReset(p)
      BY <1>2, <2>4 DEF Trimming, Call, Step, Goto, Down, Out, Interrupted,
         OpenCall, OpenEmptying, Release, Llseek, ReadCall, WriteCall, IoctlQuantum, IoctlQset,
         IoctlReset, OpenDown, OpenInterrupted, ReadDown, ReadInterrupted,
         ReadEnd, ReadHole, Divide, ReadFound, ReadCopy, ReadFault, ReadOut, WriteDown,
         WriteInterrupted, WriteFind, WriteNoMemory, WriteCopy, WriteFault, WriteSize
    <3> QED BY <2>1, <3>1, ShapeTrim
  <2> QED BY <2>2, <2>3, <2>4 DEF Inside
<1> QED BY <1>1, <1>2 DEF Next, ShapeInv

(* The list is sound, and so is every place in it that a call has noted, until
   some call works by another geometry than the device's, or by a negative
   quantum: whatever the parameters are set to and whenever (main.c:297, 341),
   with writes of no bytes past the end among the calls (main.c:349-382). *)
THEOREM MemShapeInvariant ==
  ASSUME Guarded
  PROVE  Spec => [](MemInv /\ ShapeInv)
<1>1. Init => MemInv /\ ShapeInv
  BY MemInit, ShapeInit DEF ShapeInv
<1>2. MemInv /\ ShapeInv /\ [Next]_vars => (MemInv /\ ShapeInv)'
  BY MemNext, ShapeNext
<1> QED BY <1>1, <1>2, PTL DEF Spec

(* No access of a call leaves allocated memory before a call has worked by a
   wrong geometry: neither a freed list nor a place beyond an array's or a
   quantum's end is used (main.c:69-78, 317-324, 370-373). *)
THEOREM MemInBounds ==
  ASSUME Guarded
  PROVE  Spec => []InBounds
<1>1. ShapeInv => InBounds
  BY DEF ShapeInv, ListInv, InBounds
<1> QED BY <1>1, MemShapeInvariant, PTL

(* Until then every array and quantum has the length the device says, whatever
   allocations failed and wherever a write was interrupted (main.c:358-368). *)
THEOREM MemListShape ==
  ASSUME Guarded
  PROVE  Spec => []ListShape
<1>1. ShapeInv => ListShape
  BY DEF ShapeInv, ListInv, Shaped, ListShape
<1> QED BY <1>1, MemShapeInvariant, PTL

(* Until then the size never runs ahead of the data by more than the place that
   a write of no bytes prepared, however opens that empty the device and writes
   that fail are interleaved (main.c:364-382). *)
THEOREM MemSizeBacked ==
  ASSUME Guarded
  PROVE  Spec => []SizeBacked
<1>1. ShapeInv => SizeBacked
  BY DEF ShapeInv, ListInv, Backed, SizeBacked
<1> QED BY <1>1, MemShapeInvariant, PTL

(* No call ever works by a wrong geometry if nobody changes the parameters, or
   one process has the device, and no quantum is negative: the geometry that a
   call noted before it took the semaphore is then still the device's when the
   call uses it (main.c:297, 341). *)
THEOREM MemSteady ==
  ASSUME Guarded, Steady, Quanta \subseteq Nat
  PROVE  Spec => []~misfit
<1> DEFINE FitInv == GeometryInv /\ ~misfit
<1>1. Init => FitInv
  BY DEF Init, GeometryInv, InCall, Accesses
<1>2. MemInv /\ FitInv /\ [Next]_vars => FitInv'
  <2>1. SUFFICES ASSUME MemInv, FitInv, [Next]_vars PROVE FitInv'
    OBVIOUS
  <2>2. CASE UNCHANGED vars
    BY <2>1, <2>2 DEF GeometryInv, Noted, vars, params, device, locals, heap
  <2>3. ASSUME NEW p \in Procs, Call(p) \/ Step(p)
        PROVE  FitInv'
    <3>1. GeometryInv'
      BY <2>1, <2>3, GeometryStep
    <3>2. pc[p] \in {"read_find", "write_find"} => Fits(p)
      <4>1. quantum >= 0
        BY <2>1 DEF MemInv, Types, TypeOK
      <4> QED BY <2>1, <4>1 DEF GeometryInv, InCall, Accesses, Fits
    <3>3. \/ misfit' = misfit
          \/ misfit' = (misfit \/ ~Fits(p)) /\ pc[p] \in {"read_find", "write_find"}
      <4>1. CASE Call(p)
        BY <4>1 DEF Call, OpenCall, OpenEmptying, Release, Llseek, ReadCall, WriteCall,
                    IoctlQuantum, IoctlQset, IoctlReset, heap
      <4>2. CASE \/ ReadHole(p) \/ ReadFound(p) \/ WriteFind(p) \/ WriteNoMemory(p)
                 \/ Divide(p)
        BY <4>2 DEF ReadHole, ReadFound, WriteFind, WriteNoMemory, Divide, Finds, Goto, Out
      <4>3. CASE /\ Step(p) /\ ~ReadHole(p) /\ ~ReadFound(p) /\ ~WriteFind(p)
                 /\ ~WriteNoMemory(p) /\ ~Divide(p)
        BY <4>3 DEF Step, OpenDown, OpenInterrupted, Interrupted, TrimFree, TrimReset,
           ReadDown, ReadInterrupted, ReadEnd, ReadCopy, ReadFault, ReadOut, WriteDown,
           WriteInterrupted, WriteCopy, WriteFault, WriteSize, heap
      <4> QED BY <2>3, <4>1, <4>2, <4>3
    <3>4. ~misfit'
      BY <2>1, <3>2, <3>3
    <3> QED BY <3>1, <3>4
  <2> QED BY <2>1, <2>2, <2>3 DEF Next
<1> HIDE DEF FitInv
<1>3. Spec => []FitInv
  BY <1>1, <1>2, MemInvariant, PTL DEF Spec
<1>4. FitInv => ~misfit
  BY DEF FitInv
<1> QED BY <1>3, <1>4, PTL

(* So no access ever leaves allocated memory then. *)
THEOREM MemNeverWild ==
  ASSUME Guarded, Steady, Quanta \subseteq Nat
  PROVE  Spec => []~wild
<1>1. InBounds /\ ~misfit => ~wild
  BY DEF InBounds
<1> QED BY <1>1, MemInBounds, MemSteady, PTL
=============================================================================
