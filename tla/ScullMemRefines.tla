---------------------------- MODULE ScullMemRefines ----------------------------
(***************************************************************************)
(* ScullMem implements Store: for any processes, any parameters, payloads  *)
(* and offsets, the list of quantum sets is a sparse array of bytes, if    *)
(* one process at a time works on it (Guarded of ScullMemProofs), until a  *)
(* call works by another geometry than the device's (misfit).              *)
(***************************************************************************)
EXTENDS ScullMemProofs

(* What stands for the variables of Store. *)
Held   == [x \in 0 .. (MaxPos - 1) |-> IF freed THEN Junk ELSE ByteOf(x)]
Extent == IF freed THEN 0 ELSE Max({pos[p] : p \in Finishing} \cup {size})
Taken  == [p \in Procs |-> IF pc[p] = "read_out" THEN arg[p] ELSE None]
Asks   == [p \in Procs |-> want[p] > 0]

Reading == {"read_down", "read_find", "read_copy", "read_out", "killed"}

(* A read() that has found its bytes stays below the size.  Nobody else asks. *)
ReadInv ==
  \A p \in Procs : /\ pc[p] = "read_copy" => pos[p] + want[p] <= size
                   /\ pc[p] \notin Reading => want[p] = 0

RefInv == MemInv /\ ShapeInv /\ ReadInv

(* Where a position lies by the device's geometry. *)
ItemOf(x)   == x \div (quantum * qset)
PlaceOf(x)  == (x % (quantum * qset)) \div quantum
OffsetOf(x) == (x % (quantum * qset)) % quantum

(* The byte at position x of the list d, if a quantum is there. *)
Has(d, x) ==
  /\ Usable
  /\ Len(d) > ItemOf(x)
  /\ d[ItemOf(x) + 1] # <<>>
  /\ d[ItemOf(x) + 1][PlaceOf(x) + 1] # <<>>

ByteIn(d, x) ==
  IF Has(d, x) THEN d[ItemOf(x) + 1][PlaceOf(x) + 1][OffsetOf(x) + 1] ELSE Junk

-----------------------------------------------------------------------------
\* The steps of Store.

LEMMA Stutters ==
  ASSUME UNCHANGED <<Held, Extent, pos, Taken, Asks>>
  PROVE  UNCHANGED Abstract!vars
BY DEF Abstract!vars, Held, Extent, Taken, Asks, Abstract!None, None

(* The device is emptied. *)
LEMMA Empties ==
  ASSUME Held' = [x \in 0 .. (MaxPos - 1) |-> Junk], Extent' = 0,
         UNCHANGED <<pos, Taken, Asks>>
  PROVE  Abstract!Next
<1>1. Abstract!Empty
  BY DEF Abstract!Empty, Held, Extent, Taken, Asks
<1> QED BY <1>1 DEF Abstract!Next

(* The file position moves, or stays. *)
LEMMA Seeks ==
  ASSUME NEW p \in Procs, pos' = [pos EXCEPT ![p] = pos'[p]],
         UNCHANGED <<Held, Extent, Taken, Asks>>
  PROVE  Abstract!Next
<1>1. Abstract!Seek(p)
  BY DEF Abstract!Seek, Held, Extent, Taken, Asks
<1> QED BY <1>1 DEF Abstract!Next

(* A read() asks for bytes, *)
LEMMA Asked ==
  ASSUME NEW p \in Procs, Asks' = [Asks EXCEPT ![p] = TRUE],
         UNCHANGED <<Held, Extent, pos, Taken>>
  PROVE  Abstract!Next
<1>1. Abstract!Ask(p)
  BY DEF Abstract!Ask, Held, Extent, Taken, Asks
<1> QED BY <1>1 DEF Abstract!Next

(* takes those before it, *)
LEMMA Reads ==
  ASSUME NEW p \in Procs, Taken[p] = None, NEW a, Taken' = [Taken EXCEPT ![p] = a], Asks[p],
         NEW k \in 1 .. (Extent - pos[p]), Len(a) = k,
         \A i \in 1 .. k : Held[pos[p] + i - 1] # Junk => a[i] = Held[pos[p] + i - 1],
         pos' = [pos EXCEPT ![p] = pos[p] + k], UNCHANGED <<Held, Extent, Asks>>
  PROVE  Abstract!Next
<1>1. Taken'[p] = a
  BY DEF Taken
<1>2. Abstract!Read(p)
  BY <1>1 DEF Abstract!Read, Abstract!Agrees, Abstract!None, None, Held, Extent, Taken, Asks
<1> QED BY <1>2 DEF Abstract!Next

(* or takes nothing, *)
LEMMA ReadsNothing ==
  ASSUME NEW p \in Procs, Taken[p] = None, Taken' = [Taken EXCEPT ![p] = <<>>],
         ~Asks[p] \/ pos[p] >= Extent \/ Held[pos[p]] = Junk,
         UNCHANGED <<Held, Extent, pos, Asks>>
  PROVE  Abstract!Next
<1>1. Taken'[p] = <<>>
  BY DEF Taken
<1>2. Abstract!Read(p)
  BY <1>1 DEF Abstract!Read, Abstract!None, None, Held, Extent, Taken, Asks
<1> QED BY <1>2 DEF Abstract!Next

(* and returns. *)
LEMMA Returns ==
  ASSUME NEW p \in Procs, Taken' = [Taken EXCEPT ![p] = None],
         Asks' = [Asks EXCEPT ![p] = FALSE], UNCHANGED <<Held, Extent, pos>>
  PROVE  Abstract!Next
<1>1. Abstract!Return(p)
  BY DEF Abstract!Return, Abstract!None, None, Held, Extent, Taken, Asks
<1> QED BY <1>1 DEF Abstract!Next

(* A write() stores a part of its bytes, *)
LEMMA Writes ==
  ASSUME NEW p \in Procs, NEW n \in 0 .. MaxPos, NEW d \in [1 .. n -> Byte], Len(d) = n,
         NEW k \in IF d = <<>> THEN {0} ELSE 1 .. n,
         pos' = [pos EXCEPT ![p] = pos[p] + k],
         Held' = [x \in DOMAIN Held |->
                    IF x \in pos[p] .. (pos[p] + k - 1) THEN d[x - pos[p] + 1] ELSE Held[x]],
         Extent' = Max2(Extent, pos'[p]), UNCHANGED <<Taken, Asks>>
  PROVE  Abstract!Next
<1>1. Abstract!Write(p, d)
  BY DEF Abstract!Write, Abstract!Larger, Max2, Held, Extent, Taken, Asks
<1> QED BY <1>1 DEF Abstract!Next

(* or fails part way. *)
LEMMA Spoils ==
  ASSUME NEW p \in Procs, NEW n \in 0 .. MaxPos, NEW d \in [1 .. n -> Byte], Len(d) = n,
         \A x \in DOMAIN Held :
           IF x \in pos[p] .. (pos[p] + n - 1)
             THEN Held'[x] \in {Held[x], d[x - pos[p] + 1], Junk}
             ELSE Held'[x] = Held[x],
         UNCHANGED <<Extent, pos, Taken, Asks>>
  PROVE  Abstract!Next
<1>1. Held' = [x \in DOMAIN Held |-> Held'[x]]
  BY DEF Held
<1>2. Abstract!Spoil(p, d)
  BY <1>1 DEF Abstract!Spoil, Held, Extent, Taken, Asks
<1> QED BY <1>2 DEF Abstract!Next

-----------------------------------------------------------------------------
\* Positions.

(* A position is an item, a place in its array and an offset in the quantum. *)
LEMMA Spot ==
  ASSUME Types, Usable, NEW x \in Nat
  PROVE  /\ quantum \in Nat \ {0} /\ qset \in Nat \ {0}
         /\ ItemOf(x) \in Nat /\ PlaceOf(x) \in 0 .. qset - 1 /\ OffsetOf(x) \in 0 .. quantum - 1
<1>1. quantum \in Nat \ {0} /\ qset \in Nat \ {0}
  BY MemAssumption DEF Types, TypeOK, Usable
<1> QED BY <1>1, Location, Zenon DEF ItemOf, PlaceOf, OffsetOf

LEMMA SpotSum ==
  ASSUME Types, Usable, NEW x \in Nat
  PROVE  x = (quantum * qset) * ItemOf(x) + (quantum * PlaceOf(x) + OffsetOf(x))
<1>1. quantum \in Nat \ {0} /\ qset \in Nat \ {0}
  BY Spot
<1> DEFINE n == quantum * qset
           r == x % n
<1>2. n \in Nat \ {0} /\ r \in 0 .. n - 1
  BY <1>1, Location, Zenon
<1> HIDE DEF n
<1>3. x = n * (x \div n) + r
  BY <1>2, Division
<1> HIDE DEF r
<1>4. r = quantum * (r \div quantum) + (r % quantum)
  BY <1>1, <1>2, r \in Nat, Division
<1>5. ItemOf(x) = x \div n /\ PlaceOf(x) = r \div quantum /\ OffsetOf(x) = r % quantum
  BY Zenon DEF ItemOf, PlaceOf, OffsetOf, n, r
<1>6. x = n * (x \div n) + (quantum * (r \div quantum) + (r % quantum))
  BY <1>3, <1>4, Zenon
<1> QED BY <1>5, <1>6, Zenon DEF n

LEMMA Successor ==
  /\ \A a \in Nat : a + 1 \in Nat \ {0}
  /\ \A l \in Nat \ {0} : \A a \in 0 .. l - 1 : a + 1 \in 1 .. l
  /\ \A l, a \in Nat : l > a => a + 1 \in 1 .. l
OBVIOUS

(* A run of l positions from y is one of l offsets from that of y. *)
LEMMA SameRun ==
  ASSUME NEW x \in Nat, NEW y \in Nat, NEW a \in Nat, NEW b \in Nat, NEW l \in Nat,
         x - y = a - b
  PROVE  /\ (a + 1) - b = x - y + 1
         /\ a + 1 \in b + 1 .. b + l <=> x \in y .. (y + l - 1)
OBVIOUS

LEMMA RunBounded ==
  ASSUME NEW q \in Nat, NEW x \in Nat, NEW y \in Nat, NEW b \in Nat, NEW l \in Nat,
         x \in y .. (y + l - 1), b + l <= q
  PROVE  x - y \in Nat /\ b + (x - y) < q /\ y + (x - y) = x
OBVIOUS

(* Positions in one quantum are as far apart as their offsets. *)
LEMMA Apart ==
  ASSUME Types, Usable, NEW x \in Nat, NEW y \in Nat,
         ItemOf(x) = ItemOf(y), PlaceOf(x) = PlaceOf(y)
  PROVE  y - x = OffsetOf(y) - OffsetOf(x)
<1> DEFINE m == (quantum * qset) * ItemOf(x)
           n == quantum * PlaceOf(x)
<1>1. /\ x = m + (n + OffsetOf(x)) /\ y = m + (n + OffsetOf(y))
  BY SpotSum, Zenon
<1>2. m \in Nat /\ n \in Nat /\ OffsetOf(x) \in Nat /\ OffsetOf(y) \in Nat
  BY Spot
<1> HIDE DEF m, n
<1> QED BY <1>1, <1>2

(* The rest of a quantum lies in it. *)
LEMMA Ahead ==
  ASSUME Types, Usable, NEW x \in Nat, NEW k \in Nat, OffsetOf(x) + k < quantum
  PROVE  /\ ItemOf(x + k) = ItemOf(x) /\ PlaceOf(x + k) = PlaceOf(x)
         /\ OffsetOf(x + k) = OffsetOf(x) + k
<1>1. quantum \in Nat \ {0} /\ qset \in Nat \ {0} /\ x + k \in Nat
  BY Spot
<1>2. ASSUME NEW q \in Nat \ {0}, NEW s \in Nat \ {0}, ((x % (q * s)) % q) + k < q
      PROVE  /\ (x + k) \div (q * s) = x \div (q * s)
             /\ ((x + k) % (q * s)) \div q = (x % (q * s)) \div q
  BY <1>2, SameQuantum, Zenon
<1>3. ItemOf(x + k) = ItemOf(x) /\ PlaceOf(x + k) = PlaceOf(x)
  BY <1>1, <1>2, Zenon DEF ItemOf, PlaceOf, OffsetOf
<1>4. (x + k) - x = OffsetOf(x + k) - OffsetOf(x)
  BY <1>1, <1>3, Apart
<1>5. OffsetOf(x) \in Nat /\ OffsetOf(x + k) \in Nat
  BY <1>1, Spot
<1> QED BY <1>3, <1>4, <1>5

(* A call that noted the device's geometry works at its file position. *)
LEMMA Here ==
  ASSUME Types, NEW p \in Procs, Fits(p), Usable
  PROVE  /\ pos[p] \in Nat /\ geo[p] \in Geometry /\ Itemsize(p) # 0
         /\ geo[p].quantum = quantum /\ geo[p].qset = qset
         /\ Item(p) = ItemOf(pos[p]) /\ SPos(p) = PlaceOf(pos[p]) /\ QPos(p) = OffsetOf(pos[p])
         /\ Item(p) \in Nat
<1>1. geo[p] \in Geometry
  BY DEF Types, TypeOK, Fits, Noted, Geometry
<1> QED BY <1>1, UsablePlaces DEF ItemOf, PlaceOf, OffsetOf

-----------------------------------------------------------------------------
\* Bytes.

LEMMA ByteHere ==
  ASSUME NEW x
  PROVE  ByteOf(x) = ByteIn(data, x)
BY Zenon DEF ByteOf, ByteIn, Has, Kept, ItemOf, PlaceOf, OffsetOf

(* Without a usable geometry there is none. *)
LEMMA NoBytes ==
  ASSUME ~Usable, NEW d, NEW x
  PROVE  ByteIn(d, x) = Junk
BY Zenon DEF ByteIn, Has

(* A quantum is found where a byte lies. *)
LEMMA FoundHere ==
  ASSUME Types, NEW p \in Procs, Fits(p), Usable, NEW d \in Lists, Shaped(d)
  PROVE  /\ HasQuantum(d, p) <=> Has(d, pos[p])
         /\ Has(d, pos[p]) => Quantum(d, p) = d[ItemOf(pos[p]) + 1][PlaceOf(pos[p]) + 1]
<1>1. Item(p) = ItemOf(pos[p]) /\ SPos(p) = PlaceOf(pos[p]) /\ Item(p) >= 0
  BY Here
<1>2. ~OutOfArray(d, p)
  BY Here, ShapedPlaces
<1> QED BY <1>1, <1>2, Zenon DEF HasQuantum, HasArray, Reaches, Quantum, Array, Has

(* scull_follow() adds no byte, *)
LEMMA FollowedBytes ==
  ASSUME Types, Usable, NEW p \in Procs, Item(p) \in Int, NEW d \in Followed(p), NEW x \in Nat
  PROVE  ByteIn(d, x) = ByteIn(data, x)
<1>1. /\ d \in Lists /\ Len(d) >= Len(data) /\ Len(data) \in Nat /\ Len(d) \in Nat
      /\ \A i \in 1 .. Len(d) : d[i] = IF i <= Len(data) THEN data[i] ELSE <<>>
  BY Follows, ListTyped
<1> DEFINE m == ItemOf(x)
<1>2. m \in Nat
  BY Spot
<1>3. CASE Len(data) > m
  <2> HIDE DEF m
  <2>1. Len(d) > m /\ d[m + 1] = data[m + 1]
    BY <1>1, <1>2, <1>3
  <2> QED BY <1>3, <2>1, Zenon DEF ByteIn, Has, m
<1>4. CASE ~(Len(data) > m)
  <2>1. ~Has(data, x)
    BY <1>4, Zenon DEF Has
  <2> HIDE DEF m
  <2>2. Len(d) > m => d[m + 1] = <<>>
    BY <1>1, <1>2, <1>4
  <2>3. ~Has(d, x)
    BY <2>2, Zenon DEF Has, m
  <2> QED BY <2>1, <2>3, Zenon DEF ByteIn
<1> QED BY <1>3, <1>4

(* nor does a new array, *)
LEMMA ArrayBytes ==
  ASSUME Types, Usable, NEW p \in Procs, Fits(p), NEW d \in Lists, Reaches(d, p), NEW x \in Nat
  PROVE  ByteIn(WithArray(d, p), x) = ByteIn(d, x)
<1> DEFINE e == WithArray(d, p)
           i == Item(p) + 1
           m == ItemOf(x) + 1
           n == PlaceOf(x) + 1
<1>1. /\ Item(p) \in Nat /\ geo[p].qset = qset /\ qset \in Nat \ {0}
      /\ m \in Nat \ {0} /\ n \in 1 .. qset /\ ItemOf(x) \in Nat /\ m = ItemOf(x) + 1
  BY Spot, Here
<1>2. /\ e \in Lists /\ Len(e) = Len(d) /\ i \in 1 .. Len(d)
      /\ \A k \in 1 .. Len(d) : k # i => e[k] = d[k]
      /\ e[i] = IF d[i] # <<>> THEN d[i] ELSE Nulls(qset)
  BY <1>1, ArrayAdded
<1>3. \A k \in 1 .. qset : Nulls(qset)[k] = <<>>
  BY <1>1, NullsSeq
<1>4. Len(d) \in Nat /\ Len(e) \in Nat
  BY <1>2, ListTyped
<1> HIDE DEF e, i, m, n
<1>5. CASE e[m] = d[m]
  BY <1>2, <1>5, Zenon DEF ByteIn, Has, m, n, e
<1>6. CASE e[m] # d[m]
  <2>1. CASE m \in 1 .. Len(d)
    <3>1. m = i /\ d[m] = <<>> /\ e[m] = Nulls(qset)
      BY <1>2, <1>6, <2>1
    <3>2. e[m][n] = <<>>
      BY <1>1, <1>3, <3>1
    <3>3. ~Has(d, x) /\ ~Has(e, x)
      BY <3>1, <3>2, Zenon DEF Has, m, n
    <3> QED BY <3>3, Zenon DEF ByteIn, e
  <2>2. CASE ~(m \in 1 .. Len(d))
    <3>1. ~(Len(d) > ItemOf(x)) /\ ~(Len(e) > ItemOf(x))
      BY <1>1, <1>2, <1>4, <2>2
    <3>2. ~Has(d, x) /\ ~Has(e, x)
      BY <3>1, Zenon DEF Has
    <3> QED BY <3>2, Zenon DEF ByteIn, e
  <2> QED BY <2>1, <2>2
<1> QED BY <1>5, <1>6

(* nor the junk in a new quantum. *)
LEMMA QuantumBytes ==
  ASSUME Types, Usable, NEW p \in Procs, Fits(p), NEW d \in Lists, Shaped(d), HasArray(d, p),
         NEW x \in Nat
  PROVE  ByteIn(WithQuantum(d, p), x) = ByteIn(d, x)
<1> DEFINE i == Item(p) + 1
           j == SPos(p) + 1
           v == [y \in 1 .. quantum |-> Junk]
           e == WithQuantum(d, p)
           m == ItemOf(x) + 1
           n == PlaceOf(x) + 1
           o == OffsetOf(x) + 1
<1>1. /\ Item(p) \in Nat /\ geo[p].quantum = quantum /\ SPos(p) \in Nat
      /\ m \in Nat \ {0} /\ n \in 1 .. qset /\ o \in 1 .. quantum
      /\ quantum \in Nat /\ ItemOf(x) \in Nat /\ m = ItemOf(x) + 1
  BY Spot, Here
<1>2. ~OutOfArray(d, p) /\ SPos(p) < Len(d[i])
  <2>1. ~OutOfArray(d, p)
    BY Here, ShapedPlaces
  <2>2. i \in 1 .. Len(d)
    BY <1>1, ListTyped DEF HasArray, Reaches
  <2>3. Len(d[i]) \in Nat
    BY <2>2, ListTyped
  <2> QED BY <1>1, <2>1, <2>3 DEF OutOfArray, Array
<1>3. CASE HasQuantum(d, p)
  BY <1>3, Zenon DEF WithQuantum
<1>4. CASE ~HasQuantum(d, p)
  <2>1. e = [d EXCEPT ![i] = [d[i] EXCEPT ![j] = v]]
    BY <1>1, <1>2, <1>4 DEF WithQuantum
  <2>2. i \in 1 .. Len(d) /\ Len(d) \in Nat /\ d[i] # <<>>
    BY <1>1, ListTyped DEF HasArray, Reaches, Array
  <2>3. j \in 1 .. Len(d[i]) /\ Len(d[i]) \in Nat
    <3>1. Len(d[i]) \in Nat
      BY <2>2, ListTyped
    <3>2. Len(d[i]) > SPos(p)
      BY <1>1, <1>2, <3>1
    <3> QED BY <1>1, <3>1, <3>2, Successor, Zenon
  <2>4. d[i][j] = <<>>
    BY <1>2, <1>4 DEF HasQuantum, Quantum, Array
  <2>5. v \in Seq(Bytes) /\ Len(v) = quantum
    BY <1>1 DEF Bytes
  <2>6. v[o] = Junk
    BY <1>1
  <2> HIDE DEF i, j, v, e, m, n, o
  <2>7. /\ Len(e) = Len(d)
        /\ \A k \in 1 .. Len(d) : k # i => e[k] = d[k]
        /\ Len(e[i]) = Len(d[i])
        /\ \A k \in 1 .. Len(d[i]) : e[i][k] = IF k = j THEN v ELSE d[i][k]
    <3>1. d \in Seq(Seq(Seq(Bytes)))
      BY DEF Lists
    <3> QED BY <2>1, <2>2, <2>3, <2>5, <3>1, Replaced, SMTT(30)
  <2>8. Len(d[i]) = qset
    BY <2>2 DEF Shaped
  <2>9. e[i] # <<>>
    BY <2>3, <2>7, EmptySeq
  <2>10. CASE ~(Len(d) > ItemOf(x))
    BY <2>7, <2>10, Zenon DEF ByteIn, Has, e
  <2>11. CASE Len(d) > ItemOf(x) /\ m # i
    <3>1. m \in 1 .. Len(d)
      BY <1>1, <2>2, <2>11
    <3>2. e[m] = d[m]
      BY <2>7, <2>11, <3>1
    <3> QED BY <2>7, <3>2, Zenon DEF ByteIn, Has, m, e
  <2>12. CASE Len(d) > ItemOf(x) /\ m = i /\ n # j
    <3>1. e[m][n] = d[m][n]
      BY <1>1, <2>7, <2>8, <2>12
    <3> QED BY <2>2, <2>7, <2>9, <2>12, <3>1, Zenon DEF ByteIn, Has, m, n, e
  <2>13. CASE m = i /\ n = j
    <3>1. e[m][n][o] = Junk
      BY <2>3, <2>6, <2>7, <2>13
    <3>2. ~Has(d, x)
      BY <2>4, <2>13, Zenon DEF Has, m, n
    <3>3. ByteIn(e, x) = Junk
      BY <3>1, Zenon DEF ByteIn, m, n, o
    <3> QED BY <3>2, <3>3, Zenon DEF ByteIn, e
  <2> QED BY <2>10, <2>11, <2>12, <2>13
<1> QED BY <1>3, <1>4

(* A copy to the quantum puts the bytes at the file position and no others. *)
LEMMA StoredAt ==
  ASSUME Types, Usable, NEW p \in Procs, Fits(p), Shaped(data), HasQuantum(data, p), stale = {},
         NEW b \in Seq(Bytes), QPos(p) + Len(b) <= quantum, NEW x \in Nat
  PROVE  ByteIn(Stored(p, b), x) =
           IF x \in pos[p] .. (pos[p] + Len(b) - 1) THEN b[x - pos[p] + 1] ELSE ByteIn(data, x)
<1> DEFINE y == pos[p]
           i == Item(p) + 1
           j == SPos(p) + 1
           w == data[i][j]
           v == [l \in DOMAIN w |-> IF l \in QPos(p) + 1 .. QPos(p) + Len(b)
                                    THEN b[l - QPos(p)] ELSE w[l]]
           e == Stored(p, b)
           m == ItemOf(x) + 1
           n == PlaceOf(x) + 1
           o == OffsetOf(x) + 1
<1> HIDE DEF w, v, e
<1>h. /\ y \in Nat
      /\ Item(p) = ItemOf(y) /\ SPos(p) = PlaceOf(y) /\ QPos(p) = OffsetOf(y)
  BY Here
<1>x. /\ ItemOf(x) \in Nat /\ PlaceOf(x) \in 0 .. qset - 1 /\ OffsetOf(x) \in 0 .. quantum - 1
      /\ quantum \in Nat \ {0} /\ qset \in Nat \ {0}
  BY Spot
<1>y. ItemOf(y) \in Nat /\ PlaceOf(y) \in 0 .. qset - 1 /\ OffsetOf(y) \in 0 .. quantum - 1
  BY <1>h, Spot
<1>p. /\ Item(p) \in Nat /\ SPos(p) \in 0 .. qset - 1 /\ QPos(p) \in 0 .. quantum - 1
      /\ i = ItemOf(y) + 1 /\ j = PlaceOf(y) + 1
  BY <1>h, <1>y
<1>d. m = ItemOf(x) + 1 /\ n = PlaceOf(x) + 1 /\ o = OffsetOf(x) + 1
  OBVIOUS
<1>1. /\ m \in Nat \ {0} /\ n \in 1 .. qset /\ o \in 1 .. quantum
      /\ i \in Nat \ {0} /\ j \in 1 .. qset
  BY <1>d, <1>x, <1>p, <1>y, Successor, Zenon
<1>2. Len(b) \in Nat
  BY LenProperties
<1>3. /\ data \in Lists /\ Len(data) \in Nat /\ i \in 1 .. Len(data) /\ data[i] # <<>>
      /\ Has(data, y)
  <2>1. data \in Lists /\ Len(data) \in Nat
    BY DataTyped, ListTyped
  <2>2. Has(data, y)
    BY <2>1, FoundHere
  <2> QED BY <1>p, <2>1, <2>2 DEF HasQuantum, HasArray, Reaches, Array
<1>4. Len(data[i]) = qset /\ j \in 1 .. Len(data[i]) /\ w # <<>> /\ Len(w) = quantum
  <2>1. w # <<>>
    BY DEF HasQuantum, Quantum, Array, w
  <2>2. Len(data[i]) = qset
    BY <1>3 DEF Shaped
  <2>3. j \in 1 .. qset
    BY <1>1
  <2>4. Len(w) = quantum
    BY <1>3, <2>1, <2>3 DEF Shaped, w
  <2> QED BY <2>1, <2>2, <2>3, <2>4
<1>5. w \in Seq(Bytes) /\ DOMAIN w = 1 .. quantum
  <2>1. w \in Seq(Bytes)
    BY <1>3, <1>4, ListTyped DEF w
  <2> QED BY <1>4, <2>1, LenProperties
<1>6. e = [data EXCEPT ![i] = [data[i] EXCEPT ![j] = v]]
  BY <1>3, <1>4 DEF Stored, e, v, w
<1>7. v \in Seq(Bytes) /\ Len(v) = quantum
      /\ \A l \in 1 .. quantum : v[l] = IF l \in QPos(p) + 1 .. QPos(p) + Len(b)
                                        THEN b[l - QPos(p)] ELSE w[l]
  <2>1. ASSUME NEW l \in 1 .. quantum
        PROVE  (IF l \in QPos(p) + 1 .. QPos(p) + Len(b) THEN b[l - QPos(p)] ELSE w[l]) \in Bytes
    <3>1. CASE l \in QPos(p) + 1 .. QPos(p) + Len(b)
      <4>1. l - QPos(p) \in 1 .. Len(b)
        BY <1>p, <1>2, <3>1
      <4> QED BY <3>1, <4>1, ElementOfSeq
    <3>2. CASE ~(l \in QPos(p) + 1 .. QPos(p) + Len(b))
      BY <1>4, <1>5, <3>2, ElementOfSeq
    <3> QED BY <3>1, <3>2
  <2> QED BY <1>x, <1>5, <2>1 DEF v
<1> HIDE DEF i, j, m, n, o, y
<1>8. /\ Len(e) = Len(data)
      /\ \A k \in 1 .. Len(data) : k # i => e[k] = data[k]
      /\ Len(e[i]) = Len(data[i])
      /\ \A k \in 1 .. Len(data[i]) : e[i][k] = IF k = j THEN v ELSE data[i][k]
  <2>1. data \in Seq(Seq(Seq(Bytes)))
    BY <1>3 DEF Lists
  <2> QED BY <1>3, <1>4, <1>6, <1>7, <2>1, Replaced, SMTT(30)
<1>9. e[i] # <<>>
  BY <1>1, <1>4, <1>8, EmptySeq
<1>10. CASE m = i /\ n = j
  <2>1. ItemOf(y) = ItemOf(x) /\ PlaceOf(y) = PlaceOf(x)
    <3>1. ItemOf(x) + 1 = ItemOf(y) + 1 /\ PlaceOf(x) + 1 = PlaceOf(y) + 1
      BY <1>d, <1>p, <1>10
    <3> QED BY <1>x, <1>y, <3>1
  <2>2. x - y = OffsetOf(x) - QPos(p)
    BY <1>h, <2>1, Apart
  <2>3. e[m][n] = v /\ data[m][n] = w
    BY <1>4, <1>8, <1>10 DEF w
  <2>4. v[o] = IF o \in QPos(p) + 1 .. QPos(p) + Len(b) THEN b[o - QPos(p)] ELSE w[o]
    BY <1>1, <1>7
  <2>6. o - QPos(p) = x - y + 1
        /\ (o \in QPos(p) + 1 .. QPos(p) + Len(b) <=> x \in y .. (y + Len(b) - 1))
    <3>1. OffsetOf(x) \in Nat /\ OffsetOf(y) \in Nat /\ Len(b) \in Nat
      BY <1>2, <1>x, <1>y
    <3>2. x \in Nat /\ y \in Nat /\ x - y = OffsetOf(x) - OffsetOf(y)
      BY <1>h, <2>2, Zenon
    <3>3. /\ (OffsetOf(x) + 1) - OffsetOf(y) = x - y + 1
          /\ OffsetOf(x) + 1 \in OffsetOf(y) + 1 .. OffsetOf(y) + Len(b)
               <=> x \in y .. (y + Len(b) - 1)
      BY <3>1, <3>2, SameRun, Zenon
    <3> QED BY <1>d, <1>h, <3>3, Zenon
  <2>7. v # <<>>
    BY <1>1, <1>7, EmptySeq
  <2>8. Has(data, x) /\ Has(e, x)
    <3>1. Has(data, x)
      BY <1>3, <2>1, Zenon DEF Has
    <3> QED BY <1>8, <1>9, <1>10, <2>3, <2>7, <3>1, Zenon DEF Has, m, n
  <2>9. ByteIn(e, x) = v[o] /\ ByteIn(data, x) = w[o]
    BY <2>3, <2>8, Zenon DEF ByteIn, m, n, o
  <2> QED BY <2>4, <2>6, <2>9, Zenon DEF e, y
<1>11. CASE ~(m = i /\ n = j)
  <2>1. x \notin y .. (y + Len(b) - 1)
    <3>1. SUFFICES ASSUME x \in y .. (y + Len(b) - 1) PROVE FALSE
      OBVIOUS
    <3>2. OffsetOf(y) + Len(b) <= quantum /\ OffsetOf(y) \in Nat /\ Len(b) \in Nat
      BY <1>h, <1>y, <1>2
    <3>3. x - y \in Nat /\ OffsetOf(y) + (x - y) < quantum /\ y + (x - y) = x
      BY <1>h, <1>x, <3>1, <3>2, RunBounded
    <3>4. ItemOf(y + (x - y)) = ItemOf(y) /\ PlaceOf(y + (x - y)) = PlaceOf(y)
      BY <1>h, <3>3, Ahead, Zenon
    <3>5. ItemOf(x) = ItemOf(y) /\ PlaceOf(x) = PlaceOf(y)
      BY <3>3, <3>4, Zenon
    <3>6. m = i /\ n = j
      BY <1>d, <1>p, <3>5, Zenon
    <3> QED BY <1>11, <3>6
  <2>2. ByteIn(e, x) = ByteIn(data, x)
    <3>1. CASE ~(Len(data) > ItemOf(x))
      BY <1>8, <3>1, Zenon DEF ByteIn, Has
    <3>2. CASE Len(data) > ItemOf(x) /\ m # i
      <4>1. e[m] = data[m]
        BY <1>3, <1>8, <1>d, <1>x, <3>2, Successor, Zenon
      <4> QED BY <1>8, <4>1, Zenon DEF ByteIn, Has, m
    <3>3. CASE m = i /\ n # j
      <4>1. e[m][n] = data[m][n]
        BY <1>1, <1>4, <1>8, <3>3
      <4> QED BY <1>3, <1>8, <1>9, <3>3, <4>1, Zenon DEF ByteIn, Has, m, n
    <3> QED BY <1>11, <3>1, <3>2, <3>3
  <2> QED BY <2>1, <2>2, Zenon DEF e, y
<1> QED BY <1>10, <1>11

-----------------------------------------------------------------------------
\* The size.

LEMMA Greatest ==
  ASSUME NEW a \in Int, NEW b \in Int
  PROVE  Max({a}) = a /\ Max({a, b}) = Max2(a, b)
<1>1. Max({a}) = a
  BY DEF Max
<1>2. Max2(a, b) \in {a, b} /\ \A y \in {a, b} : Max2(a, b) >= y
  BY DEF Max2
<1>3. \A x \in {a, b} : (\A y \in {a, b} : x >= y) => x = Max2(a, b)
  BY DEF Max2
<1> QED BY <1>1, <1>2, <1>3 DEF Max

LEMMA ExtentIs ==
  ASSUME size \in Int
  PROVE  /\ Finishing = {} => Extent = IF freed THEN 0 ELSE size
         /\ \A p \in Procs : Finishing = {p} /\ pos[p] \in Int /\ ~freed =>
              Extent = Max2(size, pos[p])
<1>1. ASSUME Finishing = {}
      PROVE  Extent = IF freed THEN 0 ELSE size
  <2>1. {pos[p] : p \in Finishing} \cup {size} = {size}
    BY <1>1
  <2> QED BY <2>1, Greatest DEF Extent
<1>2. ASSUME NEW p \in Procs, Finishing = {p}, pos[p] \in Int, ~freed
      PROVE  Extent = Max2(size, pos[p])
  <2>1. {pos[q] : q \in Finishing} \cup {size} = {size, pos[p]}
    BY <1>2
  <2> QED BY <1>2, <2>1, Greatest DEF Extent
<1> QED BY <1>1, <1>2

-----------------------------------------------------------------------------
\* What a read() has found stays below the size.

LEMMA ReadStep ==
  ASSUME MemInv, ReadInv, Guarded, NEW p \in Procs, Call(p) \/ Step(p)
  PROVE  ReadInv'
<1>t. /\ Types /\ SemInv /\ pc \in [Procs -> PCs] /\ want \in [Procs -> Nat]
      /\ pos \in [Procs -> 0 .. MaxPos] /\ size \in 0 .. MaxPos /\ MaxPos \in Nat
  BY MemAssumption DEF MemInv, Types, TypeOK
<1>1. ASSUME NEW q \in Procs \ {p}, pc'[q] = "read_copy"
      PROVE  (pos[q] + want[q] <= size)'
  <2>1. Own(q)
    BY <1>t, OthersOwn
  <2>2. pc[p] \notin Inside
    BY <1>t, <1>1, <2>1, Exclusive DEF Own, Inside, Accesses
  <2>3. size' = size
    BY <2>2, DeviceKept
  <2> QED BY <1>1, <2>1, <2>3 DEF ReadInv, Own
<1>2. ASSUME pc'[p] = "read_copy"
      PROVE  (pos[p] + want[p] <= size)'
  <2>1. ReadFound(p) \/ UNCHANGED pc
    BY <1>t, <1>2 DEF Call, Step, Goto, Down, Out, Interrupted,
       OpenCall, OpenEmptying, Release, Llseek, ReadCall, WriteCall, IoctlQuantum, IoctlQset,
       IoctlReset, OpenDown, OpenInterrupted, TrimFree, TrimReset, ReadDown, ReadInterrupted,
       ReadEnd, ReadHole, Divide, Finds, ReadCopy, ReadFault, ReadOut, WriteDown,
       WriteInterrupted, WriteFind, WriteNoMemory, WriteCopy, WriteFault, WriteSize
  <2>2. CASE ReadFound(p)
    <3>1. /\ pos' = pos /\ size' = size /\ pos[p] < size
          /\ want'[p] = Min2(want[p], size - pos[p])
      BY <1>t, <2>2 DEF ReadFound, device
    <3> QED BY <1>t, <3>1 DEF Min2
  <2>3. CASE UNCHANGED pc
    <3>1. /\ ~Step(p)
      BY <1>t, <1>2, <2>3 DEF Step, Goto, Down, Out, Interrupted,
         OpenDown, OpenInterrupted, TrimFree, TrimReset, ReadDown, ReadInterrupted,
         ReadEnd, ReadHole, Divide, ReadFound, ReadCopy, ReadFault, ReadOut, WriteDown,
         WriteInterrupted, WriteFind, WriteNoMemory, WriteCopy, WriteFault, WriteSize
    <3>2. ~Call(p)
      BY <1>t, <1>2, <2>3 DEF Call, Goto, OpenCall, OpenEmptying, Release, Llseek, ReadCall,
         WriteCall, IoctlQuantum, IoctlQset, IoctlReset
    <3> QED BY <3>1, <3>2
  <2> QED BY <2>1, <2>2, <2>3
<1>3. ASSUME NEW q \in Procs \ {p}, pc'[q] \notin Reading
      PROVE  want'[q] = 0
  <2>1. Own(q)
    BY <1>t, OthersOwn
  <2> QED BY <1>3, <2>1 DEF ReadInv, Own
<1>4. ASSUME pc'[p] \notin Reading
      PROVE  want'[p] = 0
  <2>1. pc[p] \notin Reading => want[p] = 0
    BY DEF ReadInv
  <2>2. CASE Call(p)
    BY <1>t, <1>4, <2>1, <2>2 DEF Reading, Call, Goto, OpenCall, OpenEmptying, Release, Llseek,
       ReadCall, WriteCall, IoctlQuantum, IoctlQset, IoctlReset, locals
  <2>3. CASE Step(p)
    BY <1>t, <1>4, <2>1, <2>3 DEF Reading, Step, Goto, Down, Out, Interrupted, locals,
       OpenDown, OpenInterrupted, TrimFree, TrimReset, ReadDown, ReadInterrupted,
       ReadEnd, ReadHole, Divide, ReadFound, ReadCopy, ReadFault, ReadOut, WriteDown,
       WriteInterrupted, WriteFind, WriteNoMemory, WriteCopy, WriteFault, WriteSize
  <2> QED BY <2>2, <2>3
<1> QED BY <1>1, <1>2, <1>3, <1>4, Zenon DEF ReadInv

(* What the refinement rests on: the invariants of ScullMemProofs, and that a
   read() stops at the size, which cannot shrink before it has copied
   (main.c:304-307). *)
THEOREM MemRefInvariant ==
  ASSUME Guarded
  PROVE  Spec => []RefInv
<1>1. Init => RefInv
  BY MemInit, ShapeInit DEF Init, RefInv, ReadInv, ShapeInv
<1>2. RefInv /\ [Next]_vars => RefInv'
  <2>1. ASSUME RefInv, [Next]_vars
        PROVE  ReadInv'
    <3>1. CASE UNCHANGED vars
      BY <2>1, <3>1 DEF RefInv, ReadInv, vars, device, locals
    <3>2. CASE Next
      BY <2>1, <3>2, ReadStep DEF Next, RefInv
    <3> QED BY <2>1, <3>1, <3>2
  <2> QED BY <2>1, MemNext, ShapeNext DEF RefInv
<1> QED BY <1>1, <1>2, PTL DEF Spec

-----------------------------------------------------------------------------
\* What a step does to the array of bytes, the size and what reads have taken.

LEMMA ByteNext ==
  ASSUME UNCHANGED <<quantum, qset>>, NEW x
  PROVE  ByteOf(x)' = ByteIn(data', x)
<1>1. quantum' = quantum /\ qset' = qset
  OBVIOUS
<1> QED BY <1>1, Zenon DEF ByteOf, ByteIn, Has, Kept, Usable, ItemOf, PlaceOf, OffsetOf

LEMMA HeldIs ==
  ASSUME ~freed, ~freed', UNCHANGED <<quantum, qset>>
  PROVE  /\ Held = [x \in 0 .. (MaxPos - 1) |-> ByteIn(data, x)]
         /\ Held' = [x \in 0 .. (MaxPos - 1) |-> ByteIn(data', x)]
<1>1. \A x \in 0 .. (MaxPos - 1) : ByteOf(x) = ByteIn(data, x) /\ ByteOf(x)' = ByteIn(data', x)
  BY ByteHere, ByteNext, Zenon
<1>2. /\ Held = [x \in 0 .. (MaxPos - 1) |-> ByteOf(x)]
      /\ Held' = [x \in 0 .. (MaxPos - 1) |-> ByteOf(x)']
  BY Zenon DEF Held
<1> QED BY <1>1, <1>2

LEMMA HeldKept ==
  ASSUME UNCHANGED <<quantum, qset, data, freed>>
  PROVE  Held' = Held
BY DEF Held, ByteOf, Kept, Usable

LEMMA HeldEmpty ==
  ASSUME Types', data' = <<>>
  PROVE  Held' = [x \in 0 .. (MaxPos - 1) |-> Junk]
<1>1. ASSUME NEW x \in 0 .. (MaxPos - 1), Usable'
      PROVE  ByteOf(x)' = Junk
  <2>1. x \in Nat /\ quantum' \in Nat \ {0} /\ qset' \in Nat \ {0}
    BY <1>1, MemAssumption DEF Types, TypeOK, Usable
  <2>2. x \div (quantum' * qset') \in Nat
    BY <2>1, Location, Zenon
  <2>3. ~(Len(data') > x \div (quantum' * qset'))
    BY <2>2
  <2> QED BY <2>3, Zenon DEF ByteOf, Kept
<1>2. ASSUME NEW x \in 0 .. (MaxPos - 1), ~Usable'
      PROVE  ByteOf(x)' = Junk
  BY <1>2, Zenon DEF ByteOf
<1> QED BY <1>1, <1>2 DEF Held

LEMMA TakenStep ==
  ASSUME Types, Types', NEW p \in Procs, Call(p) \/ Step(p)
  PROVE  Taken' = [Taken EXCEPT ![p] = IF pc'[p] = "read_out" THEN arg'[p] ELSE None]
<1>1. \A q \in Procs \ {p} : pc'[q] = pc[q] /\ arg'[q] = arg[q]
  BY OthersOwn DEF Own
<1> QED BY <1>1 DEF Taken, None

LEMMA TakenKept ==
  ASSUME Types, Types', NEW p \in Procs, Call(p) \/ Step(p),
         pc[p] # "read_out", pc'[p] # "read_out"
  PROVE  Taken' = Taken /\ Taken[p] = None
<1>1. \A q \in Procs \ {p} : pc'[q] = pc[q] /\ arg'[q] = arg[q]
  BY OthersOwn DEF Own
<1> QED BY <1>1 DEF Taken, None

LEMMA PosStep ==
  ASSUME Types, Types', NEW p \in Procs, Call(p) \/ Step(p)
  PROVE  pos' = [pos EXCEPT ![p] = pos'[p]]
<1>1. \A q \in Procs \ {p} : pos'[q] = pos[q]
  BY OthersOwn DEF Own
<1>2. pos \in [Procs -> 0 .. MaxPos] /\ pos' \in [Procs -> 0 .. MaxPos]
  BY DEF Types, TypeOK
<1> QED BY <1>1, <1>2

LEMMA ExtentKept ==
  ASSUME Types, Types', NEW p \in Procs, Call(p) \/ Step(p),
         pc[p] # "write_size", pc'[p] # "write_size", UNCHANGED <<size, freed>>
  PROVE  Extent' = Extent
<1>1. \A q \in Procs \ {p} : pc'[q] = pc[q] /\ pos'[q] = pos[q]
  BY OthersOwn DEF Own
<1>2. Finishing' = Finishing /\ p \notin Finishing /\ Finishing \subseteq Procs
  BY <1>1 DEF Finishing
<1> DEFINE w == {pos[q] : q \in Finishing}
<1>3. w' = w
  BY <1>1, <1>2
<1> HIDE DEF w
<1>4. (w \cup {size})' = w \cup {size}
  BY <1>3
<1> QED BY <1>4 DEF Extent, w

-----------------------------------------------------------------------------
\* Steps outside the critical section, and scull_trim().

Maps == Abstract!Next \/ UNCHANGED Abstract!vars

(* What read() asks for changes where it is called and where it returns. *)
LEMMA AsksStep ==
  ASSUME RefInv, RefInv', NEW p \in Procs, Call(p) \/ Step(p)
  PROVE  Asks' = [Asks EXCEPT ![p] = want'[p] > 0]
<1>1. \A q \in Procs \ {p} : want'[q] = want[q]
  BY OthersOwn DEF Own, RefInv, MemInv
<1> QED BY <1>1 DEF Asks

LEMMA AsksKept ==
  ASSUME RefInv, RefInv', NEW p \in Procs, Call(p) \/ Step(p), want'[p] = want[p]
  PROVE  Asks' = Asks
<1>1. \A q \in Procs : want'[q] = want[q]
  BY OthersOwn DEF Own, RefInv, MemInv
<1> QED BY <1>1 DEF Asks

LEMMA AsksNothing ==
  ASSUME RefInv, RefInv', NEW p \in Procs, Call(p) \/ Step(p),
         pc[p] \notin Reading, pc'[p] \notin Reading
  PROVE  Asks' = Asks
BY AsksKept DEF RefInv, ReadInv

LEMMA OutsideStep ==
  ASSUME RefInv, RefInv', NEW p \in Procs, Call(p) \/ Step(p), pc[p] \notin Inside
  PROVE  Maps
<1>t. /\ Types /\ Types' /\ pc \in [Procs -> PCs] /\ MemInv
      /\ want \in [Procs -> Nat] /\ want' \in [Procs -> Nat]
  BY DEF RefInv, MemInv, Types, TypeOK
<1>1. UNCHANGED <<quantum, qset, size, data, freed>>
  BY DeviceKept
<1>2. pc[p] \notin {"read_out", "write_size"} /\ pc'[p] \notin {"read_out", "write_size"}
  BY <1>t DEF Call, Step, Goto, Down, Out, Interrupted, Inside, Accesses, Trimming,
     OpenCall, OpenEmptying, Release, Llseek, ReadCall, WriteCall, IoctlQuantum, IoctlQset,
     IoctlReset, OpenDown, OpenInterrupted, TrimFree, TrimReset, ReadDown, ReadInterrupted,
     ReadEnd, ReadHole, Divide, ReadFound, ReadCopy, ReadFault, ReadOut, WriteDown,
     WriteInterrupted, WriteFind, WriteNoMemory, WriteCopy, WriteFault, WriteSize
<1>3. UNCHANGED <<Held, Extent, Taken>> /\ Taken[p] = None
  BY <1>t, <1>1, <1>2, HeldKept, ExtentKept, TakenKept
<1>4. pos' = [pos EXCEPT ![p] = pos'[p]]
  BY <1>t, PosStep
<1>5. CASE want'[p] = want[p]
  BY <1>3, <1>4, <1>5, AsksKept, Seeks DEF Maps
<1>6. CASE want'[p] # want[p]
  <2>1. pos' = pos
    BY <1>t, <1>6 DEF Call, Step, Goto, Down, Out, Interrupted, Inside, Accesses, Trimming,
       OpenCall, OpenEmptying, Release, Llseek, ReadCall, WriteCall, IoctlQuantum, IoctlQset,
       IoctlReset, OpenDown, OpenInterrupted, TrimFree, TrimReset, ReadDown, ReadInterrupted,
       ReadEnd, ReadHole, Divide, ReadFound, ReadCopy, ReadFault, ReadOut, WriteDown,
       WriteInterrupted, WriteFind, WriteNoMemory, WriteCopy, WriteFault, WriteSize, locals
  <2>2. CASE want'[p] > 0
    <3>1. Asks' = [Asks EXCEPT ![p] = TRUE]
      BY <2>2, AsksStep
    <3> QED BY <1>3, <2>1, <3>1, Asked DEF Maps
  <2>3. CASE ~(want'[p] > 0)
    <3>1. Asks' = [Asks EXCEPT ![p] = FALSE]
      <4>1. (want'[p] > 0) = FALSE
        BY <2>3
      <4> QED BY <4>1, AsksStep
    <3>2. Taken' = [Taken EXCEPT ![p] = None]
      BY <1>3 DEF Taken
    <3> QED BY <1>3, <2>1, <3>1, <3>2, Returns DEF Maps
  <2> QED BY <2>2, <2>3
<1> QED BY <1>5, <1>6

(* While p is between down() and up(), or in scull_trim(), no other process is. *)
LEMMA Alone ==
  ASSUME MemInv, Guarded, NEW p \in Procs, pc[p] \in Inside
  PROVE  Finishing = IF pc[p] = "write_size" THEN {p} ELSE {}
<1>1. \A q \in Procs \ {p} : pc[q] # "write_size"
  BY Exclusive DEF MemInv, Inside, Accesses
<1> QED BY <1>1 DEF Finishing

(* The device is emptied when scull_trim() frees its list; if there is none, it
   was empty and stays so. *)
LEMMA TrimStep ==
  ASSUME RefInv, RefInv', Guarded, NEW p \in Procs, TrimFree(p) \/ TrimReset(p)
  PROVE  Maps
<1>t. /\ Types /\ Types' /\ pc \in [Procs -> PCs] /\ Step(p) /\ MemInv
      /\ size \in 0 .. MaxPos /\ MaxPos \in Nat
  BY MemAssumption DEF RefInv, MemInv, Types, TypeOK, Step
<1>1. /\ pc[p] \in Trimming /\ pc' = [pc EXCEPT ![p] = IF pc[p] = "trim_free" THEN "trim_reset"
                                                                             ELSE "idle"]
      /\ pos' = pos /\ want' = want
  BY DEF TrimFree, TrimReset, Goto, Trimming, locals
<1>2. Taken' = Taken
  <2>1. pc[p] # "read_out" /\ pc'[p] # "read_out"
    BY <1>t, <1>1 DEF Trimming
  <2> QED BY <1>t, <2>1, TakenKept
<1>a. Asks' = Asks
  BY <1>t, <1>1, AsksKept
<1>3. Finishing = {} /\ Finishing' = {}
  <2>1. Finishing = {}
    BY <1>t, <1>1, Alone DEF Inside, Trimming
  <2> QED BY <1>t, <1>1, <2>1 DEF Finishing
<1>4. CASE TrimFree(p)
  <2>1. /\ freed' = (data # <<>>)
        /\ UNCHANGED <<quantum, qset, size, data>>
    BY <1>4 DEF TrimFree, device
  <2>2. CASE freed'
    <3>1. Held' = [x \in 0 .. (MaxPos - 1) |-> Junk] /\ Extent' = 0
      BY <2>2 DEF Held, Extent
    <3> QED BY <1>1, <1>2, <1>a, <3>1, Empties DEF Maps
  <2>3. CASE ~freed'
    <3>1. ~freed
      BY <1>4, <1>t, OthersOut DEF TrimFree, Goto, Inside, Trimming
    <3>2. freed' = freed
      <4>1. freed \in BOOLEAN
        BY <1>t DEF Types, TypeOK
      <4>2. freed = FALSE
        BY <3>1, <4>1
      <4>3. freed' = FALSE
        BY <2>1, <2>3
      <4> QED BY <4>2, <4>3
    <3>3. Held' = Held
      BY <2>1, <3>2, HeldKept
    <3>4. Extent' = Extent
      <4>1. pc[p] # "write_size" /\ pc'[p] # "write_size"
        BY <1>t, <1>1 DEF Trimming
      <4> QED BY <1>t, <2>1, <3>2, <4>1, ExtentKept
    <3> QED BY <1>1, <1>2, <1>a, <3>3, <3>4, Stutters DEF Maps
  <2> QED BY <2>2, <2>3
<1>5. CASE TrimReset(p)
  <2>1. data' = <<>> /\ size' = 0 /\ freed' = FALSE
    BY <1>5 DEF TrimReset
  <2>2. Held' = [x \in 0 .. (MaxPos - 1) |-> Junk]
    BY <1>t, <2>1, HeldEmpty
  <2>3. Extent' = 0
    <3>1. ({pos[q] : q \in Finishing} \cup {size})' = {0}
      BY <1>3, <2>1
    <3>2. Extent' = Max({0})
      BY <2>1, <3>1 DEF Extent
    <3> QED BY <3>2, Greatest
  <2> QED BY <1>1, <1>2, <1>a, <2>2, <2>3, Empties DEF Maps
<1> QED BY <1>4, <1>5

-----------------------------------------------------------------------------
\* read() and write().

(* What holds of a process that works on the list. *)
Working(p) ==
  /\ RefInv /\ RefInv' /\ Types /\ Types' /\ CallInv(p)
  /\ ListInv /\ Shaped(data) /\ data \in Lists
  /\ \/ ReadHole(p) \/ ReadFound(p) \/ WriteFind(p) \/ WriteNoMemory(p)
     \/ pc[p] \in {"read_copy", "write_copy"}
     => Fits(p)
  /\ stale = {} /\ ~freed /\ ~freed' /\ freed' = freed
  /\ data' \in Lists /\ UNCHANGED <<quantum, qset>>
  /\ Finishing = IF pc[p] = "write_size" THEN {p} ELSE {}

LEMMA Works ==
  ASSUME RefInv, RefInv', ~misfit', Guarded, NEW p \in Procs, Call(p) \/ Step(p),
         pc[p] \in Accesses
  PROVE  Working(p)
<1>1. MemInv /\ ListInv /\ Types /\ Types' /\ CallInv(p)
  BY MisfitStep DEF RefInv, MemInv, ShapeInv
<1>2. /\ ~freed /\ ~freed' /\ UNCHANGED <<quantum, qset>> /\ stale = {}
  BY <1>1, AccessKeeps
<1>3. freed \in BOOLEAN /\ freed' \in BOOLEAN /\ data \in Lists /\ data' \in Lists
  BY <1>1 DEF Types, TypeOK, Lists, Bytes
<1>4. freed = FALSE /\ freed' = FALSE
  BY <1>2, <1>3
<1>5. Finishing = IF pc[p] = "write_size" THEN {p} ELSE {}
  BY <1>1, Alone DEF Inside
<1>6. pc[p] \in {"read_copy", "write_copy"} => Fits(p)
  BY <1>1 DEF ListInv
<1>7. Shaped(data)
  BY <1>1 DEF ListInv
<1> QED BY <1>1, <1>2, <1>3, <1>4, <1>5, <1>6, <1>7, MisfitStep DEF Working

(* A call that has a quantum to copy from or to has a usable geometry. *)
LEMMA Copies ==
  ASSUME NEW p \in Procs, Working(p), pc[p] \in {"read_copy", "write_copy"}
  PROVE  /\ Fits(p) /\ Usable /\ HasQuantum(data, p) /\ Len(Quantum(data, p)) = quantum
         /\ quantum \in Nat /\ QPos(p) \in 0 .. quantum - 1 /\ QPos(p) = OffsetOf(pos[p])
<1>1. Fits(p) /\ HasQuantum(data, p) /\ Itemsize(p) # 0
  BY DEF Working, ListInv, CallInv
<1>2. Usable /\ Len(Quantum(data, p)) = quantum
  BY <1>1, ShapedPlaces DEF Working, HasQuantum
<1>3. quantum \in Nat /\ QPos(p) \in 0 .. quantum - 1 /\ QPos(p) = OffsetOf(pos[p])
  BY <1>1, <1>2, UsablePlaces, Here DEF Working
<1> QED BY <1>1, <1>2, <1>3

(* It copies something if there is anything to copy. *)
LEMMA CopiesSome ==
  ASSUME NEW p \in Procs, Working(p), pc[p] \in {"read_copy", "write_copy"}, NEW n \in Nat
  PROVE  /\ UpToQuantum(p, n) \in IF n = 0 THEN {0} ELSE 1 .. n
         /\ QPos(p) + UpToQuantum(p, n) <= quantum
<1>1. quantum \in Nat /\ QPos(p) \in 0 .. quantum - 1 /\ geo[p].quantum = quantum
  BY Copies DEF Fits, Noted
<1> QED BY <1>1 DEF UpToQuantum, Min2

LEMMA WorkingSize ==
  ASSUME NEW p \in Procs, Working(p), pc[p] # "write_size"
  PROVE  Extent = size
BY ExtentIs, MemAssumption DEF Working, Types, TypeOK

(* Bytes that stay keep the array as it is. *)
LEMMA HeldSame ==
  ASSUME NEW p \in Procs, Working(p), \A x \in Nat : ByteIn(data', x) = ByteIn(data, x)
  PROVE  Held' = Held
<1>1. \A x \in 0 .. (MaxPos - 1) : x \in Nat
  BY MemAssumption
<1> QED BY <1>1, HeldIs DEF Working

(* Nothing to read: at the end, or where no quantum was ever allocated. *)
LEMMA ReadEndStep ==
  ASSUME NEW p \in Procs, Working(p), ReadEnd(p)
  PROVE  Maps
<1>t. /\ Types /\ Types' /\ pc \in [Procs -> PCs] /\ arg \in [Procs -> {None} \cup Seq(Bytes)] /\ Step(p)
      /\ RefInv /\ RefInv'
  BY DEF Working, Types, TypeOK, Step
<1>1. /\ pc[p] = "read_find" /\ pc'[p] = "read_out" /\ arg'[p] = <<>> /\ pos[p] >= size
      /\ UNCHANGED <<pos, size, data, want>>
  BY <1>t DEF ReadEnd, Goto, device
<1>2. Taken' = [Taken EXCEPT ![p] = <<>>] /\ Taken[p] = None
  BY <1>t, <1>1, TakenStep DEF Taken
<1>3. Extent' = Extent /\ Extent = size
  BY <1>t, <1>1, ExtentKept, WorkingSize DEF Working
<1>4. Held' = Held
  BY <1>1, HeldKept DEF Working
<1>5. Asks' = Asks
  BY <1>t, <1>1, AsksKept
<1> QED BY <1>5, <1>1, <1>2, <1>3, <1>4, ReadsNothing DEF Maps

LEMMA ReadHoleStep ==
  ASSUME NEW p \in Procs, Working(p), ReadHole(p)
  PROVE  Maps
<1>t. /\ Types /\ Types' /\ pc \in [Procs -> PCs] /\ arg \in [Procs -> {None} \cup Seq(Bytes)]
      /\ RefInv /\ RefInv' /\ Step(p) /\ size \in 0 .. MaxPos /\ MaxPos \in Nat
  BY MemAssumption DEF Working, Types, TypeOK, Step
<1>1. /\ pc[p] = "read_find" /\ pc'[p] = "read_out" /\ arg'[p] = <<>> /\ pos[p] < size
      /\ UNCHANGED <<pos, size, want>>
  BY <1>t DEF ReadHole, Goto
<1>2. PICK d \in Followed(p) : ~HasQuantum(d, p) /\ data' = d
  BY DEF ReadHole
<1>u. Fits(p) /\ Usable
  <2>1. size > 0
    <3>1. pos[p] \in Nat
      BY MemAssumption DEF Working, Types, TypeOK
    <3> QED BY <1>t, <1>1, <3>1
  <2> QED BY <2>1 DEF Working, ListInv, Backed
<1>3. pos[p] \in Nat /\ geo[p] = Noted /\ Item(p) \in Nat
  BY <1>t, <1>u, Here DEF Fits
<1>4. Extends(d, p) /\ Shaped(d) /\ d \in Lists
  <2>1. Extends(d, p)
    BY <1>t, <1>3, FollowedExtends
  <2> QED BY <1>t, <2>1, <1>3, ExtendsShape DEF Extends, Working
<1>5. \A x \in Nat : ByteIn(data', x) = ByteIn(data, x)
  BY <1>t, <1>u, <1>2, <1>3, FollowedBytes
<1>6. Held' = Held
  BY <1>5, HeldSame
<1>7. Held[pos[p]] = Junk
  <2>1. ~Has(d, pos[p])
    BY <1>t, <1>u, <1>2, <1>4, FoundHere DEF Working
  <2>2. ByteIn(data, pos[p]) = Junk
    BY <1>2, <1>3, <1>5, <2>1, Zenon DEF ByteIn
  <2>3. pos[p] \in 0 .. (MaxPos - 1)
    BY <1>t, <1>1, <1>3
  <2> QED BY <2>2, <2>3, HeldIs DEF Working
<1>8. Taken' = [Taken EXCEPT ![p] = <<>>] /\ Taken[p] = None
  BY <1>t, <1>1, TakenStep DEF Taken
<1>9. Extent' = Extent
  BY <1>t, <1>1, ExtentKept DEF Working
<1>10. Asks' = Asks
  BY <1>t, <1>1, AsksKept
<1> QED BY <1>10, <1>1, <1>6, <1>7, <1>8, <1>9, ReadsNothing DEF Maps

(* A read() takes the bytes at its position, no further than the size. *)
LEMMA ReadCopyStep ==
  ASSUME NEW p \in Procs, Working(p), ReadCopy(p)
  PROVE  Maps
<1> DEFINE n == ReadCount(p)
           y == pos[p]
           a == [i \in 1 .. n |-> ByteAt(p, i - 1)]
<1> HIDE DEF n, a
<1>t. /\ Types /\ Types' /\ pc \in [Procs -> PCs] /\ arg \in [Procs -> {None} \cup Seq(Bytes)]
      /\ Step(p) /\ size \in 0 .. MaxPos /\ MaxPos \in Nat /\ RefInv /\ RefInv'
      /\ pos \in [Procs -> 0 .. MaxPos] /\ want[p] \in Nat
  BY MemAssumption DEF Working, Types, TypeOK, Step
<1>1. /\ pc[p] = "read_copy" /\ pc'[p] = "read_out" /\ UNCHANGED <<size, data, want>>
      /\ arg' = [arg EXCEPT ![p] = a] /\ pos' = [pos EXCEPT ![p] = pos[p] + n]
  BY <1>t DEF ReadCopy, Goto, device, n, a
<1>2. /\ n \in IF want[p] = 0 THEN {0} ELSE 1 .. want[p]
      /\ QPos(p) + n <= quantum
  BY <1>t, <1>1, CopiesSome DEF n, ReadCount
<1>3. y + want[p] <= size
  BY <1>t, <1>1 DEF RefInv, ReadInv
<1>h. /\ y \in Nat /\ HasQuantum(data, p) /\ Usable /\ Fits(p)
      /\ Len(Quantum(data, p)) = quantum /\ QPos(p) = OffsetOf(y)
  BY <1>t, <1>1, Copies
<1>q. OffsetOf(y) \in Nat /\ quantum \in Nat
  BY <1>t, <1>1, <1>h, Copies
<1>4. Len(a) = n /\ \A i \in 1 .. n : a[i] = ByteAt(p, i - 1)
  BY <1>2, <1>t DEF a
<1>5. ASSUME NEW i \in 1 .. n
      PROVE  a[i] = Held[y + i - 1]
  <2> DEFINE k == i - 1
             x == y + k
  <2>1. /\ k \in Nat /\ i \in Nat \ {0} /\ k + 1 = i /\ x = y + i - 1
        /\ x \in 0 .. (MaxPos - 1) /\ x \in Nat
        /\ QPos(p) + i <= quantum /\ OffsetOf(y) + k < quantum
    <3>1. i \in Nat \ {0} /\ i <= n /\ n <= want[p] /\ n \in Nat
      BY <1>t, <1>2
    <3>2. /\ k \in Nat /\ k + 1 = i /\ x = y + i - 1 /\ x \in Nat /\ x < size
      BY <1>t, <1>3, <1>h, <3>1
    <3>3. x \in 0 .. (MaxPos - 1)
      BY <1>t, <3>2
    <3>4. QPos(p) + i <= quantum /\ OffsetOf(y) + k < quantum
      BY <1>2, <1>h, <1>q, <3>1
    <3> QED BY <3>1, <3>2, <3>3, <3>4
  <2>2. ~WildCopy(p, i)
    BY <1>h, <1>q, <2>1 DEF Working, WildCopy
  <2>3. a[i] = Quantum(data, p)[QPos(p) + k + 1]
    <3> HIDE DEF k
    <3>1. a[i] = ByteAt(p, k)
      BY <1>4 DEF k
    <3> QED BY <2>1, <2>2, <3>1, Zenon DEF ByteAt
  <2> HIDE DEF k
  <2>4. ItemOf(x) = ItemOf(y) /\ PlaceOf(x) = PlaceOf(y) /\ OffsetOf(x) = OffsetOf(y) + k
    BY <1>t, <1>h, <2>1, Ahead, Zenon
  <2> HIDE DEF x
  <2>5. data \in Lists
    BY <1>t, DataTyped
  <2>6. Has(data, y) /\ Quantum(data, p) = data[ItemOf(y) + 1][PlaceOf(y) + 1]
    BY <1>t, <1>h, <2>5, FoundHere DEF Working
  <2>7. Has(data, x)
    BY <2>4, <2>6, Zenon DEF Has
  <2>8. ByteIn(data, x) = a[i]
    BY <1>h, <2>3, <2>4, <2>6, <2>7, Zenon DEF ByteIn
  <2>9. Held[x] = ByteIn(data, x)
    BY <2>1, HeldIs DEF Working
  <2> QED BY <2>1, <2>8, <2>9, Zenon
<1>6. Taken' = [Taken EXCEPT ![p] = a] /\ Taken[p] = None
  <2>1. arg'[p] = a
    BY <1>1, <1>t
  <2> QED BY <1>t, <1>1, <2>1, TakenStep DEF Taken
<1>7. Extent' = Extent /\ Extent = size
  BY <1>t, <1>1, ExtentKept, WorkingSize DEF Working
<1>8. Held' = Held /\ Asks' = Asks
  BY <1>t, <1>1, HeldKept, AsksKept DEF Working
<1>a. Asks[p] = (want[p] > 0)
  BY DEF Asks
<1>9. CASE want[p] = 0
  <2>1. n = 0 /\ a = <<>>
    BY <1>2, <1>4, <1>9 DEF a
  <2>2. pos' = pos
    BY <1>t, <1>1, <2>1
  <2>3. ~Asks[p]
    <3>1. ~(want[p] > 0)
      BY <1>9
    <3> QED BY <1>a, <3>1
  <2> QED BY <1>6, <1>7, <1>8, <2>1, <2>2, <2>3, ReadsNothing DEF Maps
<1>10. CASE want[p] # 0
  <2>1. n \in 1 .. (Extent - pos[p])
    BY <1>t, <1>2, <1>3, <1>7, <1>10
  <2>2. Asks[p]
    <3>1. want[p] > 0
      BY <1>t, <1>10
    <3> QED BY <1>a, <3>1
  <2> QED BY <1>1, <1>4, <1>5, <1>6, <1>7, <1>8, <2>1, <2>2, Reads DEF Maps
<1> QED BY <1>9, <1>10

LEMMA ReadOutStep ==
  ASSUME NEW p \in Procs, Working(p), ReadOut(p) \/ ReadFault(p)
  PROVE  Maps
<1>t. Types /\ Types' /\ pc \in [Procs -> PCs] /\ Step(p) /\ RefInv /\ RefInv'
  BY DEF Working, Types, TypeOK, Step
<1>1. /\ pc[p] \in {"read_out", "read_copy"} /\ pc'[p] = "idle"
      /\ UNCHANGED <<pos, size, data>> /\ want' = [want EXCEPT ![p] = 0]
  BY <1>t DEF ReadOut, ReadFault, Out, Goto, device
<1>2. Taken' = [Taken EXCEPT ![p] = None]
  BY <1>t, <1>1, TakenStep
<1>3. Asks' = [Asks EXCEPT ![p] = FALSE]
  <2>1. want'[p] = 0
    BY <1>t, <1>1 DEF Types
  <2>2. (want'[p] > 0) = FALSE
    BY <2>1
  <2> QED BY <1>t, <2>2, AsksStep
<1>4. Extent' = Extent
  BY <1>t, <1>1, ExtentKept DEF Working
<1>5. Held' = Held
  BY <1>1, HeldKept DEF Working
<1> QED BY <1>1, <1>2, <1>3, <1>4, <1>5, Returns DEF Maps

(* A step that leaves the bytes, the size and the position alone. *)
LEMMA SilentStep ==
  ASSUME NEW p \in Procs, Working(p), Call(p) \/ Step(p), UNCHANGED <<pos, size>>, Asks' = Asks,
         \A x \in Nat : ByteIn(data', x) = ByteIn(data, x),
         pc[p] \notin {"read_out", "write_size"}, pc'[p] \notin {"read_out", "write_size"}
  PROVE  Maps
<1>1. Taken' = Taken
  BY TakenKept DEF Working
<1>2. Extent' = Extent
  BY ExtentKept DEF Working
<1>3. Held' = Held
  BY HeldSame
<1> QED BY <1>1, <1>2, <1>3, Stutters DEF Maps

LEMMA ReadFoundStep ==
  ASSUME NEW p \in Procs, Working(p), ReadFound(p) \/ Divide(p)
  PROVE  Maps
<1>t. /\ pc \in [Procs -> PCs] /\ Step(p) /\ RefInv /\ RefInv' /\ want \in [Procs -> Nat]
      /\ pos \in [Procs -> 0 .. MaxPos] /\ size \in 0 .. MaxPos /\ MaxPos \in Nat
  BY MemAssumption DEF Working, Types, TypeOK, Step
<1>1. /\ UNCHANGED <<pos, size, data>>
      /\ pc[p] \in {"read_find", "write_find"} /\ pc'[p] \in {"read_copy", "killed"}
  BY <1>t DEF ReadFound, Divide, Goto, device, locals
<1>2. Asks' = Asks
  <2>1. CASE ReadFound(p)
    <3>1. pos[p] < size /\ want' = [want EXCEPT ![p] = Min2(want[p], size - pos[p])]
      BY <2>1 DEF ReadFound
    <3>2. (want'[p] > 0) = (want[p] > 0)
      BY <1>t, <3>1 DEF Min2
    <3>3. \A q \in Procs : (want'[q] > 0) = (want[q] > 0)
      BY <1>t, <3>1, <3>2
    <3> QED BY <3>3 DEF Asks
  <2>2. CASE Divide(p)
    BY <1>t, <2>2, AsksKept DEF Divide, locals
  <2> QED BY <2>1, <2>2
<1> QED BY <1>t, <1>1, <1>2, SilentStep

(* Allocating an item, an array and a quantum stores nothing. *)
LEMMA WriteFindStep ==
  ASSUME NEW p \in Procs, Working(p), WriteFind(p) \/ WriteNoMemory(p)
  PROVE  Maps
<1>t. /\ Types /\ pc \in [Procs -> PCs] /\ Step(p) /\ Fits(p) /\ RefInv /\ RefInv'
      /\ geo[p] = Noted
  BY DEF Working, Types, TypeOK, Step, Fits
<1>1. /\ UNCHANGED <<pos, size>>
      /\ pc[p] = "write_find" /\ pc'[p] \in {"write_copy", "idle"}
  BY <1>t DEF WriteFind, WriteNoMemory, Out, Goto, locals
<1>2. Asks' = Asks
  BY <1>t, <1>1, AsksNothing DEF Reading
<1>3. PICK d \in Followed(p) :
        \/ data' = d
        \/ Reaches(d, p) /\ data' = WithArray(d, p)
        \/ Reaches(d, p) /\ data' = WithQuantum(WithArray(d, p), p)
  BY DEF WriteFind, WriteNoMemory, Arrays
<1>4. CASE ~Usable
  <2>1. \A x \in Nat : ByteIn(data', x) = ByteIn(data, x)
    BY <1>4, NoBytes, Zenon
  <2> QED BY <1>t, <1>1, <1>2, <2>1, SilentStep
<1>5. CASE Usable
  <2>1. geo[p] \in Geometry /\ Item(p) \in Nat /\ Itemsize(p) # 0 /\ geo[p].qset > 0
    BY <1>t, <1>5, Here DEF Usable
  <2>2. Extends(d, p) /\ d \in Lists /\ \A x \in Nat : ByteIn(d, x) = ByteIn(data, x)
    <3>1. Extends(d, p)
      BY <1>t, <2>1, FollowedExtends
    <3> QED BY <1>t, <1>5, <2>1, <3>1, FollowedBytes DEF Extends
  <2>3. ASSUME Reaches(d, p)
        PROVE  \A x \in Nat : /\ ByteIn(WithArray(d, p), x) = ByteIn(data, x)
                              /\ ByteIn(WithQuantum(WithArray(d, p), p), x) = ByteIn(data, x)
    <3> DEFINE e == WithArray(d, p)
    <3>1. Extends(e, p) /\ HasArray(e, p)
      BY <1>t, <2>1, <2>2, <2>3, ArrayExtends
    <3>2. e \in Lists /\ Shaped(e)
      BY <1>t, <3>1, ExtendsShape DEF Extends, Working
    <3>3. \A x \in Nat : ByteIn(e, x) = ByteIn(d, x)
      BY <1>t, <1>5, <2>2, <2>3, ArrayBytes
    <3> HIDE DEF e
    <3>4. \A x \in Nat : ByteIn(WithQuantum(e, p), x) = ByteIn(e, x)
      BY <1>t, <1>5, <3>1, <3>2, QuantumBytes
    <3> QED BY <2>2, <3>3, <3>4 DEF e
  <2>4. \A x \in Nat : ByteIn(data', x) = ByteIn(data, x)
    BY <1>3, <2>2, <2>3
  <2> QED BY <1>t, <1>1, <1>2, <2>4, SilentStep
<1> QED BY <1>4, <1>5

(* The bytes that a write() copies, or leaves when it faults, are the array's. *)
LEMMA WriteStores ==
  ASSUME NEW p \in Procs, Working(p), pc[p] = "write_copy",
         NEW b \in Seq(Bytes), Len(b) = WriteCount(p), data' = Stored(p, b)
  PROVE  Held' = [x \in DOMAIN Held |->
                    IF x \in pos[p] .. (pos[p] + WriteCount(p) - 1) THEN b[x - pos[p] + 1]
                                                                    ELSE Held[x]]
<1> DEFINE n == WriteCount(p)
<1>1. QPos(p) + Len(b) <= quantum
  <2>1. Len(arg[p]) \in Nat
    BY CopyCounts DEF Working
  <2> QED BY <2>1, CopiesSome DEF WriteCount
<1>2. Fits(p) /\ Usable /\ HasQuantum(data, p) /\ Types
  BY Copies DEF Working
<1> HIDE DEF n
<1>3. \A x \in 0 .. (MaxPos - 1) :
        ByteIn(data', x) = IF x \in pos[p] .. (pos[p] + n - 1) THEN b[x - pos[p] + 1]
                                                               ELSE ByteIn(data, x)
  <2>1. \A x \in 0 .. (MaxPos - 1) : x \in Nat
    BY MemAssumption
  <2> QED BY <1>1, <1>2, <2>1, StoredAt, Zenon DEF Working, n
<1>4. /\ Held = [x \in 0 .. (MaxPos - 1) |-> ByteIn(data, x)]
      /\ Held' = [x \in 0 .. (MaxPos - 1) |-> ByteIn(data', x)]
  BY HeldIs DEF Working
<1> QED BY <1>3, <1>4 DEF n

(* What a write() was given. *)
LEMMA WriteGiven ==
  ASSUME NEW p \in Procs, Working(p), pc[p] = "write_copy"
  PROVE  /\ Len(arg[p]) \in 0 .. MaxPos /\ arg[p] \in [1 .. Len(arg[p]) -> Byte]
         /\ WriteCount(p) \in IF arg[p] = <<>> THEN {0} ELSE 1 .. Len(arg[p])
<1>t. CallInv(p) /\ pos \in [Procs -> 0 .. MaxPos] /\ MaxPos \in Nat
  BY MemAssumption DEF Working, Types, TypeOK
<1>1. arg[p] \in Seq(Byte) /\ pos[p] + Len(arg[p]) <= MaxPos
  BY <1>t DEF CallInv, Writing
<1>2. Len(arg[p]) \in Nat /\ (arg[p] = <<>> <=> Len(arg[p]) = 0)
  BY <1>1, EmptySeq, LenProperties
<1>3. arg[p] \in [1 .. Len(arg[p]) -> Byte]
  BY <1>1, LenProperties
<1>4. WriteCount(p) \in IF Len(arg[p]) = 0 THEN {0} ELSE 1 .. Len(arg[p])
  BY <1>2, CopiesSome DEF WriteCount
<1> QED BY <1>t, <1>1, <1>2, <1>3, <1>4

LEMMA WriteCopyStep ==
  ASSUME NEW p \in Procs, Working(p), WriteCopy(p)
  PROVE  Maps
<1> DEFINE k == WriteCount(p)
           d == arg[p]
           b == SubSeq(d, 1, k)
<1> HIDE DEF k, b
<1>t. /\ Types /\ Types' /\ pc \in [Procs -> PCs] /\ Step(p) /\ RefInv /\ RefInv'
      /\ size \in 0 .. MaxPos /\ MaxPos \in Nat
      /\ pos \in [Procs -> 0 .. MaxPos] /\ pos' \in [Procs -> 0 .. MaxPos]
  BY MemAssumption DEF Working, Types, TypeOK, Step
<1>1. /\ pc[p] = "write_copy" /\ pc' = [pc EXCEPT ![p] = "write_size"] /\ UNCHANGED <<size, want>>
      /\ pos' = [pos EXCEPT ![p] = pos[p] + k] /\ data' = Stored(p, b)
  BY DEF WriteCopy, Goto, k, b
<1>2. /\ Len(d) \in 0 .. MaxPos /\ d \in [1 .. Len(d) -> Byte]
      /\ k \in IF d = <<>> THEN {0} ELSE 1 .. Len(d)
  BY <1>1, WriteGiven DEF k
<1>3. b \in Seq(Bytes) /\ Len(b) = k /\ \A i \in 1 .. k : b[i] = d[i]
  <2>0. k \in Nat /\ k <= Len(d)
    BY <1>2
  <2>1. \A i \in 1 .. k : d[i] \in Bytes
    BY <1>2, <2>0 DEF Bytes
  <2>2. k \in Nat /\ 1 \in Int
    BY <2>0
  <2>3. /\ SubSeq(d, 1, k) \in Seq(Bytes)
        /\ Len(SubSeq(d, 1, k)) = IF 1 <= k THEN k - 1 + 1 ELSE 0
        /\ \A i \in 1 .. k - 1 + 1 : SubSeq(d, 1, k)[i] = d[1 + i - 1]
    BY <2>1, <2>2, SubSeqProperties
  <2>4. k - 1 + 1 = k /\ (IF 1 <= k THEN k - 1 + 1 ELSE 0) = k
    BY <2>2
  <2>5. ASSUME NEW i \in 1 .. k
        PROVE  SubSeq(d, 1, k)[i] = d[i]
    <3>1. 1 + i - 1 = i
      BY <2>2
    <3> QED BY <2>3, <2>4, <3>1, Zenon
  <2> QED BY <2>2, <2>3, <2>4, <2>5 DEF b
<1>4. Held' = [x \in DOMAIN Held |->
                 IF x \in pos[p] .. (pos[p] + k - 1) THEN d[x - pos[p] + 1] ELSE Held[x]]
  <2>1. Held' = [x \in DOMAIN Held |->
                   IF x \in pos[p] .. (pos[p] + k - 1) THEN b[x - pos[p] + 1] ELSE Held[x]]
    BY <1>1, <1>3, WriteStores DEF k
  <2>2. ASSUME NEW x \in pos[p] .. (pos[p] + k - 1)
        PROVE  b[x - pos[p] + 1] = d[x - pos[p] + 1]
    <3>1. x - pos[p] + 1 \in 1 .. k
      BY <1>t, <1>2
    <3> QED BY <1>3, <3>1
  <2> QED BY <2>1, <2>2
<1>5. Extent' = Max2(Extent, pos'[p])
  <2>1. Extent = size
    BY <1>1, WorkingSize
  <2>2. Finishing = {} /\ Finishing' = {p}
    <3>1. Finishing = {}
      BY <1>1 DEF Working
    <3> QED BY <1>t, <1>1, <3>1 DEF Finishing
  <2>3. ({pos[q] : q \in Finishing} \cup {size})' = {size, pos'[p]}
    BY <1>1, <2>2
  <2>4. Extent' = Max({size, pos'[p]})
    BY <2>3 DEF Extent, Working
  <2>5. Max({size, pos'[p]}) = Max2(size, pos'[p])
    <3>1. size \in Int /\ pos'[p] \in Int
      BY <1>t
    <3> QED BY <3>1, Greatest
  <2> QED BY <2>1, <2>4, <2>5, Zenon
<1>6. Taken' = Taken
  BY <1>t, <1>1, TakenKept
<1>7. Asks' = Asks
  BY <1>t, <1>1, AsksKept
<1> QED BY <1>7, <1>1, <1>2, <1>4, <1>5, <1>6, Writes DEF Maps

LEMMA WriteFaultStep ==
  ASSUME NEW p \in Procs, Working(p), WriteFault(p)
  PROVE  Maps
<1> DEFINE n == WriteCount(p)
           d == arg[p]
<1> HIDE DEF n
<1>t. /\ Types /\ Types' /\ pc \in [Procs -> PCs] /\ Step(p) /\ RefInv /\ RefInv' /\ MaxPos \in Nat
      /\ pos \in [Procs -> 0 .. MaxPos]
  BY MemAssumption DEF Working, Types, TypeOK, Step
<1>1. pc[p] = "write_copy" /\ pc'[p] = "idle" /\ UNCHANGED <<size, pos>>
  BY <1>t DEF WriteFault, Out, Goto
<1>3. PICK k \in 0 .. (n - 1) :
        data' = Stored(p, [i \in 1 .. n |-> IF i <= k THEN d[i] ELSE Junk])
  BY DEF WriteFault, n
<1>2. Len(d) \in 0 .. MaxPos /\ d \in [1 .. Len(d) -> Byte] /\ n \in 1 .. Len(d)
  <2>1. n \in IF d = <<>> THEN {0} ELSE 1 .. Len(d)
    BY <1>1, WriteGiven DEF n
  <2>2. n # 0
    BY <1>3
  <2> QED BY <1>1, <2>1, <2>2, WriteGiven
<1> DEFINE b == [i \in 1 .. n |-> IF i <= k THEN d[i] ELSE Junk]
<1>4. b \in Seq(Bytes) /\ Len(b) = n /\ \A i \in 1 .. n : b[i] \in {d[i], Junk}
  <2>1. \A i \in 1 .. n : d[i] \in Bytes
    BY <1>2 DEF Bytes
  <2>2. n \in Nat
    BY <1>2
  <2> QED BY <2>1, <2>2 DEF Bytes
<1> HIDE DEF b
<1>5. Held' = [x \in DOMAIN Held |->
                 IF x \in pos[p] .. (pos[p] + n - 1) THEN b[x - pos[p] + 1] ELSE Held[x]]
  <2>1. data' = Stored(p, b)
    BY <1>3 DEF b
  <2> QED BY <1>1, <1>4, <2>1, WriteStores DEF n
<1>6. ASSUME NEW x \in DOMAIN Held
      PROVE  IF x \in pos[p] .. (pos[p] + Len(d) - 1)
               THEN Held'[x] \in {Held[x], d[x - pos[p] + 1], Junk}
               ELSE Held'[x] = Held[x]
  <2>1. CASE x \in pos[p] .. (pos[p] + n - 1)
    <3>1. x - pos[p] + 1 \in 1 .. n /\ x \in pos[p] .. (pos[p] + Len(d) - 1)
      BY <1>t, <1>2, <2>1
    <3>2. Held'[x] = b[x - pos[p] + 1]
      BY <1>5, <2>1
    <3> QED BY <1>4, <3>1, <3>2
  <2>2. CASE ~(x \in pos[p] .. (pos[p] + n - 1))
    <3>1. Held'[x] = Held[x]
      BY <1>5, <2>2
    <3> QED BY <3>1
  <2> QED BY <2>1, <2>2
<1>7. Extent' = Extent
  BY <1>t, <1>1, ExtentKept DEF Working
<1>8. Taken' = Taken
  BY <1>t, <1>1, TakenKept
<1>9. Asks' = Asks
  BY <1>t, <1>1, AsksNothing DEF Reading
<1> QED BY <1>9, <1>1, <1>2, <1>6, <1>7, <1>8, Spoils DEF Maps

(* dev->size catches up with the write. *)
LEMMA WriteSizeStep ==
  ASSUME NEW p \in Procs, Working(p), WriteSize(p)
  PROVE  Maps
<1>t. /\ Types /\ Types' /\ pc \in [Procs -> PCs] /\ Step(p) /\ RefInv /\ RefInv'
      /\ size \in 0 .. MaxPos /\ MaxPos \in Nat /\ pos \in [Procs -> 0 .. MaxPos]
  BY MemAssumption DEF Working, Types, TypeOK, Step
<1>1. /\ pc[p] = "write_size" /\ pc' = [pc EXCEPT ![p] = "idle"] /\ size' = Max2(size, pos[p])
      /\ UNCHANGED <<pos, data>>
  BY DEF WriteSize, Out, Goto
<1>2. Finishing = {p} /\ Finishing' = {}
  <2>1. Finishing = {p}
    BY <1>1 DEF Working
  <2> QED BY <1>t, <1>1, <2>1 DEF Finishing
<1>3. Extent = Max2(size, pos[p])
  BY <1>t, <1>2, ExtentIs DEF Working
<1>4. Extent' = size'
  <2>1. ({pos[q] : q \in Finishing} \cup {size})' = {size'}
    BY <1>2
  <2>2. Extent' = Max({size'})
    BY <2>1 DEF Extent, Working
  <2>3. size' \in Int
    BY <1>t, <1>1 DEF Max2
  <2> QED BY <2>2, <2>3, Greatest
<1>5. Held' = Held
  BY <1>1, HeldKept DEF Working
<1>6. Taken' = Taken
  BY <1>t, <1>1, TakenKept
<1>7. Asks' = Asks
  BY <1>t, <1>1, AsksNothing DEF Reading
<1> QED BY <1>7, <1>1, <1>3, <1>4, <1>5, <1>6, Stutters DEF Maps

-----------------------------------------------------------------------------
\* The refinement.

LEMMA InitRefines == Init => Abstract!Init
<1> SUFFICES ASSUME Init PROVE Abstract!Init
  OBVIOUS
<1>1. Types
  BY MemInit DEF MemInv
<1>2. Held = [x \in 0 .. (MaxPos - 1) |-> Junk]
  <2>1. ASSUME NEW x \in 0 .. (MaxPos - 1), Usable
        PROVE  ByteOf(x) = Junk
    <3>1. x \in Nat
      BY MemAssumption
    <3>2. ItemOf(x) \in Nat /\ data = <<>>
      BY <1>1, <2>1, <3>1, Spot DEF Init
    <3>3. ~Has(data, x)
      BY <3>2 DEF Has
    <3> QED BY <3>3, ByteHere, Zenon DEF ByteIn
  <2>2. ASSUME NEW x \in 0 .. (MaxPos - 1), ~Usable
        PROVE  ByteOf(x) = Junk
    BY <2>2, Zenon DEF ByteOf
  <2> QED BY <2>1, <2>2 DEF Held
<1>3. Extent = 0
  <2>1. Finishing = {} /\ size = 0 /\ ~freed
    BY DEF Init, Finishing
  <2> QED BY <2>1, ExtentIs
<1>4. Taken = [p \in Procs |-> None] /\ pos = [p \in Procs |-> 0]
  BY DEF Init, Taken
<1>5. Asks = [p \in Procs |-> FALSE]
  <2>1. \A p \in Procs : (want[p] > 0) = FALSE
    BY DEF Init
  <2> QED BY <2>1 DEF Asks
<1> QED BY <1>2, <1>3, <1>4, <1>5
        DEF Abstract!Init, Abstract!None, None, Held, Extent, Taken, Asks

LEMMA StepRefines ==
  ASSUME RefInv, RefInv', Guarded, [Next]_vars
  PROVE  misfit' \/ [Abstract!Next]_(Abstract!vars)
<1>1. ASSUME NEW p \in Procs, Call(p) \/ Step(p), ~misfit'
      PROVE  Maps
  <2>1. CASE pc[p] \notin Inside
    BY <1>1, <2>1, OutsideStep
  <2>2. CASE TrimFree(p) \/ TrimReset(p)
    BY <2>2, TrimStep
  <2>3. CASE pc[p] \in Inside /\ ~TrimFree(p) /\ ~TrimReset(p)
    <3>1. \/ ReadEnd(p) \/ ReadHole(p) \/ ReadFound(p) \/ ReadCopy(p) \/ ReadFault(p)
          \/ ReadOut(p) \/ WriteFind(p) \/ WriteNoMemory(p) \/ WriteCopy(p) \/ WriteFault(p)
          \/ WriteSize(p) \/ Divide(p)
      BY <1>1, <2>3 DEF Call, Step, Goto, Down, Out, Interrupted, Inside, Accesses, Trimming,
         OpenCall, OpenEmptying, Release, Llseek, ReadCall, WriteCall, IoctlQuantum, IoctlQset,
         IoctlReset, OpenDown, OpenInterrupted, ReadDown, ReadInterrupted, WriteDown,
         WriteInterrupted
    <3>2. pc[p] \in Accesses
      BY <3>1 DEF Accesses, Goto, Out, ReadEnd, ReadHole, ReadFound, ReadCopy, ReadFault, ReadOut,
         WriteFind, WriteNoMemory, WriteCopy, WriteFault, WriteSize, Divide
    <3>3. Working(p)
      BY <1>1, <3>2, Works
    <3> QED BY <3>1, <3>3, ReadEndStep, ReadHoleStep, ReadFoundStep, ReadCopyStep, ReadOutStep,
               WriteFindStep, WriteCopyStep, WriteFaultStep, WriteSizeStep
  <2> QED BY <2>1, <2>2, <2>3
<1>2. ASSUME UNCHANGED vars
      PROVE  UNCHANGED Abstract!vars
  <2>1. UNCHANGED <<quantum, qset, size, data, pc, pos, arg, want, freed>>
    BY <1>2 DEF vars, device, locals, heap
  <2>2. UNCHANGED <<Held, Extent, Taken, Asks>>
    BY <2>1 DEF Held, ByteOf, Kept, Usable, Extent, Finishing, Taken, Asks
  <2> QED BY <2>1, <2>2, Stutters
<1>3. (\E p \in Procs : Call(p) \/ Step(p)) => (misfit' \/ Maps)
  BY <1>1, Zenon
<1>4. CASE Next
  BY <1>3, <1>4, Zenon DEF Next, Maps
<1>5. CASE UNCHANGED vars
  BY <1>2, <1>5
<1> QED BY <1>4, <1>5

(* The list of quantum sets is the sparse array of bytes that a device promises:
   with open, trim, read, write, seek and their failures interleaved in any way,
   a write() takes effect at once at its copy, a write() of no bytes moves only
   the size, a read() returns what was written there and not yet emptied, and
   nothing else ever changes a byte or the size (main.c:292-387).  This holds
   until a call works by another geometry than the device's, or by a negative
   quantum (main.c:297, 341). *)
THEOREM MemRefinement ==
  ASSUME Guarded
  PROVE  Spec => ImplementsStore
<1>1. RefInv /\ RefInv' /\ [Next]_vars => (misfit' \/ [Abstract!Next]_(Abstract!vars))
  BY StepRefines
<1>2. misfit' \/ [Abstract!Next]_(Abstract!vars) =>
        [misfit' \/ [Abstract!Next]_(Abstract!vars)]_vars
  OBVIOUS
<1> QED BY MemRefInvariant, InitRefines, <1>1, <1>2, PTL DEF Spec, ImplementsStore

(* With steady parameters no call ever does, and the device is such an array
   without exception. *)
THEOREM MemStore ==
  ASSUME Guarded, Steady, Quanta \subseteq Nat
  PROVE  Spec => Abstract!Spec
<1>1. RefInv /\ RefInv' /\ ~misfit' /\ [Next]_vars => [Abstract!Next]_(Abstract!vars)
  BY StepRefines
<1> QED BY MemRefInvariant, MemSteady, InitRefines, <1>1, PTL DEF Spec, Abstract!Spec
=============================================================================
