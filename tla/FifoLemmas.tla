----------------------------- MODULE FifoLemmas -----------------------------
(***************************************************************************)
(* Facts about ring indices and about the operators of Fifo, for every     *)
(* Size.  The proofs about fifo.c and uart.c cite them by name.            *)
(***************************************************************************)
EXTENDS Fifo, SequenceTheorems, TLAPS

(* SizeNat: the part of SizeAssumption the proofs need. *)
LEMMA SizeNat == Size \in Nat /\ Size >= 2
  BY SizeAssumption

(* ModOnce: masking an index plus at most one lap takes off one lap or     *)
(* nothing.                                                                *)
LEMMA ModOnce ==
  \A i \in Idx : \A k \in 0 .. Size :
    /\ (i + k) % Size = IF i + k < Size THEN i + k ELSE i + k - Size
    /\ (i + k) % Size \in Idx
<1> SUFFICES ASSUME NEW i \in Idx, NEW k \in 0 .. Size
             PROVE  /\ (i + k) % Size = IF i + k < Size THEN i + k ELSE i + k - Size
                    /\ (i + k) % Size \in Idx
  OBVIOUS
<1> USE SizeNat DEF Idx
<1>1. CASE i + k < Size
  BY <1>1
<1>2. CASE i + k >= Size
  BY <1>2
<1> QED BY <1>1, <1>2

(* IncStep: the next index, without the mask. *)
LEMMA IncStep ==
  \A i \in Idx : Inc(i) \in Idx /\ Inc(i) = IF i = Size - 1 THEN 0 ELSE i + 1
<1> SUFFICES ASSUME NEW i \in Idx
             PROVE  Inc(i) \in Idx /\ Inc(i) = IF i = Size - 1 THEN 0 ELSE i + 1
  OBVIOUS
<1>1. 1 \in 0 .. Size
  BY SizeNat
<1>2. Inc(i) \in Idx /\ Inc(i) = IF i + 1 < Size THEN i + 1 ELSE i + 1 - Size
  BY <1>1, ModOnce DEF Inc
<1> QED BY <1>2, SizeNat DEF Idx

(* DistanceType: a distance is less than a lap, and zero exactly between   *)
(* equal indices.                                                          *)
LEMMA DistanceType ==
  \A i, j \in Idx : Distance(i, j) \in 0 .. Size - 1 /\ (Distance(i, j) = 0 <=> i = j)
  BY SizeNat DEF Idx, Distance

(* DistanceLands: walking the distance between two indices leads from the  *)
(* one to the other, and nothing shorter than a lap but that does.         *)
LEMMA DistanceLands ==
  \A i, j \in Idx : \A k \in 0 .. Size - 1 :
    (i + k) % Size = j <=> Distance(i, j) = k
<1> SUFFICES ASSUME NEW i \in Idx, NEW j \in Idx, NEW k \in 0 .. Size - 1
             PROVE  (i + k) % Size = j <=> Distance(i, j) = k
  OBVIOUS
<1>1. k \in 0 .. Size
  BY SizeNat
<1>2. (i + k) % Size = IF i + k < Size THEN i + k ELSE i + k - Size
  BY <1>1, ModOnce
<1> HIDE DEF Idx
<1> QED BY <1>2, SizeNat DEF Idx, Distance

(* IncWalk: one more step of a walk is one more step of the mask. *)
LEMMA IncWalk ==
  \A i \in Idx : \A k \in 0 .. Size - 1 : Inc((i + k) % Size) = (i + (k + 1)) % Size
<1> SUFFICES ASSUME NEW i \in Idx, NEW k \in 0 .. Size - 1
             PROVE  Inc((i + k) % Size) = (i + (k + 1)) % Size
  OBVIOUS
<1>1. k \in 0 .. Size /\ k + 1 \in 0 .. Size
  BY SizeNat
<1>2. /\ (i + k) % Size = IF i + k < Size THEN i + k ELSE i + k - Size
      /\ (i + k) % Size \in Idx
  BY <1>1, ModOnce
<1>3. (i + (k + 1)) % Size = IF i + (k + 1) < Size THEN i + (k + 1) ELSE i + (k + 1) - Size
  BY <1>1, ModOnce
<1>4. Inc((i + k) % Size) = IF (i + k) % Size = Size - 1 THEN 0 ELSE ((i + k) % Size) + 1
  BY <1>2, IncStep
<1> QED BY <1>2, <1>3, <1>4, SizeNat DEF Idx

(* DistanceInc: moving the far end grows the distance, or closes the lap;  *)
(* moving the near end shrinks it.                                         *)
LEMMA DistanceInc ==
  \A i, j \in Idx :
    /\ Inc(j) # i => Distance(i, Inc(j)) = Distance(i, j) + 1
    /\ Inc(j) = i <=> Distance(i, j) = Size - 1
    /\ i # j => Distance(Inc(i), j) = Distance(i, j) - 1
  BY IncStep, SizeNat DEF Idx, Distance

(* DistanceAdd: two walks that together stay below a lap make one walk.   *)
LEMMA DistanceAdd ==
  \A i, j, k \in Idx :
    Distance(i, j) + Distance(j, k) < Size => Distance(i, k) = Distance(i, j) + Distance(j, k)
  BY SizeNat DEF Idx, Distance

(* WalkFromInc: a walk that starts one index later. *)
LEMMA WalkFromInc ==
  \A i \in Idx : \A k \in 0 .. Size - 1 : (Inc(i) + k) % Size = (i + (k + 1)) % Size
<1> SUFFICES ASSUME NEW i \in Idx, NEW k \in 0 .. Size - 1
             PROVE  (Inc(i) + k) % Size = (i + (k + 1)) % Size
  OBVIOUS
<1>1. k \in 0 .. Size /\ k + 1 \in 0 .. Size
  BY SizeNat
<1>2. Inc(i) \in Idx /\ Inc(i) = IF i = Size - 1 THEN 0 ELSE i + 1
  BY IncStep
<1>3. (Inc(i) + k) % Size = IF Inc(i) + k < Size THEN Inc(i) + k ELSE Inc(i) + k - Size
  BY <1>1, <1>2, ModOnce
<1>4. (i + (k + 1)) % Size = IF i + (k + 1) < Size THEN i + (k + 1) ELSE i + (k + 1) - Size
  BY <1>1, ModOnce
<1> QED BY <1>2, <1>3, <1>4, SizeNat DEF Idx

(* WriteType: FifoWrite of at most Size bytes returns a fifo. *)
LEMMA WriteType ==
  ASSUME NEW f \in FifoType, NEW m \in 0 .. Size, NEW data \in [1 .. m -> Val]
  PROVE  FifoWrite(f, data) \in FifoType
<1>1. Len(data) = m
  BY DEF Idx
<1>2. f.read_index \in Idx /\ f.write_index \in Idx /\ f.buffer \in [Idx -> Val]
  BY DEF FifoType
<1> DEFINE w == (f.write_index + m) % Size
<1>3. w \in Idx /\ Inc(w) \in Idx
  BY <1>2, ModOnce, IncStep
<1>4. ASSUME NEW i \in Idx
      PROVE  (IF Distance(f.write_index, i) < m
                THEN data[Distance(f.write_index, i) + 1] ELSE f.buffer[i]) \in Val
  BY <1>2, <1>4, DistanceType, SizeNat
<1> HIDE DEF w
<1> QED BY <1>1, <1>2, <1>3, <1>4 DEF FifoWrite, FifoType, w

(* PushType: FifoPushReadIndex returns a fifo. *)
LEMMA PushType ==
  ASSUME NEW f \in FifoType, NEW d \in Nat
  PROVE  FifoPushReadIndex(f, d) \in FifoType
<1>1. f.read_index \in Idx /\ f.write_index \in Idx /\ f.buffer \in [Idx -> Val]
  BY DEF FifoType
<1>2. AtMost(d, BytesAvailable(f)) \in 0 .. Size
  BY <1>1, DistanceType, SizeNat DEF AtMost, BytesAvailable
<1>3. (f.read_index + AtMost(d, BytesAvailable(f))) % Size \in Idx
  BY <1>1, <1>2, ModOnce
<1> QED BY <1>1, <1>3 DEF FifoPushReadIndex, FifoType

(* BetweenSeq: the bytes between two indices are a sequence as long as     *)
(* their distance.                                                         *)
LEMMA BetweenSeq ==
  \A b \in [Idx -> Val] : \A i, j \in Idx :
           /\ Between(b, i, j) \in Seq(Val)
           /\ Len(Between(b, i, j)) = Distance(i, j)
<1> TAKE b \in [Idx -> Val]
<1> TAKE i, j \in Idx
<1>1. Distance(i, j) \in 0 .. Size - 1
  BY DistanceType
<1>2. \A k \in 1 .. Distance(i, j) : (i + (k - 1)) % Size \in Idx
  BY <1>1, ModOnce, SizeNat
<1>3. Between(b, i, j) \in [1 .. Distance(i, j) -> Val]
  BY <1>1, <1>2 DEF Between
<1>4. Distance(i, j) \in Nat
  BY <1>1, SizeNat
<1>5. Between(b, i, j) \in Seq(Val)
  BY <1>3, <1>4
<1>6. Len(Between(b, i, j)) = Distance(i, j)
  BY <1>3, <1>4
<1> QED BY <1>5, <1>6

(* BetweenPut: writing one byte at the far index appends it, after the     *)
(* oldest byte is dropped if the near index had to give way.               *)
LEMMA BetweenPut ==
  \A b \in [Idx -> Val] : \A i, j \in Idx : \A v \in Val :
           /\ Inc(j) # i => Between([b EXCEPT ![j] = v], i, Inc(j)) = Append(Between(b, i, j), v)
           /\ Inc(j) = i => Between([b EXCEPT ![j] = v], Inc(i), Inc(j))
                              = Append(Tail(Between(b, i, j)), v)
<1> TAKE b \in [Idx -> Val]
<1> TAKE i, j \in Idx
<1> TAKE v \in Val
<1> DEFINE c == [b EXCEPT ![j] = v]
           q == Between(b, i, j)
           d == Distance(i, j)
<1>1. /\ Inc(j) \in Idx /\ Inc(i) \in Idx
      /\ c \in [Idx -> Val] /\ c[j] = v
      /\ \A k \in Idx : k # j => c[k] = b[k]
  BY IncStep
<1>2. d \in 0 .. Size - 1 /\ d \in Nat
  BY DistanceType, SizeNat
<1>3. q \in Seq(Val) /\ Len(q) = d /\ \A k \in 1 .. d : q[k] = b[(i + (k - 1)) % Size]
  BY BetweenSeq DEF Between
<1>4. \A k \in 0 .. Size - 1 : (i + k) % Size \in Idx /\ ((i + k) % Size = j <=> k = d)
  BY DistanceLands, ModOnce, SizeNat
<1>5. \A k \in 0 .. Size - 1 : k # d => c[(i + k) % Size] = b[(i + k) % Size]
  BY <1>1, <1>4
<1>6. c[(i + d) % Size] = v
  BY <1>1, <1>2, <1>4
<1>7. ASSUME Inc(j) # i
      PROVE  Between(c, i, Inc(j)) = Append(q, v)
  <2> DEFINE r == Between(c, i, Inc(j))
  <2>1. Distance(i, Inc(j)) = d + 1
    BY <1>7, DistanceInc
  <2>2. r \in Seq(Val) /\ Len(r) = d + 1 /\ \A k \in 1 .. d + 1 : r[k] = c[(i + (k - 1)) % Size]
    <3> HIDE DEF c, d
    <3>1. r \in Seq(Val) /\ Len(r) = Distance(i, Inc(j))
      BY <1>1, BetweenSeq DEF r
    <3>2. \A k \in 1 .. Distance(i, Inc(j)) : r[k] = c[(i + (k - 1)) % Size]
      BY DEF Between, r
    <3> QED BY <3>1, <3>2, <2>1
  <2>3. /\ Append(q, v) \in Seq(Val) /\ Len(Append(q, v)) = d + 1
        /\ \A k \in 1 .. d : Append(q, v)[k] = q[k]
        /\ Append(q, v)[d + 1] = v
    BY <1>3, AppendProperties
  <2>4. \A k \in 1 .. d : r[k] = q[k]
    <3> SUFFICES ASSUME NEW k \in 1 .. d PROVE r[k] = q[k]
      OBVIOUS
    <3>1. k - 1 \in 0 .. Size - 1 /\ k - 1 # d /\ k \in 1 .. d + 1
      BY <1>2, SizeNat
    <3> HIDE DEF c, q, d, r
    <3> QED BY <1>3, <1>5, <2>2, <3>1
  <2>5. r[d + 1] = v
    <3>1. d + 1 \in 1 .. d + 1 /\ (d + 1) - 1 = d
      BY <1>2
    <3> HIDE DEF c, d, r
    <3> QED BY <1>6, <2>2, <3>1
  <2> HIDE DEF q, r, d, c
  <2>6. \A k \in 1 .. Len(r) : r[k] = Append(q, v)[k]
    BY <1>2, <2>2, <2>3, <2>4, <2>5
  <2> QED BY <2>2, <2>3, <2>6, SeqEqual DEF r, c
<1>8. ASSUME Inc(j) = i
      PROVE  Between(c, Inc(i), Inc(j)) = Append(Tail(q), v)
  <2> DEFINE r == Between(c, Inc(i), Inc(j))
  <2>1. d = Size - 1 /\ d >= 1
    BY <1>8, DistanceInc, SizeNat
  <2>2. Distance(Inc(i), Inc(j)) = d
    BY <1>1, <1>8, <2>1, IncStep, SizeNat DEF Idx, Distance
  <2>3. r \in Seq(Val) /\ Len(r) = d
        /\ \A k \in 1 .. d : r[k] = c[(Inc(i) + (k - 1)) % Size]
    <3> HIDE DEF c, d
    <3>1. r \in Seq(Val) /\ Len(r) = Distance(Inc(i), Inc(j))
      BY <1>1, BetweenSeq DEF r
    <3>2. \A k \in 1 .. Distance(Inc(i), Inc(j)) : r[k] = c[(Inc(i) + (k - 1)) % Size]
      BY DEF Between, r
    <3> QED BY <3>1, <3>2, <2>2
  <2>4. \A k \in 1 .. d : r[k] = c[(i + k) % Size]
    <3> SUFFICES ASSUME NEW k \in 1 .. d PROVE r[k] = c[(i + k) % Size]
      OBVIOUS
    <3>1. k - 1 \in 0 .. Size - 1 /\ (k - 1) + 1 = k
      BY <1>2, <2>1, SizeNat
    <3>2. (Inc(i) + (k - 1)) % Size = (i + k) % Size
      BY <3>1, WalkFromInc
    <3> HIDE DEF c, r, d
    <3> QED BY <2>3, <3>2
  <2>5. q # << >> /\ Tail(q) \in Seq(Val) /\ Len(Tail(q)) = d - 1
        /\ \A k \in 1 .. d - 1 : Tail(q)[k] = q[k + 1]
    BY <1>2, <1>3, <2>1, HeadTailProperties, EmptySeq
  <2>6. /\ Append(Tail(q), v) \in Seq(Val) /\ Len(Append(Tail(q), v)) = d
        /\ \A k \in 1 .. d - 1 : Append(Tail(q), v)[k] = Tail(q)[k]
        /\ Append(Tail(q), v)[d] = v
    BY <1>2, <2>5, AppendProperties
  <2>7. \A k \in 1 .. d - 1 : r[k] = q[k + 1]
    <3> SUFFICES ASSUME NEW k \in 1 .. d - 1 PROVE r[k] = q[k + 1]
      OBVIOUS
    <3>1. k \in 0 .. Size - 1 /\ k # d /\ k \in 1 .. d /\ k + 1 \in 1 .. d /\ (k + 1) - 1 = k
      BY <1>2, <2>1, SizeNat
    <3> HIDE DEF c, q, d, r
    <3> QED BY <1>3, <1>5, <2>4, <3>1
  <2>8. r[d] = v
    <3>1. d \in 1 .. d
      BY <1>2, <2>1
    <3> HIDE DEF c, d, r
    <3> QED BY <1>6, <2>4, <3>1
  <2> HIDE DEF q, r, d, c
  <2>9. \A k \in 1 .. Len(r) : r[k] = Append(Tail(q), v)[k]
    BY <1>2, <2>1, <2>3, <2>5, <2>6, <2>7, <2>8
  <2> QED BY <2>3, <2>6, <2>9, SeqEqual DEF r, c
<1> QED BY <1>7, <1>8

(* BetweenTake: moving the near index takes the oldest byte off. *)
LEMMA BetweenTake ==
  ASSUME NEW b \in [Idx -> Val], NEW i \in Idx, NEW j \in Idx, i # j
  PROVE  /\ Between(b, i, j) # << >>
         /\ Head(Between(b, i, j)) = b[i]
         /\ Tail(Between(b, i, j)) = Between(b, Inc(i), j)
<1> DEFINE q == Between(b, i, j)
           r == Between(b, Inc(i), j)
           d == Distance(i, j)
<1>1. Inc(i) \in Idx
  BY IncStep
<1>2. d \in 1 .. Size - 1 /\ d \in Nat
  BY DistanceType, SizeNat
<1>3. q \in Seq(Val) /\ Len(q) = d /\ \A k \in 1 .. d : q[k] = b[(i + (k - 1)) % Size]
  BY BetweenSeq DEF Between
<1>4. Distance(Inc(i), j) = d - 1
  BY DistanceInc
<1>5. r \in Seq(Val) /\ Len(r) = d - 1
      /\ \A k \in 1 .. d - 1 : r[k] = b[(Inc(i) + (k - 1)) % Size]
  <2> HIDE DEF d
  <2>1. r \in Seq(Val) /\ Len(r) = Distance(Inc(i), j)
    BY <1>1, BetweenSeq DEF r
  <2>2. \A k \in 1 .. Distance(Inc(i), j) : r[k] = b[(Inc(i) + (k - 1)) % Size]
    BY DEF Between, r
  <2> QED BY <2>1, <2>2, <1>4
<1>6. q # << >> /\ Head(q) = q[1] /\ Tail(q) \in Seq(Val) /\ Len(Tail(q)) = d - 1
      /\ \A k \in 1 .. d - 1 : Tail(q)[k] = q[k + 1]
  BY <1>2, <1>3, HeadTailProperties, EmptySeq
<1>7. q[1] = b[i]
  <2>1. 1 \in 1 .. d /\ 1 - 1 = 0 /\ 0 \in 0 .. Size
    BY <1>2, SizeNat
  <2>2. (i + 0) % Size = i
    <3>1. (i + 0) % Size = IF i + 0 < Size THEN i + 0 ELSE i + 0 - Size
      BY <2>1, ModOnce
    <3> QED BY <3>1, SizeNat DEF Idx
  <2> QED BY <1>3, <2>1, <2>2
<1>8. \A k \in 1 .. d - 1 : Tail(q)[k] = r[k]
  <2> SUFFICES ASSUME NEW k \in 1 .. d - 1 PROVE Tail(q)[k] = r[k]
    OBVIOUS
  <2>1. k - 1 \in 0 .. Size - 1 /\ (k - 1) + 1 = k /\ k + 1 \in 1 .. d /\ (k + 1) - 1 = k
    BY <1>2, SizeNat
  <2>2. (Inc(i) + (k - 1)) % Size = (i + k) % Size
    BY <2>1, WalkFromInc
  <2> HIDE DEF q, r, d
  <2> QED BY <1>3, <1>5, <1>6, <2>1, <2>2
<1> HIDE DEF q, r, d
<1>9. Tail(q) = r
  BY <1>5, <1>6, <1>8, SeqEqual
<1> QED BY <1>6, <1>7, <1>9 DEF q, r

(* ModNat: any number, masked, is an index.                                *)
LEMMA ModNat == \A x \in Nat : x % Size \in Idx
  BY SizeNat DEF Idx

(* ModDivision: laps and the index left over, and that there is one way    *)
(* only to split a number so.                                              *)
LEMMA ModDivision ==
  /\ \A x \in Nat : \E q \in Nat : x = Size * q + (x % Size)
  /\ \A q \in Nat, r \in Idx : (Size * q + r) % Size = r
<1>1. \A x \in Nat : x \div Size \in Nat /\ x = Size * (x \div Size) + (x % Size)
  BY SizeNat
<1>2. \A q \in Nat, r \in Idx : (Size * q + r) % Size = r
  BY SizeNat DEF Idx
<1> QED BY <1>1, <1>2

(* ModAdd: adding at most a lap to a number moves its index on by that.    *)
LEMMA ModAdd ==
  \A x \in Nat : \A k \in 0 .. Size :
    (x + k) % Size = IF (x % Size) + k < Size THEN (x % Size) + k ELSE (x % Size) + k - Size
<1> SUFFICES ASSUME NEW x \in Nat, NEW k \in 0 .. Size
             PROVE  (x + k) % Size = IF (x % Size) + k < Size THEN (x % Size) + k
                                                             ELSE (x % Size) + k - Size
  OBVIOUS
<1> DEFINE r == x % Size
<1>1. r \in Idx
  BY ModNat
<1>2. PICK q \in Nat : x = Size * q + r
  BY ModDivision
<1> HIDE DEF r
<1>3. CASE r + k < Size
  <2>1. r + k \in Idx /\ x + k = Size * q + (r + k)
    BY <1>1, <1>2, <1>3, SizeNat DEF Idx
  <2> QED BY <1>3, <2>1, ModDivision DEF r
<1>4. CASE r + k >= Size
  <2>1. r + k - Size \in Idx /\ q + 1 \in Nat /\ x + k = Size * (q + 1) + (r + k - Size)
    BY <1>1, <1>2, <1>4, SizeNat DEF Idx
  <2>2. (Size * (q + 1) + (r + k - Size)) % Size = r + k - Size
    BY <2>1, ModDivision
  <2>3. ~(r + k < Size)
    BY <1>1, <1>4, SizeNat DEF Idx
  <2> QED BY <2>1, <2>2, <2>3 DEF r
<1> QED BY <1>1, <1>3, <1>4, SizeNat DEF Idx

(* ModWalk: walking on from an index, or masking where the walk ends.      *)
LEMMA ModWalk ==
  \A x \in Nat : /\ \A k \in 0 .. Size : ((x % Size) + k) % Size = (x + k) % Size
                 /\ Inc(x % Size) = (x + 1) % Size
<1> TAKE x \in Nat
<1>1. x % Size \in Idx
  BY ModNat
<1>2. \A k \in 0 .. Size : ((x % Size) + k) % Size = (x + k) % Size
  BY <1>1, ModAdd, ModOnce
<1>3. 1 \in 0 .. Size
  BY SizeNat
<1> QED BY <1>2, <1>3 DEF Inc

(* ModDistance: numbers less than a lap apart are as far apart as their    *)
(* indices, and so have different ones unless they are the same.           *)
LEMMA ModDistance ==
  \A x \in Nat : \A k \in 0 .. Size - 1 :
    /\ Distance(x % Size, (x + k) % Size) = k
    /\ k # 0 => x % Size # (x + k) % Size
<1> TAKE x \in Nat
<1> TAKE k \in 0 .. Size - 1
<1>1. x % Size \in Idx /\ k \in 0 .. Size
  BY ModNat, SizeNat
<1>2. (x + k) % Size = IF (x % Size) + k < Size THEN (x % Size) + k ELSE (x % Size) + k - Size
  BY <1>1, ModAdd
<1> QED BY <1>1, <1>2, SizeNat DEF Idx, Distance

(* A ring between two counts: r bytes have ever been taken out of f and m  *)
(* put in, and the byte put in as number k lies where k - 1 is masked to.  *)
Ring(f, r, m) ==
  /\ f.read_index = r % Size /\ f.write_index = m % Size
  /\ \A k \in r .. m - 1 : f.buffer[k % Size] = k + 1

(* RingCounts: fifo_bytes_available is the difference of the counts.       *)
LEMMA RingCounts ==
  ASSUME NEW f, NEW r \in Nat, NEW m \in Nat, r <= m, m - r < Size, Ring(f, r, m)
  PROVE  BytesAvailable(f) = m - r
<1>1. m - r \in 0 .. Size - 1 /\ r + (m - r) = m
  BY SizeNat
<1>2. Distance(r % Size, (r + (m - r)) % Size) = m - r
  BY <1>1, ModDistance
<1> QED BY <1>1, <1>2 DEF Ring, BytesAvailable

(* RingWrite: bytes that fit are written behind those that are there, and  *)
(* none of those is lost.                                                  *)
LEMMA RingWrite ==
  ASSUME NEW f \in FifoType, NEW r \in Nat, NEW m \in Nat, r <= m, Ring(f, r, m),
         NEW c \in Nat, m + c - r < Size,
         NEW data \in [1 .. c -> Val], \A k \in 1 .. c : data[k] = m + k
  PROVE  Ring(FifoWrite(f, data), r, m + c)
<1> DEFINE g == FifoWrite(f, data)
<1>1. Len(data) = c /\ c \in 0 .. Size /\ m - r < Size
  BY SizeNat
<1>2. g.write_index = (m + c) % Size
  BY <1>1, ModWalk DEF FifoWrite, Ring
<1>3. g.read_index = r % Size
  <2>1. BytesAvailable(f) = m - r
    BY <1>1, RingCounts
  <2> QED BY <1>1, <2>1 DEF FifoWrite, Ring
<1>4. ASSUME NEW k \in r .. m + c - 1 PROVE g.buffer[k % Size] = k + 1
  <2> DEFINE d == Distance(m % Size, k % Size)
  <2>1. k \in Nat /\ k % Size \in Idx
    BY ModNat
  <2>2. g.buffer[k % Size] = IF d < c THEN data[d + 1] ELSE f.buffer[k % Size]
    BY <1>1, <2>1 DEF FifoWrite, Ring
  <2>3. CASE k >= m
    <3>1. k - m \in 0 .. Size - 1 /\ m + (k - m) = k /\ k - m < c /\ (k - m) + 1 \in 1 .. c
      BY <2>3, SizeNat
    <3>2. d = k - m
      BY <3>1, ModDistance
    <3> QED BY <2>2, <3>1, <3>2
  <2>4. CASE k < m
    <3>1. k + Size - m \in 0 .. Size - 1 /\ m + (k + Size - m) = k + Size
          /\ ~(k + Size - m < c) /\ k \in r .. m - 1 /\ Size \in 0 .. Size
      BY <2>4, SizeNat
    <3>2. (k + Size) % Size = k % Size
      <4>1. (k + Size) % Size = IF (k % Size) + Size < Size THEN (k % Size) + Size
                                                           ELSE (k % Size) + Size - Size
        BY <2>1, <3>1, ModAdd
      <4> QED BY <2>1, <4>1, SizeNat DEF Idx
    <3>3. d = k + Size - m
      BY <3>1, <3>2, ModDistance
    <3>4. f.buffer[k % Size] = k + 1
      BY <3>1 DEF Ring
    <3> HIDE DEF d
    <3> QED BY <2>2, <3>1, <3>3, <3>4
  <2> QED BY <2>3, <2>4
<1> HIDE DEF g
<1> QED BY <1>2, <1>3, <1>4 DEF Ring, g

(* RingPush: taking out bytes that are there leaves the others.            *)
LEMMA RingPush ==
  ASSUME NEW f \in FifoType, NEW r \in Nat, NEW m \in Nat, m - r < Size, Ring(f, r, m),
         NEW d \in Nat, r + d <= m
  PROVE  Ring(FifoPushReadIndex(f, d), r + d, m)
<1>1. d \in 0 .. Size
  BY SizeNat
<1>2. BytesAvailable(f) = m - r
  BY RingCounts
<1>3. AtMost(d, BytesAvailable(f)) = d
  BY <1>2 DEF AtMost
<1>4. FifoPushReadIndex(f, d) = [f EXCEPT !.read_index = (r + d) % Size]
  BY <1>1, <1>3, ModWalk DEF FifoPushReadIndex, Ring
<1> QED BY <1>4 DEF Ring, FifoType

=============================================================================
