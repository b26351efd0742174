-------------------------- MODULE FifoLoop_proofs --------------------------
(***************************************************************************)
(* For every ring size and every set of bytes: the loops of fifo.c stay in *)
(* range, compute the closed forms of module Fifo, and implement a lossy   *)
(* queue, and a peek foretells the next read.                              *)
(***************************************************************************)
EXTENDS FifoLoop, FifoLemmas

(* CallSteps: the disjuncts of Next, with the inputs of the calls bound.   *)
LEMMA CallSteps ==
  ASSUME Next
  PROVE  \/ \E d \in Writes : WriteCall(d)
         \/ WriteLoop \/ WriteReturn
         \/ \E k \in 0 .. Size : ReadCall(k)
         \/ \E k \in 0 .. Size : PushCall(k)
         \/ \E k, size \in 0 .. Size : PeekCall(k, size)
         \/ ReadLoop \/ PeekLoop \/ PushLoop
         \/ StoreReadIndex("read") \/ StoreReadIndex("push") \/ PeekReturn
         \/ Flush
  BY DEF Next

(* WriteArg: what fifo_write is given is a sequence of at most Size bytes. *)
LEMMA WriteArg ==
  ASSUME NEW d \in Writes
  PROVE  \E m \in 0 .. Size : d \in [1 .. m -> Val] /\ Len(d) = m
<1>1. PICK m \in 0 .. Size : d \in [1 .. m -> Val]
  BY DEF Writes
<1>2. m \in Nat
  BY <1>1, SizeNat
<1>3. Len(d) = m
  BY <1>1, <1>2
<1> QED BY <1>1, <1>3

(* EmptyWrite: the empty sequence is one of them. *)
LEMMA EmptyWrite == << >> \in Writes
<1>1. << >> \in [1 .. 0 -> Val]
  OBVIOUS
<1>2. 0 \in 0 .. Size
  BY SizeNat
<1> QED BY <1>1, <1>2 DEF Writes

(* ZeroIdx: zero is an index and a size. *)
LEMMA ZeroIdx == 0 \in Idx /\ 0 \in 0 .. Size
  BY SizeNat DEF Idx

(* TypeInvariant: no loop of fifo.c, whatever the size of the ring and of  *)
(* the call, indexes outside the storage or leaves an index out of range.  *)
THEOREM TypeInvariant == Spec => []TypeOK
<1>1. Init => TypeOK
  BY ZeroIdx, EmptyWrite, ZeroAssumption DEF Init, TypeOK, FifoInit, FifoType
<1>2. TypeOK /\ [Next]_vars => TypeOK'
  <2> SUFFICES ASSUME TypeOK, [Next]_vars
               PROVE  TypeOK'
    OBVIOUS
  <2>F. /\ fifo \in FifoType /\ fifo.read_index \in Idx /\ fifo.write_index \in Idx
        /\ fifo.buffer \in [Idx -> Val]
    BY DEF TypeOK, FifoType
  <2>I. Inc(lr) \in Idx /\ Inc(lw) \in Idx
    BY IncStep DEF TypeOK
  <2>1. ASSUME NEW d \in Writes, WriteCall(d)
        PROVE  TypeOK'
    BY <2>1, <2>F DEF WriteCall, Call, CopyIndices, TypeOK
  <2>2. CASE WriteLoop
    <3>1. PICK m \in 0 .. Size : data \in [1 .. m -> Val] /\ Len(data) = m
      BY WriteArg DEF TypeOK
    <3>2. n + 1 \in 1 .. m /\ n + 1 \in 0 .. Size
      BY <2>2, <3>1, SizeNat DEF WriteLoop, TypeOK
    <3>3. data[n + 1] \in Val
      BY <3>1, <3>2
    <3>4. fifo' \in FifoType
      BY <2>2, <2>F, <3>3 DEF WriteLoop, FifoType
    <3> QED BY <2>2, <2>I, <3>2, <3>4 DEF WriteLoop, TypeOK
  <2>3. CASE WriteReturn
    <3>1. fifo' \in FifoType
      BY <2>3, <2>F DEF WriteReturn, TypeOK, FifoType
    <3> QED BY <2>3, <3>1, ZeroIdx, EmptyWrite DEF WriteReturn, Return, TypeOK
  <2>4. ASSUME NEW k \in 0 .. Size, ReadCall(k)
        PROVE  TypeOK'
    BY <2>4, <2>F DEF ReadCall, Call, CopyIndices, TypeOK
  <2>5. ASSUME NEW k \in 0 .. Size, PushCall(k)
        PROVE  TypeOK'
    BY <2>5, <2>F DEF PushCall, Call, CopyIndices, TypeOK
  <2>6. ASSUME NEW k \in 0 .. Size, NEW size \in 0 .. Size, PeekCall(k, size)
        PROVE  TypeOK'
    <3>1. AtMost(k, size) \in 0 .. Size
      BY DEF AtMost
    <3> QED BY <2>6, <2>F, <3>1 DEF PeekCall, Call, CopyIndices, TypeOK
  <2>7. ASSUME ReadLoop \/ PeekLoop
        PROVE  TypeOK'
    <3>1. n + 1 \in 0 .. Size
      BY <2>7, SizeNat DEF ReadLoop, PeekLoop, More, TypeOK
    <3>2. Append(got, fifo.buffer[lr]) \in Seq(Val)
      BY <2>F, AppendProperties DEF TypeOK
    <3> QED BY <2>7, <2>I, <3>1, <3>2 DEF ReadLoop, PeekLoop, TypeOK
  <2>8. CASE PushLoop
    <3>1. n + 1 \in 0 .. Size
      BY <2>8, SizeNat DEF PushLoop, More, TypeOK
    <3> QED BY <2>8, <2>I, <3>1 DEF PushLoop, TypeOK
  <2>9. ASSUME NEW loop, StoreReadIndex(loop)
        PROVE  TypeOK'
    <3>1. fifo' \in FifoType
      BY <2>9, <2>F DEF StoreReadIndex, TypeOK, FifoType
    <3> QED BY <2>9, <3>1, ZeroIdx, EmptyWrite DEF StoreReadIndex, Return, TypeOK
  <2>10. CASE PeekReturn
    BY <2>10, ZeroIdx, EmptyWrite DEF PeekReturn, Return, TypeOK
  <2>11. CASE Flush
    <3>1. fifo' \in FifoType
      BY <2>11, <2>F DEF Flush, FifoFlushUnread, FifoType
    <3> QED BY <2>11, <3>1 DEF Flush, locals, TypeOK
  <2>12. CASE UNCHANGED vars
    BY <2>12 DEF vars, locals, TypeOK
  <2> QED BY <2>1, <2>2, <2>3, <2>4, <2>5, <2>6, <2>7, <2>8, <2>9, <2>10, <2>11, <2>12, CallSteps
<1> QED BY <1>1, <1>2, PTL DEF Spec

(* LoopInvariant: a running loop is where its iteration count says, and    *)
(* the stored indices are those the call found.                            *)
THEOREM LoopInvariant == Spec => []LoopInv
<1>1. Init => LoopInv
  BY DEF Init, LoopInv
<1>2. TypeOK /\ LoopInv /\ [Next]_vars => LoopInv'
  <2> SUFFICES ASSUME TypeOK, LoopInv, [Next]_vars
               PROVE  LoopInv'
    OBVIOUS
  <2>T. /\ fifo.read_index \in Idx /\ fifo.write_index \in Idx /\ fifo.buffer \in [Idx -> Val]
        /\ start.read_index \in Idx /\ start.write_index \in Idx
        /\ lr \in Idx /\ lw \in Idx /\ n \in Nat /\ dist \in Nat
        /\ BytesAvailable(start) \in 0 .. Size - 1
    <3>1. /\ fifo.read_index \in Idx /\ fifo.write_index \in Idx /\ fifo.buffer \in [Idx -> Val]
          /\ start.read_index \in Idx /\ start.write_index \in Idx
      BY DEF TypeOK, FifoType
    <3>2. lr \in Idx /\ lw \in Idx /\ n \in Nat /\ dist \in Nat
      BY SizeNat DEF TypeOK
    <3>3. BytesAvailable(start) \in 0 .. Size - 1
      BY <3>1, DistanceType DEF BytesAvailable
    <3> QED BY <3>1, <3>2, <3>3
  <2>0. \A i \in Idx : (i + 0) % Size = i
    <3> TAKE i \in Idx
    <3>1. (i + 0) % Size = IF i + 0 < Size THEN i + 0 ELSE i + 0 - Size
      BY ModOnce, ZeroIdx
    <3> QED BY <3>1, SizeNat DEF Idx
  <2>1. ASSUME NEW d \in Writes, WriteCall(d)
        PROVE  LoopInv'
    <3>1. pc = "ready" /\ pc' = "write" /\ fifo' = fifo /\ start' = start /\ start = fifo
          /\ data' = d /\ n' = 0 /\ dist' = 0 /\ got' = << >>
          /\ lr' = fifo.read_index /\ lw' = fifo.write_index
      BY <2>1 DEF WriteCall, Call, CopyIndices, LoopInv
    <3>2. Len(d) \in Nat
      BY WriteArg, SizeNat
    <3>3. \A i \in Idx : fifo'.buffer[i] = WrittenByte(i)'
      <4> SUFFICES ASSUME NEW i \in Idx
                   PROVE  fifo'.buffer[i] = WrittenByte(i)'
        OBVIOUS
      <4>1. ~(Distance(start.write_index, i) < 0)
        BY <2>T, DistanceType
      <4> QED BY <3>1, <4>1 DEF WrittenByte
    <3>4. BytesAvailable(start') + n' < Size
      BY <2>T, <3>1, SizeNat
    <3>5. Written'
      BY <2>T, <2>0, <3>1, <3>2, <3>3, <3>4 DEF Written
    <3> QED BY <3>1, <3>5 DEF LoopInv
  <2>2. CASE WriteLoop
    <3>1. /\ pc = "write" /\ pc' = "write" /\ n < Len(data) /\ Written /\ got' = got /\ dist' = dist
          /\ data' = data /\ start' = start /\ n' = n + 1 /\ lw' = Inc(lw)
          /\ lr' = IF Inc(lw) = lr THEN Inc(lr) ELSE lr
          /\ fifo' = [fifo EXCEPT !.buffer[lw] = data[n + 1]]
          /\ got = << >> /\ dist = 0
      BY <2>2 DEF WriteLoop, LoopInv
    <3>2. PICK m \in 0 .. Size : data \in [1 .. m -> Val] /\ Len(data) = m
      BY WriteArg DEF TypeOK
    <3>3. n \in 0 .. Size - 1 /\ n + 1 <= Len(data)
      BY <2>T, <3>1, <3>2, SizeNat
    <3>4. lw' = (start.write_index + (n + 1)) % Size
      BY <2>T, <3>1, <3>3, IncWalk DEF Written
    <3>5. Distance(start.write_index, lw) = n
      BY <2>T, <3>1, <3>3, DistanceLands DEF Written
    <3>6. \A i \in Idx : fifo'.buffer[i] = WrittenByte(i)'
      <4> SUFFICES ASSUME NEW i \in Idx
                   PROVE  fifo'.buffer[i] = WrittenByte(i)'
        OBVIOUS
      <4>1. WrittenByte(i)' = IF Distance(start.write_index, i) < n + 1
                              THEN data[Distance(start.write_index, i) + 1] ELSE start.buffer[i]
        BY <3>1 DEF WrittenByte
      <4>2. Distance(start.write_index, i) \in Nat
        BY <2>T, DistanceType, SizeNat
      <4>3. CASE i = lw
        <5>1. fifo'.buffer[i] = data[n + 1]
          BY <2>T, <3>1, <4>3
        <5>2. Distance(start.write_index, i) = n
          BY <3>5, <4>3
        <5> QED BY <2>T, <4>1, <5>1, <5>2
      <4>4. CASE i # lw
        <5>1. fifo'.buffer[i] = WrittenByte(i)
          BY <2>T, <3>1, <4>4 DEF Written
        <5>2. Distance(start.write_index, i) # n
          BY <2>T, <3>1, <3>3, <4>4, DistanceLands DEF Written
        <5>3. Distance(start.write_index, i) < n + 1 <=> Distance(start.write_index, i) < n
          BY <2>T, <4>2, <5>2
        <5> QED BY <4>1, <5>1, <5>3 DEF WrittenByte
      <4> QED BY <4>3, <4>4
    <3>7. lr' = IF BytesAvailable(start) + (n + 1) < Size THEN start.read_index ELSE Inc(lw')
      <4> DEFINE a == BytesAvailable(start)
      <4>1. Inc(lw) \in Idx
        BY <2>T, IncStep
      <4>2. a = Distance(start.read_index, start.write_index)
        BY DEF BytesAvailable
      <4>3. CASE a + n < Size
        <5>1. lr = start.read_index
          BY <3>1, <4>3 DEF Written
        <5>2. Distance(lr, lw) = a + n
          BY <2>T, <3>5, <4>2, <4>3, <5>1, DistanceAdd
        <5>3. Inc(lw) = lr <=> a + n = Size - 1
          BY <2>T, <5>2, DistanceInc
        <5> HIDE DEF a
        <5>4. a + n = Size - 1 <=> ~(a + (n + 1) < Size)
          BY <2>T, <4>3, SizeNat DEF a
        <5> QED BY <3>1, <5>1, <5>3, <5>4 DEF a
      <4>4. CASE ~(a + n < Size)
        <5>1. lr = Inc(lw)
          BY <3>1, <4>4 DEF Written
        <5>2. ~(a + (n + 1) < Size)
          BY <2>T, <4>4, SizeNat
        <5> QED BY <3>1, <5>1, <5>2
      <4> QED BY <4>3, <4>4
    <3>8. /\ fifo'.read_index = start'.read_index /\ fifo'.write_index = start'.write_index
      BY <3>1, <2>T DEF Written, TypeOK, FifoType
    <3>9. Written'
      BY <3>1, <3>3, <3>4, <3>6, <3>7, <3>8 DEF Written
    <3> QED BY <3>1, <3>9 DEF LoopInv
  <2>3. ASSUME WriteReturn \/ PeekReturn
        PROVE  LoopInv'
    BY <2>3 DEF WriteReturn, PeekReturn, Return, LoopInv
  <2>4. ASSUME NEW k \in 0 .. Size, NEW size \in 0 .. Size,
               ReadCall(k) \/ PushCall(k) \/ PeekCall(k, size)
        PROVE  LoopInv'
    <3>1. /\ pc = "ready" /\ pc' \in {"read", "push", "peek"} /\ fifo' = fifo /\ start' = start
          /\ start = fifo /\ n' = 0 /\ dist' \in Nat /\ got' = << >>
          /\ lr' = fifo.read_index /\ lw' = fifo.write_index
      BY <2>4, SizeNat DEF ReadCall, PushCall, PeekCall, Call, CopyIndices, AtMost, LoopInv
    <3>2. Walked'
      BY <2>T, <2>0, <3>1 DEF Walked
    <3> QED BY <3>1, <3>2 DEF LoopInv
  <2>5. ASSUME ReadLoop \/ PeekLoop \/ PushLoop
        PROVE  LoopInv'
    <3>1. /\ pc \in {"read", "push", "peek"} /\ pc' = pc /\ fifo' = fifo /\ start' = start
          /\ n' = n + 1 /\ lr' = Inc(lr) /\ lw' = lw /\ dist' = dist /\ n < dist /\ lr # lw
          /\ fifo = start /\ Walked /\ (pc = "push" => got' = << >>)
      BY <2>5 DEF ReadLoop, PeekLoop, PushLoop, More, LoopInv
    <3>2. n < BytesAvailable(start)
      <4>1. n # BytesAvailable(start)
        BY <2>T, <3>1, DistanceLands DEF Walked, BytesAvailable
      <4> QED BY <2>T, <3>1, <4>1 DEF Walked
    <3>3. n \in 0 .. Size - 1
      BY <2>T, <3>2, SizeNat
    <3>4. lr' = (start.read_index + (n + 1)) % Size
      BY <2>T, <3>1, <3>3, IncWalk DEF Walked
    <3>5. Walked'
      BY <2>T, <3>1, <3>2, <3>4 DEF Walked
    <3> QED BY <3>1, <3>5 DEF LoopInv
  <2>6. ASSUME NEW loop, StoreReadIndex(loop)
        PROVE  LoopInv'
    BY <2>6 DEF StoreReadIndex, Return, LoopInv
  <2>7. CASE Flush
    BY <2>7 DEF Flush, locals, LoopInv
  <2>8. CASE UNCHANGED vars
    BY <2>8 DEF vars, locals, LoopInv, Written, WrittenByte, Walked
  <2> QED BY <2>1, <2>2, <2>3, <2>4, <2>5, <2>6, <2>7, <2>8, CallSteps, ZeroIdx
<1> QED BY <1>1, <1>2, TypeInvariant, PTL DEF Spec

(* FifoEqual: two fifos with equal fields are the same fifo. *)
LEMMA FifoEqual ==
  ASSUME NEW f \in FifoType, NEW g \in FifoType,
         f.read_index = g.read_index, f.write_index = g.write_index,
         \A i \in Idx : f.buffer[i] = g.buffer[i]
  PROVE  f = g
<1>1. f.buffer = g.buffer
  BY DEF FifoType
<1> QED BY <1>1 DEF FifoType

(* ClosedForm: a finished fifo_write or fifo_push_read_index has done what *)
(* Fifo's closed form says, for every ring size, position and length.      *)
THEOREM ClosedForm == Spec => LoopIsClosedForm
<1> DEFINE Step == /\ (pc = "write" /\ pc' = "ready") => fifo' = FifoWrite(start, data)
                   /\ (pc = "push" /\ pc' = "ready")  => fifo' = FifoPushReadIndex(start, dist)
<1>1. TypeOK /\ TypeOK' /\ LoopInv /\ [Next]_vars => [Step]_vars
  <2> SUFFICES ASSUME TypeOK, TypeOK', LoopInv, Next
               PROVE  Step
    OBVIOUS
  <2>T. /\ start.read_index \in Idx /\ start.write_index \in Idx
        /\ start \in FifoType /\ fifo \in FifoType /\ fifo' \in FifoType
        /\ n \in Nat /\ dist \in Nat /\ BytesAvailable(start) \in 0 .. Size - 1
    <3>1. /\ start.read_index \in Idx /\ start.write_index \in Idx
          /\ start \in FifoType /\ fifo \in FifoType /\ fifo' \in FifoType
      BY DEF TypeOK, FifoType
    <3>2. n \in Nat /\ dist \in Nat
      BY SizeNat DEF TypeOK
    <3>3. BytesAvailable(start) \in 0 .. Size - 1
      BY <3>1, DistanceType DEF BytesAvailable
    <3> QED BY <3>1, <3>2, <3>3
  <2>1. CASE WriteReturn
    <3>1. /\ pc = "write" /\ n = Len(data) /\ Written
          /\ fifo' = [fifo EXCEPT !.write_index = lw, !.read_index = lr]
      BY <2>1 DEF WriteReturn, LoopInv
    <3>2. PICK m \in 0 .. Size : data \in [1 .. m -> Val] /\ Len(data) = m
      BY WriteArg DEF TypeOK
    <3> DEFINE g == FifoWrite(start, data)
    <3>3. g \in FifoType
      BY <2>T, <3>2, WriteType
    <3>4. fifo'.write_index = g.write_index /\ fifo'.read_index = g.read_index
      BY <2>T, <3>1 DEF Written, FifoWrite, FifoType
    <3>5. \A i \in Idx : fifo'.buffer[i] = g.buffer[i]
      BY <2>T, <3>1 DEF Written, WrittenByte, FifoWrite, FifoType
    <3> HIDE DEF g
    <3>6. fifo' = g
      BY <2>T, <3>3, <3>4, <3>5, FifoEqual
    <3> QED BY <3>1, <3>6 DEF g
  <2>2. CASE StoreReadIndex("push")
    <3>1. /\ pc = "push" /\ ~More /\ Walked /\ fifo = start
          /\ fifo' = [fifo EXCEPT !.read_index = lr]
      BY <2>2 DEF StoreReadIndex, LoopInv
    <3>2. lr = lw => n = BytesAvailable(start)
      <4>1. n \in 0 .. Size - 1
        BY <2>T, <3>1, SizeNat DEF Walked
      <4> QED BY <2>T, <3>1, <4>1, DistanceLands DEF Walked, BytesAvailable
    <3>3. n = AtMost(dist, BytesAvailable(start))
      BY <2>T, <3>1, <3>2 DEF Walked, More, AtMost
    <3> QED BY <2>T, <3>1, <3>3 DEF Walked, FifoPushReadIndex
  <2>3. pc = "write" /\ pc' = "ready" => WriteReturn
    BY CallSteps DEF WriteCall, WriteLoop, WriteReturn, ReadCall, PushCall, PeekCall, Call,
       ReadLoop, PeekLoop, PushLoop, StoreReadIndex, PeekReturn, Flush
  <2>4. pc = "push" /\ pc' = "ready" => StoreReadIndex("push")
    BY CallSteps DEF WriteCall, WriteLoop, WriteReturn, ReadCall, PushCall, PeekCall, Call,
       ReadLoop, PeekLoop, PushLoop, StoreReadIndex, PeekReturn, Flush
  <2> QED BY <2>1, <2>2, <2>3, <2>4
<1> QED BY <1>1, TypeInvariant, LoopInvariant, PTL DEF Spec, LoopIsClosedForm

(* RingIsQueue: for every ring size, every iteration of a loop of fifo.c   *)
(* puts, takes or drops one byte of a lossy queue of Size - 1 bytes, and   *)
(* nothing else the code does is visible there.                            *)
THEOREM RingIsQueue == Spec => ImplementsQueue
<1> DEFINE handed == IF pc = "read" THEN got ELSE << >>
<1> HIDE DEF handed
<1>0. ASSUME NEW b \in [Idx -> Val], NEW i \in Idx
      PROVE  Between(b, i, i) = << >>
  <2>1. Distance(i, i) = 0
    BY DistanceType
  <2>2. Between(b, i, i) \in Seq(Val) /\ Len(Between(b, i, i)) = 0
    BY <2>1, BetweenSeq
  <2> QED BY <2>2, EmptySeq
<1>1. Init => LQ!Init
  <2> SUFFICES ASSUME Init PROVE Contents = << >> /\ handed = << >>
    BY DEF LQ!Init, handed
  <2>1. pc = "ready" /\ fifo.read_index = 0 /\ fifo.write_index = 0 /\ fifo.buffer \in [Idx -> Val]
    BY ZeroAssumption DEF Init, FifoInit
  <2> QED BY <1>0, <2>1, ZeroIdx DEF Contents, From, To, Moving, handed
<1>2. TypeOK /\ LoopInv /\ [Next]_vars => [LQ!Next]_<<Contents, handed>>
  <2> SUFFICES ASSUME TypeOK, LoopInv, [Next]_vars
               PROVE  [LQ!Next]_<<Contents, handed>>
    OBVIOUS
  <2>T. /\ fifo.read_index \in Idx /\ fifo.write_index \in Idx /\ fifo.buffer \in [Idx -> Val]
        /\ fifo \in FifoType /\ lr \in Idx /\ lw \in Idx
    BY DEF TypeOK, FifoType
  <2>S. ASSUME UNCHANGED <<Contents, handed>>
        PROVE  [LQ!Next]_<<Contents, handed>>
    BY <2>S
  <2>1. ASSUME NEW d \in Writes, NEW k, NEW size,
               WriteCall(d) \/ ReadCall(k) \/ PushCall(k) \/ PeekCall(k, size)
        PROVE  UNCHANGED <<Contents, handed>>
    <3>1. /\ pc = "ready" /\ pc' \in {"write", "read", "push", "peek"} /\ fifo' = fifo
          /\ lr' = fifo.read_index /\ lw' = fifo.write_index /\ got' = << >> /\ got = << >>
      BY <2>1 DEF WriteCall, ReadCall, PushCall, PeekCall, Call, CopyIndices, LoopInv
    <3> QED BY <3>1 DEF Contents, From, To, Moving, handed
  <2>2. CASE WriteLoop
    <3>1. /\ pc = "write" /\ pc' = "write" /\ n < Len(data) /\ lw' = Inc(lw)
          /\ lr' = IF Inc(lw) = lr THEN Inc(lr) ELSE lr
          /\ fifo'.buffer = [fifo.buffer EXCEPT ![lw] = data[n + 1]]
      BY <2>2, <2>T DEF WriteLoop, FifoType
    <3>2. data[n + 1] \in Val
      <4>1. PICK m \in 0 .. Size : data \in [1 .. m -> Val] /\ Len(data) = m
        BY WriteArg DEF TypeOK
      <4>2. n + 1 \in 1 .. m
        BY <3>1, <4>1, SizeNat DEF TypeOK
      <4> QED BY <4>1, <4>2
    <3> DEFINE v == data[n + 1]
    <3>3. Contents = Between(fifo.buffer, lr, lw)
      BY <3>1 DEF Contents, From, To, Moving
    <3>4. Contents' = Between([fifo.buffer EXCEPT ![lw] = v], lr', Inc(lw))
      BY <3>1 DEF Contents, From, To, Moving
    <3>5. Len(Contents) = Distance(lr, lw)
      <4>1. Len(Between(fifo.buffer, lr, lw)) = Distance(lr, lw)
        BY <2>T, BetweenSeq
      <4> QED BY <3>3, <4>1
    <3>6. Distance(lr, lw) \in 0 .. Size - 1
      BY <2>T, DistanceType
    <3>7. Inc(lw) = lr <=> Distance(lr, lw) = Size - 1
      BY <2>T, DistanceInc
    <3>8. handed' = handed
      BY <3>1 DEF handed
    <3> HIDE DEF v
    <3>9. v \in Val
      BY <3>2 DEF v
    <3>10. CASE Inc(lw) = lr
      <4>1. Contents' = Append(Tail(Contents), v)
        <5>1. Between([fifo.buffer EXCEPT ![lw] = v], Inc(lr), Inc(lw))
                = Append(Tail(Between(fifo.buffer, lr, lw)), v)
          BY <2>T, <3>9, <3>10, BetweenPut
        <5> QED BY <3>1, <3>3, <3>4, <3>10, <5>1
      <4>2. ~(Len(Contents) < Size - 1)
        BY <3>5, <3>6, <3>7, <3>10, SizeNat
      <4> QED BY <3>8, <3>9, <4>1, <4>2 DEF LQ!Next, LQ!Put, handed
    <3>11. CASE Inc(lw) # lr
      <4>1. Contents' = Append(Contents, v)
        <5>1. Between([fifo.buffer EXCEPT ![lw] = v], lr, Inc(lw))
                = Append(Between(fifo.buffer, lr, lw), v)
          BY <2>T, <3>9, <3>11, BetweenPut
        <5> QED BY <3>1, <3>3, <3>4, <3>11, <5>1
      <4>2. Len(Contents) < Size - 1
        BY <3>5, <3>6, <3>7, <3>11, SizeNat
      <4> QED BY <3>8, <3>9, <4>1, <4>2 DEF LQ!Next, LQ!Put, handed
    <3> QED BY <3>10, <3>11
  <2>3. CASE WriteReturn
    <3>1. /\ pc = "write" /\ pc' = "ready" /\ fifo'.read_index = lr /\ fifo'.write_index = lw
          /\ fifo'.buffer = fifo.buffer
      BY <2>3, <2>T DEF WriteReturn, Return, FifoType
    <3> QED BY <3>1 DEF Contents, From, To, Moving, handed
  <2>4. CASE ReadLoop
    <3>1. /\ pc = "read" /\ pc' = "read" /\ lr # lw /\ lr' = Inc(lr) /\ lw' = lw /\ fifo' = fifo
          /\ got' = Append(got, fifo.buffer[lr])
      BY <2>4 DEF ReadLoop, More
    <3>2. Contents = Between(fifo.buffer, lr, lw) /\ Contents' = Between(fifo.buffer, Inc(lr), lw)
      BY <3>1 DEF Contents, From, To, Moving
    <3>3. Contents # << >> /\ Head(Contents) = fifo.buffer[lr] /\ Contents' = Tail(Contents)
      BY <2>T, <3>1, <3>2, BetweenTake
    <3>4. handed' = Append(handed, Head(Contents))
      BY <3>1, <3>3 DEF handed
    <3> QED BY <3>3, <3>4 DEF LQ!Next, LQ!Take, handed
  <2>5. CASE PushLoop
    <3>1. /\ pc = "push" /\ pc' = "push" /\ lr # lw /\ lr' = Inc(lr) /\ lw' = lw /\ fifo' = fifo
      BY <2>5 DEF PushLoop, More
    <3>2. Contents = Between(fifo.buffer, lr, lw) /\ Contents' = Between(fifo.buffer, Inc(lr), lw)
      BY <3>1 DEF Contents, From, To, Moving
    <3>3. Contents # << >> /\ Contents' = Tail(Contents)
      BY <2>T, <3>1, <3>2, BetweenTake
    <3>4. handed' = handed
      BY <3>1 DEF handed
    <3> QED BY <3>3, <3>4 DEF LQ!Next, LQ!Drop, handed
  <2>6. CASE StoreReadIndex("read") \/ StoreReadIndex("push")
    <3>1. /\ pc \in {"read", "push"} /\ pc' = "ready" /\ fifo'.read_index = lr /\ got' = << >>
          /\ fifo'.write_index = fifo.write_index /\ fifo'.buffer = fifo.buffer
      BY <2>6, <2>T DEF StoreReadIndex, Return, FifoType
    <3>2. lw = fifo.write_index
      BY <3>1 DEF LoopInv, Walked
    <3>3. Contents' = Contents
      BY <3>1, <3>2 DEF Contents, From, To, Moving
    <3>4. handed' = << >>
      BY <3>1 DEF handed
    <3> QED BY <3>3, <3>4 DEF LQ!Next, LQ!Open, handed
  <2>7. CASE PeekLoop \/ PeekReturn
    <3>1. /\ pc = "peek" /\ pc' \in {"peek", "ready"} /\ fifo' = fifo
      BY <2>7 DEF PeekLoop, PeekReturn, Return
    <3> QED BY <3>1 DEF Contents, From, To, Moving, handed
  <2>8. CASE Flush
    <3>1. /\ pc = "ready" /\ pc' = "ready" /\ fifo'.read_index = fifo.write_index
          /\ fifo'.write_index = fifo.write_index /\ fifo'.buffer = fifo.buffer
      BY <2>8, <2>T DEF Flush, locals, FifoFlushUnread, FifoType
    <3>2. Contents' = << >>
      BY <1>0, <2>T, <3>1 DEF Contents, From, To, Moving
    <3>3. handed' = handed
      BY <3>1 DEF handed
    <3> QED BY <3>2, <3>3 DEF LQ!Next, LQ!Clear, handed
  <2>9. CASE UNCHANGED vars
    BY <2>9 DEF vars, locals, Contents, From, To, Moving, handed
  <2> QED BY <2>1, <2>2, <2>3, <2>4, <2>5, <2>6, <2>7, <2>8, <2>9, CallSteps, EmptyWrite
<1> QED BY <1>1, <1>2, TypeInvariant, LoopInvariant, PTL DEF Spec, ImplementsQueue, LQ!Spec, handed

(* A peek has copied, in order, the oldest of the bytes that were unread   *)
(* when it began.                                                          *)
Peeked ==
  pc = "peek" =>
    Len(got) = n /\ \A k \in 1 .. n : got[k] = start.buffer[(start.read_index + (k - 1)) % Size]

(* PeekedInvariant: it stays so from one iteration to the next.            *)
LEMMA PeekedInvariant == Spec => []Peeked
<1>1. Init => Peeked
  BY DEF Init, Peeked
<1>2. TypeOK /\ LoopInv /\ Peeked /\ [Next]_vars => Peeked'
  <2> SUFFICES ASSUME TypeOK, LoopInv, Peeked, [Next]_vars, pc' = "peek" PROVE Peeked'
    BY DEF Peeked
  <2>1. ASSUME NEW k, NEW size, PeekCall(k, size)
        PROVE  Peeked'
    <3>1. n' = 0 /\ got' = << >>
      BY <2>1 DEF PeekCall, Call, LoopInv
    <3> QED BY <3>1 DEF Peeked
  <2>2. CASE PeekLoop
    <3>1. /\ pc = "peek" /\ fifo = start /\ Walked /\ start' = start
          /\ n' = n + 1 /\ got' = Append(got, fifo.buffer[lr])
      BY <2>2 DEF PeekLoop, LoopInv
    <3>2. got \in Seq(Val) /\ fifo.buffer[lr] \in Val /\ n \in Nat
      BY SizeNat DEF TypeOK, FifoType
    <3>3. PICK v \in Val : v = fifo.buffer[lr] /\ v = start.buffer[(start.read_index + n) % Size]
      BY <3>1, <3>2 DEF Walked
    <3>4. Len(got) = n /\ \A k \in 1 .. n : got[k] = start.buffer[(start.read_index + (k - 1)) % Size]
      BY <3>1 DEF Peeked
    <3>5. Len(got') = n + 1 /\ got'[n + 1] = v /\ \A k \in 1 .. n : got'[k] = got[k]
      BY <3>1, <3>2, <3>3, <3>4, AppendProperties
    <3>6. ASSUME NEW k \in 1 .. n + 1
          PROVE  got'[k] = start.buffer[(start.read_index + (k - 1)) % Size]
      <4>1. CASE k \in 1 .. n
        BY <3>4, <3>5, <4>1
      <4>2. CASE k = n + 1
        <5>1. k - 1 = n
          BY <3>2, <4>2
        <5> QED BY <3>3, <3>5, <4>2, <5>1
      <4> QED BY <3>2, <4>1, <4>2
    <3> QED BY <3>1, <3>5, <3>6 DEF Peeked
  <2>3. CASE UNCHANGED vars
    BY <2>3 DEF vars, locals, Peeked
  <2> QED BY <2>1, <2>2, <2>3, CallSteps DEF WriteCall, WriteLoop, WriteReturn, ReadCall, PushCall, Call,
             ReadLoop, PushLoop, StoreReadIndex, PeekReturn, Return, Flush, locals
<1> QED BY <1>1, <1>2, TypeInvariant, LoopInvariant, PTL DEF Spec

(* PeekSeesUnread: what fifo_peek shows is unread and at its distance.     *)
LEMMA PeekSeesUnread ==
  ASSUME NEW f \in FifoType, NEW d \in 0 .. Size, FifoPeek(f, d) # Zero
  PROVE  d < BytesAvailable(f) /\ FifoPeek(f, d) = Unread(f)[d + 1]
<1>1. f.read_index \in Idx /\ f.write_index \in Idx
  BY DEF FifoType
<1>2. f.read_index + d < f.write_index /\ FifoPeek(f, d) = f.buffer[f.read_index + d]
  BY <1>1, SizeNat DEF FifoPeek, Idx
<1>3. /\ Distance(f.read_index, f.write_index) = f.write_index - f.read_index
      /\ d + 1 \in 1 .. Distance(f.read_index, f.write_index) /\ (d + 1) - 1 = d
  BY <1>1, <1>2, SizeNat DEF Distance, Idx
<1>4. (f.read_index + d) % Size = f.read_index + d
  <2>1. (f.read_index + d) % Size = IF f.read_index + d < Size THEN f.read_index + d
                                    ELSE f.read_index + d - Size
    BY <1>1, ModOnce
  <2>2. f.read_index + d < Size
    BY <1>1, <1>2, SizeNat DEF Idx
  <2> QED BY <2>1, <2>2
<1>5. Unread(f)[d + 1] = f.buffer[(f.read_index + ((d + 1) - 1)) % Size]
  BY <1>3 DEF Unread, Between
<1>6. Unread(f)[d + 1] = f.buffer[(f.read_index + d) % Size]
  BY <1>3, <1>5, Zenon
<1>7. d < BytesAvailable(f)
  BY <1>1, <1>2, <1>3, SizeNat DEF BytesAvailable, Idx
<1> QED BY <1>2, <1>4, <1>6, <1>7, Zenon

(* PeeksForetell: fifo_peek_continuous hands out, for every ring size,     *)
(* position and length, exactly what a fifo_read would, and leaves the     *)
(* ring alone; fifo_peek shows an unread byte or none.                     *)
THEOREM PeeksForetell == Spec => PeekForetellsRead
<1> DEFINE Copies == (pc = "peek" /\ pc' = "ready") =>
                       /\ got = SubSeq(Unread(start), 1, AtMost(dist, BytesAvailable(start)))
                       /\ fifo' = start
           Shows == pc = "ready" =>
                      \A d \in 0 .. Size :
                        FifoPeek(fifo, d) # Zero =>
                          d < BytesAvailable(fifo) /\ FifoPeek(fifo, d) = Unread(fifo)[d + 1]
<1>1. TypeOK => Shows
  BY PeekSeesUnread DEF TypeOK
<1>2. TypeOK /\ LoopInv /\ Peeked /\ Next => Copies
  <2> SUFFICES ASSUME TypeOK, LoopInv, Peeked, Next, pc = "peek", pc' = "ready"
               PROVE  /\ got = SubSeq(Unread(start), 1, AtMost(dist, BytesAvailable(start)))
                      /\ fifo' = start
    OBVIOUS
  <2>1. PeekReturn
    BY CallSteps DEF WriteCall, WriteLoop, WriteReturn, ReadCall, PushCall, PeekCall, Call,
       ReadLoop, PeekLoop, PushLoop, StoreReadIndex, Flush
  <2>2. ~More /\ Walked /\ fifo' = fifo /\ fifo = start
    BY <2>1 DEF PeekReturn, LoopInv
  <2>3. /\ start.read_index \in Idx /\ start.write_index \in Idx /\ start.buffer \in [Idx -> Val]
        /\ n \in Nat /\ dist \in Nat /\ got \in Seq(Val)
    BY SizeNat DEF TypeOK, FifoType
  <2>4. BytesAvailable(start) \in 0 .. Size - 1
    BY <2>3, DistanceType DEF BytesAvailable
  <2>5. n = AtMost(dist, BytesAvailable(start))
    <3>1. lr = lw => n = BytesAvailable(start)
      <4>1. n \in 0 .. Size - 1
        BY <2>2, <2>3, <2>4, SizeNat DEF Walked
      <4> QED BY <2>2, <2>3, <4>1, DistanceLands DEF Walked, BytesAvailable
    <3> QED BY <2>2, <2>3, <2>4, <3>1 DEF Walked, More, AtMost
  <2>6. PICK u : u = Unread(start)
    OBVIOUS
  <2>7. /\ u \in Seq(Val) /\ Len(u) = BytesAvailable(start)
        /\ \A k \in 1 .. Len(u) : u[k] = start.buffer[(start.read_index + (k - 1)) % Size]
    BY <2>3, <2>6, BetweenSeq DEF Unread, Between, BytesAvailable
  <2>8. n <= Len(u) /\ Len(u) \in Nat
    BY <2>2, <2>4, <2>7, SizeNat DEF Walked
  <2>9. PICK s : s = SubSeq(u, 1, n)
    OBVIOUS
  <2>10. s \in Seq(Val) /\ Len(s) = n /\ \A k \in 1 .. n : s[k] = u[k]
    BY <2>3, <2>7, <2>8, <2>9
  <2>11. \A k \in 1 .. n : got[k] = s[k]
    BY <2>3, <2>7, <2>8, <2>10 DEF Peeked
  <2>12. got = s
    BY <2>3, <2>10, <2>11, SeqEqual DEF Peeked
  <2> QED BY <2>2, <2>5, <2>6, <2>9, <2>12
<1> HIDE DEF Copies, Shows
<1>3. TypeOK /\ LoopInv /\ Peeked /\ [Next]_vars => [Copies /\ Shows]_vars
  BY <1>1, <1>2
<1>4. (Copies /\ Shows) <=>
        /\ (pc = "peek" /\ pc' = "ready") =>
             /\ got = SubSeq(Unread(start), 1, AtMost(dist, BytesAvailable(start)))
             /\ fifo' = start
        /\ pc = "ready" =>
             \A d \in 0 .. Size :
               FifoPeek(fifo, d) # Zero =>
                 d < BytesAvailable(fifo) /\ FifoPeek(fifo, d) = Unread(fifo)[d + 1]
  BY DEF Copies, Shows
<1> QED BY <1>3, <1>4, TypeInvariant, LoopInvariant, PeekedInvariant, PTL DEF Spec, PeekForetellsRead

=============================================================================
