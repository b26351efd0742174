----------------------------- MODULE Uart_proofs -----------------------------
(***************************************************************************)
(* Both directions of a uart, for every ring size and every set of sizes   *)
(* written and read.                                                       *)
(*                                                                         *)
(* Transmitter, wherever the interrupt comes in: the state stays in range, *)
(* a transfer stays inside tx_buffer, and tx_busy covers it.  None of the  *)
(* three is inductive alone.  The range of tx_remaining needs that a       *)
(* transmitter that is not busy owes at most one lap; that needs tx_busy   *)
(* to be up whenever a stretch was started, and a second transfer is never *)
(* started over a first one only because tx_busy covers it.                *)
(*                                                                         *)
(* Transmitter, when nothing disturbs a write: the unread bytes are in the *)
(* transfer or counted, and the line is a reliable channel.  The argument  *)
(* numbers the bytes: the ring holds those between two counts, LedgerInv.  *)
(*                                                                         *)
(* Receiver: dma_buffer holds the last lap of what arrived, rx_fifo what   *)
(* was moved and not yet read, and a pending event owes what lies between  *)
(* dma_index and the position of the DMA, RxInv.                           *)
(***************************************************************************)
EXTENDS UartTx, UartRx, FifoLemmas

-----------------------------------------------------------------------------
(* The first m bytes of a channel, numbered in order. *)
Numbers(m) == [k \in 1 .. m |-> k]

(* NumbersExtend: numbering more bytes leaves the numbers of the others.   *)
LEMMA NumbersExtend ==
  ASSUME NEW a \in Nat, NEW b \in Nat, a <= b, 1 .. b \subseteq Val
  PROVE  /\ Numbers(b) \in Seq(Val) /\ Len(Numbers(b)) = b
         /\ SubSeq(Numbers(b), 1, a) = Numbers(a)
<1>1. Numbers(b) \in Seq(Val) /\ Len(Numbers(b)) = b /\ \A k \in 1 .. b : Numbers(b)[k] = k
  BY DEF Numbers
<1>2. Numbers(a) \in Seq(Val) /\ Len(Numbers(a)) = a /\ \A k \in 1 .. a : Numbers(a)[k] = k
  <2>1. 1 .. a \subseteq Val
    OBVIOUS
  <2> QED BY <2>1 DEF Numbers
<1>3. \A k \in 1 .. a : Numbers(b)[k] \in Val
  BY <1>1
<1> DEFINE s == SubSeq(Numbers(b), 1, a)
<1>4. s \in Seq(Val) /\ Len(s) = (IF 1 <= a THEN a - 1 + 1 ELSE 0)
      /\ \A k \in 1 .. a - 1 + 1 : s[k] = Numbers(b)[1 + k - 1]
  BY <1>3, SubSeqProperties
<1> HIDE DEF s
<1>5. Len(s) = a /\ \A k \in 1 .. a : s[k] = Numbers(a)[k]
  <2>1. Len(s) = a /\ a - 1 + 1 = a
    BY <1>4
  <2>2. ASSUME NEW k \in 1 .. a PROVE s[k] = Numbers(a)[k]
    <3>1. 1 + k - 1 = k /\ k \in 1 .. b
      OBVIOUS
    <3> QED BY <1>1, <1>2, <1>4, <2>1, <3>1
  <2> QED BY <2>1, <2>2
<1>6. s = Numbers(a)
  BY <1>2, <1>4, <1>5, SeqEqual
<1> QED BY <1>1, <1>6 DEF s

-----------------------------------------------------------------------------
(* The transmitter, wherever it is interrupted.                            *)

(* What a call still has to hand over is within the bound, and outside the *)
(* copying loop there is nothing left to copy.                             *)
Budget ==
  /\ accepted + left <= MaxBytes
  /\ pc \notin {"tested", "copy"} => left = 0

(* A transmitter that is not busy owes at most one lap, unless a write has *)
(* counted its bytes and still has to clamp the count: it compares what it *)
(* has stored, or what the interrupt has since left of that.               *)
OneLap ==
  /\ ~tx_busy /\ pc \notin {"comparing", "clamping"} => tx_remaining <= Size
  /\ pc = "comparing" => tx_remaining <= rem

IInv == TypeOK /\ DmaInBounds /\ BusyWhileActive /\ OneLap /\ Budget

(* TransmitStarts: from an idle channel HAL_UART_Transmit_DMA starts the   *)
(* transfer it is given unless that is empty, and one that ends within the *)
(* buffer stays within it.                                                 *)
LEMMA TransmitStarts ==
  ASSUME NEW d, NEW a \in Idx, NEW len \in 0 .. Size, a + len <= Size,
         d \in [active : BOOLEAN, addr : Idx, len : 0 .. Size, pos : 0 .. Size],
         ~d.active
  PROVE  LET t == Transmit(d, a, len)
         IN  /\ t \in [active : BOOLEAN, addr : Idx, len : 0 .. Size, pos : 0 .. Size]
             /\ t.active <=> len > 0
             /\ t.active => t.addr + t.len <= Size /\ t.pos <= t.len /\ t.len = len
<1>1. CASE len = 0
  BY <1>1, SizeNat DEF Transmit
<1>2. CASE len # 0
  <2>1. Transmit(d, a, len) = [active |-> TRUE, addr |-> a, len |-> len, pos |-> 0]
    BY <1>2 DEF Transmit
  <2>2. 0 \in 0 .. Size /\ len > 0
    BY <1>2, SizeNat
  <2> QED BY <2>1, <2>2, SizeNat DEF Idx
<1> QED BY <1>1, <1>2

(* IdleType: the channel as the HAL leaves it when a transfer is done.     *)
LEMMA IdleType ==
  Idle \in [active : BOOLEAN, addr : Idx, len : 0 .. Size, pos : 0 .. Size] /\ ~Idle.active
  BY SizeNat DEF Idle, Idx

(* StretchFits: from any read index at least one byte and at most a lap    *)
(* can be sent before the buffer ends.                                     *)
LEMMA StretchFits ==
  ASSUME NEW f \in FifoType
  PROVE  f.read_index \in Idx /\ BytesToEnd(f) \in 1 .. Size
         /\ f.read_index + BytesToEnd(f) = Size
  BY SizeNat DEF FifoType, Idx, BytesToEnd

(* InitInv: the invariant holds after uart_init. *)
LEMMA InitInv == Init => IInv
<1> SUFFICES ASSUME Init PROVE IInv
  OBVIOUS
<1>1. 0 \in Idx /\ 0 \in 0 .. Size /\ 0 \in 0 .. 3 * Size - 1 /\ 0 < 2 * Size /\ 0 \in 0 .. MaxBytes
  BY SizeNat, ByteNumbers DEF Idx
<1>2. fifo \in FifoType
  BY <1>1, ZeroAssumption DEF Init, FifoInit, FifoType
<1>3. dma \in [active : BOOLEAN, addr : Idx, len : 0 .. Size, pos : 0 .. Size] /\ ~dma.active
  BY IdleType DEF Init
<1>4. wire \in Seq(Val)
  BY DEF Init
<1>5. TypeOK
  BY <1>1, <1>2, <1>3, <1>4 DEF Init, TypeOK, Points
<1> QED BY <1>3, <1>5, SizeNat, ByteNumbers
        DEF Init, IInv, DmaInBounds, BusyWhileActive, OneLap, Budget

(* StartedIsBoolean: tx_busy as a comparison sets it.                      *)
LEMMA StartedIsBoolean ==
  ASSUME NEW m \in Nat, NEW busy, busy = (m > 0)
  PROVE  busy \in BOOLEAN /\ (m > 0 => busy)
<1>1. busy \in BOOLEAN
  OBVIOUS
<1>2. m > 0 => busy
  OBVIOUS
<1> QED BY <1>1, <1>2

(* StartKeeps: what a write and a callback have in common.  A stretch of   *)
(* tx_size' bytes is begun at the read index of a channel that is free.    *)
LEMMA StartKeeps ==
  ASSUME IInv, NEW d, NEW f \in FifoType,
         d \in [active : BOOLEAN, addr : Idx, len : 0 .. Size, pos : 0 .. Size],
         ~d.active,
         tx_size' \in 0 .. BytesToEnd(f),
         dma' = Transmit(d, f.read_index, tx_size'),
         tx_busy' \in BOOLEAN, tx_size' > 0 => tx_busy'
  PROVE  /\ dma' \in [active : BOOLEAN, addr : Idx, len : 0 .. Size, pos : 0 .. Size]
         /\ tx_size' \in 0 .. Size
         /\ DmaInBounds' /\ BusyWhileActive'
<1>1. f.read_index \in Idx /\ BytesToEnd(f) \in 1 .. Size /\ f.read_index + BytesToEnd(f) = Size
  BY StretchFits
<1>2. tx_size' \in 0 .. Size /\ f.read_index + tx_size' <= Size
  BY <1>1, SizeNat DEF Idx
<1>3. /\ dma' \in [active : BOOLEAN, addr : Idx, len : 0 .. Size, pos : 0 .. Size]
      /\ dma'.active <=> tx_size' > 0
      /\ dma'.active => dma'.addr + dma'.len <= Size /\ dma'.pos <= dma'.len /\ dma'.len = tx_size'
  BY <1>1, <1>2, TransmitStarts
<1> QED BY <1>2, <1>3 DEF DmaInBounds, BusyWhileActive

(* WriteIdleKeeps: a write while no transfer runs. *)
LEMMA WriteIdleKeeps ==
  ASSUME IInv, NEW size \in Nat, WriteIdle(size)
  PROVE  IInv'
<1> DEFINE ret == AtMost(size, Size)
           f == FifoWrite(fifo, NewBytes(ret))
<1>1. ret \in 0 .. Size
  BY SizeNat DEF AtMost
<1>2. accepted \in Nat /\ accepted + ret <= MaxBytes /\ left = 0 /\ pc = "ready" /\ ~tx_busy
  BY DEF WriteIdle, Fits, IInv, Budget, TypeOK
<1>3. NewBytes(ret) \in [1 .. ret -> Val]
  <2>1. ASSUME NEW i \in 1 .. ret PROVE accepted + i \in Val
    <3> HIDE DEF ret
    <3> QED BY <1>1, <1>2, <2>1, ByteNumbers, SizeNat
  <2> QED BY <2>1 DEF NewBytes
<1>4. f \in FifoType
  <2> HIDE DEF ret
  <2> QED BY <1>1, <1>3, WriteType DEF IInv, TypeOK
<1>5. /\ fifo' = f /\ tx_busy' = TRUE
      /\ tx_waiting' = (ret > BytesToEnd(f) \/ tx_waiting)
      /\ tx_remaining' = IF ret > BytesToEnd(f)
                           THEN tx_remaining + (ret - BytesToEnd(f)) ELSE tx_remaining
      /\ tx_size' = AtMost(ret, BytesToEnd(f))
      /\ dma' = Transmit(dma, f.read_index, tx_size')
      /\ accepted' = accepted + ret
      /\ UNCHANGED <<pc, call, wire>>
  BY DEF WriteIdle
<1> HIDE DEF f, ret
<1>6. BytesToEnd(f) \in 1 .. Size
  BY <1>4, StretchFits
<1>7. tx_size' \in 0 .. BytesToEnd(f)
  BY <1>1, <1>5, <1>6, SizeNat DEF AtMost
<1>8. ~dma.active /\ dma \in [active : BOOLEAN, addr : Idx, len : 0 .. Size, pos : 0 .. Size]
  BY <1>2 DEF IInv, TypeOK, BusyWhileActive
<1>9. /\ dma' \in [active : BOOLEAN, addr : Idx, len : 0 .. Size, pos : 0 .. Size]
      /\ tx_size' \in 0 .. Size
      /\ DmaInBounds' /\ BusyWhileActive'
  BY <1>4, <1>5, <1>7, <1>8, StartKeeps
<1>10. tx_remaining' \in 0 .. 3 * Size - 1 /\ tx_remaining' < 2 * Size
  BY <1>1, <1>2, <1>5, <1>6, SizeNat DEF IInv, TypeOK, OneLap
<1>11. tx_waiting' \in BOOLEAN
  BY <1>5 DEF IInv, TypeOK
<1>12. accepted' \in 0 .. MaxBytes /\ Budget'
  BY <1>1, <1>2, <1>5, SizeNat, ByteNumbers DEF Budget, call
<1>13. OneLap'
  BY <1>2, <1>5 DEF OneLap
<1>14. TypeOK'
  BY <1>4, <1>5, <1>9, <1>10, <1>11, <1>12 DEF IInv, TypeOK, call
<1> QED BY <1>9, <1>12, <1>13, <1>14 DEF IInv

(* WriteBusyKeeps: a write while a transfer runs begins. *)
LEMMA WriteBusyKeeps ==
  ASSUME IInv, NEW size \in Nat, NEW limit \in {Size, Size + 1}, Busy(size, limit)
  PROVE  IInv'
<1>1. /\ pc = "ready" /\ pc' = "tested" /\ n' = AtMost(size, Size) /\ left' = AtMost(size, Size)
      /\ full' = limit /\ accepted + AtMost(size, Size) <= MaxBytes
      /\ UNCHANGED <<fifo, tx_busy, tx_waiting, tx_remaining, tx_size, dma, lr, lw, rem, accepted, wire>>
  BY DEF Busy, Fits, control
<1>2. AtMost(size, Size) \in 0 .. Size
  BY SizeNat DEF AtMost
<1>3. TypeOK'
  BY <1>1, <1>2 DEF IInv, TypeOK, Points
<1>4. Budget'
  BY <1>1, <1>2 DEF Budget
<1> QED BY <1>1, <1>3, <1>4 DEF IInv, DmaInBounds, BusyWhileActive, OneLap

(* WriteStepKeeps: each shared access of a write that has begun. *)
LEMMA WriteStepKeeps ==
  ASSUME IInv, WriteStep
  PROVE  IInv'
<1>T. /\ fifo \in FifoType /\ fifo.read_index \in Idx /\ fifo.write_index \in Idx
      /\ fifo.buffer \in [Idx -> Val]
      /\ n \in 0 .. Size /\ left \in 0 .. Size /\ lr \in Idx /\ lw \in Idx
  BY DEF IInv, TypeOK, FifoType
<1>1. CASE CopyIndices
  <2>1. TypeOK'
    BY <1>1, <1>T DEF CopyIndices, control, IInv, TypeOK, Points
  <2>2. Budget'
    BY <1>1 DEF CopyIndices, IInv, Budget
  <2> QED BY <1>1, <2>1, <2>2 DEF CopyIndices, control, IInv, DmaInBounds, BusyWhileActive, OneLap
<1>2. CASE CopyByte
  <2>0. left > 0 /\ accepted \in 0 .. MaxBytes /\ accepted + left <= MaxBytes
    BY <1>2 DEF CopyByte, IInv, TypeOK, Budget
  <2>1. accepted + 1 \in Val /\ accepted + 1 \in 0 .. MaxBytes /\ left - 1 \in 0 .. Size
    BY <2>0, <1>T, SizeNat, ByteNumbers
  <2>2. fifo' \in FifoType
    <3>1. [fifo.buffer EXCEPT ![lw] = accepted + 1] \in [Idx -> Val]
      BY <1>T, <2>1
    <3>2. fifo' = [fifo EXCEPT !.buffer[lw] = accepted + 1]
      BY <1>2 DEF CopyByte
    <3> QED BY <1>T, <3>1, <3>2 DEF FifoType
  <2>3. lr' \in Idx /\ lw' \in Idx
    BY <1>2, <1>T, IncStep DEF CopyByte
  <2>4. TypeOK'
    BY <1>2, <2>1, <2>2, <2>3 DEF CopyByte, control, IInv, TypeOK
  <2>5. Budget'
    BY <1>2, <1>T, SizeNat, ByteNumbers DEF CopyByte, IInv, TypeOK, Budget
  <2> QED BY <1>2, <2>4, <2>5 DEF CopyByte, control, IInv, DmaInBounds, BusyWhileActive, OneLap
<1>3. CASE StoreWriteIndex
  <2>1. fifo' \in FifoType
    BY <1>3, <1>T DEF StoreWriteIndex, FifoType
  <2>2. TypeOK'
    BY <1>3, <2>1 DEF StoreWriteIndex, control, call, IInv, TypeOK, Points
  <2>3. Budget'
    BY <1>3 DEF StoreWriteIndex, call, IInv, Budget
  <2> QED BY <1>3, <2>2, <2>3
          DEF StoreWriteIndex, control, IInv, DmaInBounds, BusyWhileActive, OneLap
<1>4. CASE StoreReadIndex
  <2>1. fifo' \in FifoType
    BY <1>4, <1>T DEF StoreReadIndex, FifoType
  <2>2. TypeOK'
    BY <1>4, <2>1 DEF StoreReadIndex, control, call, IInv, TypeOK, Points
  <2>3. Budget'
    BY <1>4 DEF StoreReadIndex, call, IInv, Budget
  <2> QED BY <1>4, <2>2, <2>3
          DEF StoreReadIndex, control, IInv, DmaInBounds, BusyWhileActive, OneLap
<1>5. CASE CountBytes
  <2>1. rem' \in 0 .. 3 * Size - 1
    <3>1. tx_remaining \in 0 .. 3 * Size - 1 /\ tx_remaining < 2 * Size /\ rem' = tx_remaining + n
      BY <1>5 DEF CountBytes, IInv, TypeOK
    <3> QED BY <1>T, <3>1, SizeNat
  <2>2. TypeOK'
    BY <1>5, <2>1 DEF CountBytes, control, IInv, TypeOK, Points
  <2>3. Budget'
    BY <1>5 DEF CountBytes, IInv, Budget
  <2> QED BY <1>5, <2>2, <2>3 DEF CountBytes, control, IInv, DmaInBounds, BusyWhileActive, OneLap
<1>6. CASE StoreRemaining
  <2>1. tx_remaining' \in 0 .. 3 * Size - 1 /\ tx_remaining' <= rem'
    BY <1>6, SizeNat DEF StoreRemaining, call, IInv, TypeOK
  <2>2. TypeOK'
    BY <1>6, <2>1 DEF StoreRemaining, call, IInv, TypeOK, Points
  <2>3. Budget'
    BY <1>6 DEF StoreRemaining, call, IInv, Budget
  <2> QED BY <1>6, <2>1, <2>2, <2>3
          DEF StoreRemaining, IInv, DmaInBounds, BusyWhileActive, OneLap
<1>8. CASE CompareRemaining
  <2>1. PICK r \in {rem, tx_remaining} : pc' = IF r >= full THEN "clamping" ELSE "marking"
    BY <1>8 DEF CompareRemaining
  <2>2. pc = "comparing" /\ UNCHANGED <<fifo, control, dma, call, accepted, wire>>
    BY <1>8 DEF CompareRemaining
  <2>3. pc' = "marking" => tx_remaining <= Size
    <3>1. tx_remaining \in Nat /\ rem \in Nat /\ full \in {0, Size, Size + 1} /\ tx_remaining <= rem
      BY <2>2, SizeNat DEF IInv, TypeOK, OneLap
    <3> QED BY <2>1, <3>1, SizeNat
  <2>4. pc' \in {"clamping", "marking"}
    BY <2>1
  <2>5. tx_remaining' = tx_remaining /\ (pc' = "marking" => tx_remaining' < 2 * Size)
    <3>1. tx_remaining \in 0 .. 3 * Size - 1
      BY DEF IInv, TypeOK
    <3> QED BY <2>2, <2>3, <3>1, SizeNat DEF control
  <2>6. TypeOK'
    BY <2>2, <2>4, <2>5 DEF control, call, IInv, TypeOK, Points
  <2>7. Budget'
    BY <2>2, <2>4 DEF call, IInv, Budget
  <2> QED BY <2>2, <2>3, <2>4, <2>6, <2>7 DEF control, call, IInv, DmaInBounds, BusyWhileActive, OneLap
<1>9. CASE ClampRemaining
  <2>1. tx_remaining' = Size /\ Size \in 0 .. 3 * Size - 1 /\ Size < 2 * Size /\ Size <= Size
    BY <1>9, SizeNat DEF ClampRemaining
  <2>2. TypeOK'
    BY <1>9, <2>1 DEF ClampRemaining, call, IInv, TypeOK, Points
  <2>3. Budget'
    BY <1>9 DEF ClampRemaining, call, IInv, Budget
  <2> QED BY <1>9, <2>1, <2>2, <2>3
          DEF ClampRemaining, IInv, DmaInBounds, BusyWhileActive, OneLap
<1>7. CASE MarkWaiting
  <2>1. 0 \in 0 .. Size /\ 0 \in 0 .. 3 * Size - 1 /\ 0 \in Idx
    BY SizeNat DEF Idx
  <2>2. TypeOK'
    BY <1>7, <2>1 DEF MarkWaiting, IInv, TypeOK, Points
  <2>3. Budget'
    BY <1>7 DEF MarkWaiting, IInv, Budget
  <2> QED BY <1>7, <2>2, <2>3
          DEF MarkWaiting, IInv, DmaInBounds, BusyWhileActive, OneLap
<1> QED BY <1>1, <1>2, <1>3, <1>4, <1>5, <1>6, <1>7, <1>8, <1>9 DEF WriteStep

(* UpdateKeeps: uart_update, wherever the interrupt falls between its two  *)
(* tests.                                                                  *)
LEMMA UpdateKeeps ==
  ASSUME IInv, Update
  PROVE  IInv'
<1>1. CASE UpdateBegin
  <2>1. TypeOK'
    BY <1>1 DEF UpdateBegin, control, call, IInv, TypeOK, Points
  <2> QED BY <1>1, <2>1
          DEF UpdateBegin, control, call, IInv, DmaInBounds, BusyWhileActive, OneLap, Budget
<1>2. CASE UpdateSkip
  <2>1. TypeOK'
    BY <1>2 DEF UpdateSkip, control, call, IInv, TypeOK, Points
  <2> QED BY <1>2, <2>1
          DEF UpdateSkip, control, call, IInv, DmaInBounds, BusyWhileActive, OneLap, Budget
<1>3. CASE UpdateKick
  <2>1. /\ ~tx_busy /\ pc = "updating" /\ pc' = "ready"
        /\ tx_size' = AtMost(tx_remaining, BytesToEnd(fifo))
        /\ tx_waiting' = (tx_remaining > BytesToEnd(fifo))
        /\ tx_remaining' = tx_remaining - tx_size'
        /\ tx_busy' = (tx_size' > 0)
        /\ dma' = Transmit(dma, fifo.read_index, tx_size')
        /\ UNCHANGED <<fifo, call, accepted, wire>>
    BY <1>3 DEF UpdateKick, MayKick
  <2>2. fifo \in FifoType /\ tx_remaining \in 0 .. 3 * Size - 1 /\ tx_remaining <= Size
    BY <2>1 DEF IInv, TypeOK, OneLap
  <2>3. BytesToEnd(fifo) \in 1 .. Size
    BY <2>2, StretchFits
  <2>4. tx_size' \in 0 .. BytesToEnd(fifo) /\ tx_size' <= tx_remaining
    BY <2>1, <2>2, <2>3, SizeNat DEF AtMost
  <2>5. ~dma.active /\ dma \in [active : BOOLEAN, addr : Idx, len : 0 .. Size, pos : 0 .. Size]
    BY <2>1 DEF IInv, TypeOK, BusyWhileActive
  <2>6. /\ dma' \in [active : BOOLEAN, addr : Idx, len : 0 .. Size, pos : 0 .. Size]
        /\ tx_size' \in 0 .. Size
        /\ DmaInBounds' /\ BusyWhileActive'
    <3>1. tx_busy' = (tx_size' > 0) /\ tx_size' \in Nat
      BY <2>1, <2>3, <2>4, SizeNat
    <3>2. tx_busy' \in BOOLEAN /\ (tx_size' > 0 => tx_busy')
      BY <3>1, StartedIsBoolean
    <3> QED BY <2>1, <2>2, <2>4, <2>5, <3>2, StartKeeps
  <2>7. tx_remaining' \in 0 .. 3 * Size - 1 /\ tx_remaining' <= Size /\ tx_remaining' < 2 * Size
    BY <2>1, <2>2, <2>3, <2>4, SizeNat
  <2>8. TypeOK'
    BY <2>1, <2>6, <2>7 DEF call, IInv, TypeOK, Points
  <2>9. Budget'
    BY <2>1 DEF call, IInv, Budget
  <2> QED BY <2>1, <2>6, <2>7, <2>8, <2>9 DEF IInv, OneLap
<1> QED BY <1>1, <1>2, <1>3 DEF Update

(* DmaByteKeeps: the transfer moves on. *)
LEMMA DmaByteKeeps ==
  ASSUME IInv, DmaByte
  PROVE  IInv'
<1>1. /\ dma.active /\ dma.pos < dma.len /\ dma.addr + dma.len <= Size
      /\ dma.addr \in Idx /\ dma.pos \in 0 .. Size /\ dma.len \in 0 .. Size
      /\ dma \in [active : BOOLEAN, addr : Idx, len : 0 .. Size, pos : 0 .. Size]
  BY DEF DmaByte, IInv, TypeOK, DmaInBounds
<1>2. dma.addr + dma.pos \in Idx /\ dma.pos + 1 \in 0 .. Size /\ dma.pos + 1 <= dma.len
  BY <1>1, SizeNat DEF Idx
<1>3. fifo.buffer[dma.addr + dma.pos] \in Val
  BY <1>2 DEF IInv, TypeOK, FifoType
<1>4. wire' \in Seq(Val)
  BY <1>3, AppendProperties DEF DmaByte, IInv, TypeOK
<1>5. /\ dma' \in [active : BOOLEAN, addr : Idx, len : 0 .. Size, pos : 0 .. Size]
      /\ dma'.active = dma.active /\ dma'.addr = dma.addr /\ dma'.len = dma.len
      /\ dma'.pos = dma.pos + 1
  BY <1>1, <1>2 DEF DmaByte
<1>6. TypeOK'
  BY <1>4, <1>5 DEF DmaByte, control, call, IInv, TypeOK
<1> QED BY <1>1, <1>2, <1>5, <1>6
        DEF DmaByte, control, call, IInv, DmaInBounds, BusyWhileActive, OneLap, Budget

(* TxCpltKeeps: the callback, whatever it interrupts. *)
LEMMA TxCpltKeeps ==
  ASSUME IInv, TxCplt
  PROVE  IInv'
<1>1. fifo' \in FifoType
  <2>1. tx_size \in Nat
    BY SizeNat DEF IInv, TypeOK
  <2> QED BY <2>1, PushType DEF TxCplt, IInv, TypeOK
<1>2. BytesToEnd(fifo') \in 1 .. Size
  BY <1>1, StretchFits
<1> DEFINE b == BytesToEnd(fifo')
<1>3. /\ tx_waiting' \in BOOLEAN
      /\ tx_size' \in 0 .. b
      /\ tx_remaining' \in 0 .. tx_remaining
      /\ tx_size' > 0 \/ tx_remaining' <= Size
  <2>0. tx_remaining \in Nat /\ tx_waiting \in BOOLEAN
    BY SizeNat DEF IInv, TypeOK
  <2>1. CASE ~tx_waiting /\ tx_remaining' = 0 /\ tx_size' = 0 /\ UNCHANGED tx_waiting
    BY <1>2, <2>0, <2>1, SizeNat
  <2>2. CASE /\ tx_waiting /\ tx_remaining > b /\ tx_size' = b
             /\ tx_remaining' = tx_remaining - tx_size' /\ UNCHANGED tx_waiting
    <3> HIDE DEF b
    <3>1. b \in 1 .. Size
      BY <1>2 DEF b
    <3>2. tx_size' \in 0 .. b /\ tx_size' > 0
      BY <2>2, <3>1, SizeNat
    <3>3. tx_remaining' \in 0 .. tx_remaining
      BY <2>0, <2>2, <3>1, SizeNat
    <3> QED BY <2>0, <2>2, <3>2, <3>3
  <2>3. CASE /\ tx_waiting /\ tx_remaining <= b /\ tx_size' = tx_remaining
             /\ tx_remaining' = 0 /\ tx_waiting' = FALSE
    <3> HIDE DEF b
    <3>1. b \in 1 .. Size
      BY <1>2 DEF b
    <3>2. tx_size' \in 0 .. b /\ 0 \in 0 .. tx_remaining /\ 0 <= Size
      BY <2>0, <2>3, <3>1, SizeNat
    <3> QED BY <2>3, <3>2
  <2>4. \/ /\ ~tx_waiting /\ tx_remaining' = 0 /\ tx_size' = 0 /\ UNCHANGED tx_waiting
        \/ /\ tx_waiting /\ tx_remaining > b /\ tx_size' = b
           /\ tx_remaining' = tx_remaining - tx_size' /\ UNCHANGED tx_waiting
        \/ /\ tx_waiting /\ tx_remaining <= b /\ tx_size' = tx_remaining
           /\ tx_remaining' = 0 /\ tx_waiting' = FALSE
    <3> HIDE DEF FifoPushReadIndex
    <3> QED BY ZenonT(30) DEF TxCplt
  <2> QED BY <2>1, <2>2, <2>3, <2>4
<1>4. /\ dma' = Transmit(Idle, fifo'.read_index, tx_size') /\ tx_busy' = (tx_size' > 0)
      /\ UNCHANGED <<pc, call, accepted, wire>>
  BY DEF TxCplt
<1>5. /\ dma' \in [active : BOOLEAN, addr : Idx, len : 0 .. Size, pos : 0 .. Size]
      /\ tx_size' \in 0 .. Size
      /\ DmaInBounds' /\ BusyWhileActive'
  <2>0. tx_busy' = (tx_size' > 0) /\ tx_size' \in Nat
    BY <1>2, <1>3, <1>4, SizeNat
  <2>1. tx_busy' \in BOOLEAN /\ (tx_size' > 0 => tx_busy')
    BY <2>0, StartedIsBoolean
  <2>2. tx_size' \in 0 .. BytesToEnd(fifo')
    BY <1>3
  <2> HIDE DEF b
  <2> QED BY <1>1, <1>4, <2>1, <2>2, IdleType, StartKeeps
<1>6. TypeOK'
  <2>1. tx_remaining \in 0 .. 3 * Size - 1 /\ (pc \notin {"comparing", "clamping"} => tx_remaining < 2 * Size)
    BY DEF IInv, TypeOK
  <2>2. /\ tx_remaining' \in 0 .. 3 * Size - 1
        /\ pc' \notin {"comparing", "clamping"} => tx_remaining' < 2 * Size
    BY <1>3, <1>4, <2>1, SizeNat
  <2> QED BY <1>1, <1>3, <1>4, <1>5, <2>2 DEF call, IInv, TypeOK
<1>7. OneLap' /\ Budget'
  <2>1. pc = "comparing" => tx_remaining' <= rem
    <3>1. tx_remaining \in Nat /\ rem \in Nat /\ (pc = "comparing" => tx_remaining <= rem)
      BY SizeNat DEF IInv, TypeOK, OneLap
    <3> QED BY <1>3, <3>1
  <2> QED BY <1>3, <1>4, <2>1 DEF call, IInv, OneLap, Budget
<1> QED BY <1>5, <1>6, <1>7 DEF IInv

(* StepInv: every step of the program, of the DMA and of the interrupt     *)
(* keeps the invariant.                                                    *)
LEMMA StepInv == IInv /\ [Next]_vars => IInv'
<1> SUFFICES ASSUME IInv, [Next]_vars PROVE IInv'
  OBVIOUS
<1>1. CASE Write
  BY <1>1, WriteIdleKeeps, WriteBusyKeeps, SizesAreSizes
     DEF Write, WriteBusy, WritePacketIdle, WritePacketBusy
<1>2. CASE UNCHANGED vars
  <2>1. TypeOK'
    BY <1>2 DEF vars, control, call, IInv, TypeOK
  <2> QED BY <1>2, <2>1
          DEF vars, control, call, IInv, DmaInBounds, BusyWhileActive, OneLap, Budget
<1> QED BY <1>1, <1>2, WriteStepKeeps, UpdateKeeps, DmaByteKeeps, TxCpltKeeps DEF Next

(* JointInvariant: the four facts hold together throughout. *)
LEMMA JointInvariant == Spec => []IInv
  BY InitInv, StepInv, PTL DEF Spec

(* TypeInvariant: the shared state of uart_handle_t and the locals of a    *)
(* running write stay in range, for every ring size and wherever           *)
(* HAL_UART_TxCpltCallback preempts the main program.                      *)
THEOREM TypeInvariant == Spec => []TypeOK
<1>1. IInv => TypeOK
  BY DEF IInv
<1> QED BY <1>1, JointInvariant, PTL

(* TransferInBuffer: no transfer that uart_write, uart_write_packet,       *)
(* uart_update or the callback starts reads past the end of tx_buffer.     *)
THEOREM TransferInBuffer == Spec => []DmaInBounds
<1>1. IInv => DmaInBounds
  BY DEF IInv
<1> QED BY <1>1, JointInvariant, PTL

(* BusyCoversTransfer: while a transfer runs tx_busy is up and tx_size is  *)
(* its length, so neither uart_write nor uart_update starts a second one.  *)
THEOREM BusyCoversTransfer == Spec => []BusyWhileActive
<1>1. IInv => BusyWhileActive
  BY DEF IInv
<1> QED BY <1>1, JointInvariant, PTL

-----------------------------------------------------------------------------
(* The transmitter, when nothing disturbs a write.                         *)

(* Nothing disturbs a write: callers watch the ring, and the interrupt is  *)
(* taken neither inside fifo_write nor inside what stores the count.       *)
Undisturbed ==
  /\ ~Overrun
  /\ PreemptPoints \subseteq {"ready", "tested", "counting", "updating"}

(* How many bytes the callback has taken out of tx_fifo, how many a write  *)
(* has put there for others to see, and how many of these it has still to  *)
(* count.                                                                  *)
Streamed(d) == IF d.active THEN d.pos ELSE 0
Sent == Len(wire) - Streamed(dma)
Committed == accepted - (IF pc = "copy" THEN n - left ELSE 0)
Uncounted == IF pc \in {"storing", "counting", "counted"} THEN n ELSE 0

(* The ring holds the bytes between the two counts, and each of them is in *)
(* the transfer, in tx_remaining, or still to be counted.                  *)
Account ==
  /\ Sent \in Nat /\ Sent <= Committed /\ Committed <= accepted /\ accepted - Sent < Size
  /\ fifo.read_index = Sent % Size /\ fifo.write_index = Committed % Size
  /\ \A k \in Sent .. accepted - 1 : fifo.buffer[k % Size] = k + 1
  /\ Committed - Sent = (IF tx_busy THEN tx_size ELSE 0) + tx_remaining + Uncounted

(* A transfer sends from the oldest byte on, the line has what was         *)
(* accepted, in order, and the callback is told of bytes that wait.        *)
InOrder ==
  /\ dma.active => dma.addr = Sent % Size
  /\ \A k \in 1 .. Len(wire) : wire[k] = k
  /\ pc \notin {"comparing", "marking"} /\ tx_remaining > 0 => tx_waiting

(* A write under way has room, its copies of the indices and of the count  *)
(* are what it left behind, and it has nothing to clamp.                   *)
Writing ==
  /\ pc \in {"tested", "copy"} => left <= n /\ accepted + left - Sent < Size
  /\ pc = "tested" => left = n
  /\ pc = "copy" => lw = accepted % Size
  /\ pc \in {"copy", "storing"} => lr = fifo.read_index
  /\ pc = "counted" => rem = tx_remaining + n
  /\ pc = "comparing" => rem = tx_remaining
  /\ pc \notin {"ready", "marking", "updating"} => full >= Size
  /\ pc # "clamping"

LedgerInv == IInv /\ Account /\ InOrder /\ Writing

(* LedgerFacts: what the invariant says in plain terms, for the            *)
(* arithmetic.                                                             *)
LEMMA LedgerFacts ==
  ASSUME LedgerInv
  PROVE  /\ accepted \in Nat /\ accepted <= MaxBytes /\ Sent \in Nat /\ Committed \in Nat
         /\ Len(wire) \in Nat /\ Sent <= Committed /\ Committed <= accepted
         /\ accepted - Sent < Size
         /\ n \in Nat /\ left \in Nat /\ tx_remaining \in Nat /\ tx_size \in Nat
         /\ fifo \in FifoType /\ Ring(fifo, Sent, Committed)
         /\ BytesAvailable(fifo) = Committed - Sent
<1>1. /\ accepted \in Nat /\ accepted <= MaxBytes /\ n \in Nat /\ left \in Nat
      /\ tx_remaining \in Nat /\ tx_size \in Nat /\ fifo \in FifoType
      /\ dma.pos \in Nat
  BY SizeNat, ByteNumbers DEF LedgerInv, IInv, TypeOK
<1>2. Len(wire) \in Nat
  BY LenProperties DEF LedgerInv, IInv, TypeOK
<1>3. /\ Sent \in Nat /\ Sent <= Committed /\ Committed <= accepted /\ accepted - Sent < Size
  BY DEF LedgerInv, Account
<1>4. Committed \in Nat
  BY <1>1, <1>3 DEF Committed
<1>5. Ring(fifo, Sent, Committed)
  <2>1. \A k \in Sent .. Committed - 1 : k \in Sent .. accepted - 1
    BY <1>1, <1>3, <1>4
  <2> QED BY <2>1 DEF LedgerInv, Account, Ring
<1>6. Committed - Sent < Size
  BY <1>1, <1>3, <1>4, SizeNat
<1>7. BytesAvailable(fifo) = Committed - Sent
  BY <1>3, <1>4, <1>5, <1>6, RingCounts
<1> QED BY <1>1, <1>2, <1>3, <1>4, <1>5, <1>7

(* LedgerInit: the invariant holds after uart_init. *)
LEMMA LedgerInit == Init => LedgerInv
<1> SUFFICES ASSUME Init PROVE LedgerInv
  OBVIOUS
<1>1. /\ fifo = FifoInit /\ tx_busy = FALSE /\ tx_remaining = 0 /\ tx_size = 0
      /\ dma.active = FALSE /\ pc = "ready" /\ n = 0 /\ left = 0 /\ accepted = 0 /\ wire = << >>
  BY DEF Init, Idle
<1>2. Len(wire) = 0 /\ Sent = 0 /\ Committed = 0 /\ Uncounted = 0
  BY <1>1 DEF Sent, Streamed, Committed, Uncounted
<1>3. 0 % Size = 0 /\ 0 < Size
  BY SizeNat
<1>4. Account
  BY <1>1, <1>2, <1>3 DEF Account, FifoInit
<1>5. InOrder
  BY <1>1, <1>2 DEF InOrder
<1>6. Writing
  BY <1>1 DEF Writing
<1> QED BY <1>4, <1>5, <1>6, InitInv DEF LedgerInv

(* StartsAt: a transfer begun on a free channel starts at the address      *)
(* given and has sent nothing.                                             *)
LEMMA StartsAt ==
  ASSUME NEW d, ~d.active, NEW a, NEW len
  PROVE  /\ Streamed(Transmit(d, a, len)) = 0
         /\ Transmit(d, a, len).active => Transmit(d, a, len).addr = a
  BY DEF Transmit, Streamed

(* WriteIdleAccounts: the first stretch and what waits behind it are what  *)
(* was written and what waited already.                                    *)
LEMMA WriteIdleAccounts ==
  ASSUME LedgerInv, Undisturbed, NEW size \in Nat, WriteIdle(size)
  PROVE  LedgerInv' /\ accepted <= accepted' /\ wire' = wire
<1> USE SizeNat
<1> DEFINE ret == AtMost(size, Size)
           f == FifoWrite(fifo, NewBytes(ret))
<1>1. /\ pc = "ready" /\ ~tx_busy /\ size <= Size - 1 - BytesAvailable(fifo)
      /\ accepted + ret <= MaxBytes
  BY DEF WriteIdle, Fits, Undisturbed
<1>2. /\ fifo' = f /\ tx_busy' = TRUE
      /\ tx_waiting' = (ret > BytesToEnd(f) \/ tx_waiting)
      /\ tx_remaining' = IF ret > BytesToEnd(f)
                           THEN tx_remaining + (ret - BytesToEnd(f)) ELSE tx_remaining
      /\ tx_size' = AtMost(ret, BytesToEnd(f))
      /\ dma' = Transmit(dma, f.read_index, tx_size')
      /\ accepted' = accepted + ret
      /\ UNCHANGED <<pc, call, wire>>
  BY DEF WriteIdle
<1>3. /\ ~dma.active /\ Sent = Len(wire) /\ Committed = accepted /\ Uncounted = 0
      /\ accepted - Sent = tx_remaining
  <2>1. ~dma.active
    BY <1>1 DEF LedgerInv, IInv, BusyWhileActive
  <2>2. Sent = Len(wire) /\ Committed = accepted /\ Uncounted = 0
    BY <1>1, <2>1, LedgerFacts DEF Sent, Streamed, Committed, Uncounted
  <2> QED BY <1>1, <2>1, <2>2, LedgerFacts DEF LedgerInv, Account
<1>4. ret = size /\ ret \in Nat /\ accepted + ret - Sent < Size
  BY <1>1, <1>3, LedgerFacts DEF AtMost
<1>5. Ring(f, Sent, accepted + ret) /\ f \in FifoType
  <2> HIDE DEF ret
  <2>1. \A k \in 1 .. ret : accepted + k \in Val
    BY <1>1, <1>4, LedgerFacts, ByteNumbers
  <2>2. NewBytes(ret) \in [1 .. ret -> Val] /\ \A k \in 1 .. ret : NewBytes(ret)[k] = accepted + k
    BY <2>1 DEF NewBytes
  <2>3. ret \in 0 .. Size
    BY <1>4, LedgerFacts
  <2>4. Ring(fifo, Sent, accepted)
    BY <1>3, LedgerFacts
  <2>5. f \in FifoType
    BY <2>2, <2>3, LedgerFacts, WriteType
  <2>6. accepted \in Nat /\ Sent \in Nat /\ Sent <= accepted /\ fifo \in FifoType
    BY <1>3, LedgerFacts
  <2>7. Ring(f, Sent, accepted + ret)
    BY <1>4, <2>2, <2>4, <2>6, RingWrite
  <2> QED BY <2>5, <2>7
<1> HIDE DEF ret, f
<1>6. BytesToEnd(f) \in 1 .. Size
  BY <1>5, StretchFits
<1>7. /\ Sent' = Sent /\ Committed' = accepted + ret /\ Uncounted' = 0
      /\ dma'.active => dma'.addr = f.read_index
  <2>1. Streamed(dma') = 0 /\ (dma'.active => dma'.addr = f.read_index)
    BY <1>2, <1>3, StartsAt
  <2>2. wire' = wire /\ pc' = "ready"
    BY <1>1, <1>2
  <2> QED BY <1>2, <1>3, <1>4, <2>1, <2>2, LedgerFacts DEF Sent, Committed, Uncounted
<1>8. tx_size' + tx_remaining' = ret + tx_remaining /\ tx_size' \in Nat /\ tx_remaining' \in Nat
  <2>1. tx_remaining \in Nat /\ BytesToEnd(f) \in Nat
    BY <1>6, LedgerFacts
  <2>2. CASE ret > BytesToEnd(f)
    BY <1>2, <1>4, <2>1, <2>2 DEF AtMost
  <2>3. CASE ~(ret > BytesToEnd(f))
    BY <1>2, <1>4, <2>1, <2>3 DEF AtMost
  <2> QED BY <2>2, <2>3
<1>9. Account'
  <2>1. Committed' - Sent' = tx_size' + tx_remaining' + Uncounted'
    <3>1. accepted \in Nat /\ Sent \in Nat /\ tx_remaining \in Nat /\ accepted - Sent = tx_remaining
      BY <1>3, LedgerFacts
    <3>2. Committed' = accepted + ret /\ Sent' = Sent /\ Uncounted' = 0
      BY <1>7
    <3>3. (accepted + ret) - Sent = ret + tx_remaining
      BY <1>4, <3>1
    <3>4. tx_size' + tx_remaining' + 0 = ret + tx_remaining
      <4>1. tx_size' \in Nat /\ tx_remaining' \in Nat
        BY <1>8
      <4>2. tx_size' + tx_remaining' = ret + tx_remaining
        BY <1>8
      <4>3. tx_size' + tx_remaining' + 0 = tx_size' + tx_remaining'
        BY <4>1
      <4> QED BY <4>2, <4>3
    <3> QED BY <3>2, <3>3, <3>4
  <2>2. Sent' \in Nat /\ Sent' <= Committed' /\ Committed' <= accepted' /\ accepted' - Sent' < Size
    BY <1>2, <1>3, <1>4, <1>7, LedgerFacts
  <2> QED BY <1>2, <1>5, <1>7, <2>1, <2>2 DEF Account, Ring
<1>10. InOrder'
  <2>1. tx_remaining' > 0 => tx_waiting'
    BY <1>1, <1>2, <1>4, <1>6, LedgerFacts DEF LedgerInv, InOrder
  <2>2. dma'.active => dma'.addr = Sent' % Size
    BY <1>5, <1>7 DEF Ring
  <2> QED BY <1>2, <2>1, <2>2 DEF LedgerInv, InOrder
<1>11. Writing'
  BY <1>1, <1>2 DEF Writing
<1> QED BY <1>2, <1>4, <1>9, <1>10, <1>11, LedgerFacts, WriteIdleKeeps DEF LedgerInv

(* WriteBusyAccounts: a write that finds a transfer running has room. *)
LEMMA WriteBusyAccounts ==
  ASSUME LedgerInv, Undisturbed, NEW size \in Nat, NEW limit \in {Size, Size + 1}, Busy(size, limit)
  PROVE  LedgerInv'
<1> USE SizeNat
<1>1. /\ pc = "ready" /\ pc' = "tested" /\ n' = AtMost(size, Size) /\ left' = n' /\ full' = limit
      /\ size <= Size - 1 - BytesAvailable(fifo)
      /\ UNCHANGED <<fifo, tx_busy, tx_waiting, tx_remaining, tx_size, dma, lr, lw, rem, accepted, wire>>
  BY DEF Busy, Fits, Undisturbed, control
<1>2. Committed = accepted /\ Committed' = accepted /\ Uncounted = 0 /\ Uncounted' = 0 /\ Sent' = Sent
  BY <1>1, LedgerFacts DEF Committed, Uncounted, Sent
<1>3. n' = size /\ accepted + size - Sent < Size
  BY <1>1, <1>2, LedgerFacts DEF AtMost
<1>4. Account'
  BY <1>1, <1>2 DEF LedgerInv, Account
<1>5. InOrder'
  BY <1>1, <1>2 DEF LedgerInv, InOrder
<1>6. Writing'
  BY <1>1, <1>2, <1>3 DEF Writing
<1> QED BY <1>4, <1>5, <1>6, WriteBusyKeeps DEF LedgerInv

(* WriteStepAccounts: the shared accesses of a write.  fifo_write copies   *)
(* above what is committed and stores back the read index it found; the    *)
(* count it stores is the one it has read, and needs no clamp.             *)
LEMMA WriteStepAccounts ==
  ASSUME LedgerInv, WriteStep
  PROVE  LedgerInv' /\ accepted' \in {accepted, accepted + 1} /\ wire' = wire
<1> USE SizeNat
<1>I. IInv'
  BY WriteStepKeeps DEF LedgerInv
<1>W. wire' = wire /\ dma' = dma /\ Sent' = Sent
  BY DEF WriteStep, CopyIndices, CopyByte, StoreWriteIndex, StoreReadIndex, CountBytes, StoreRemaining,
         CompareRemaining, ClampRemaining, MarkWaiting, Sent
<1>1. CASE CopyIndices
  <2>1. /\ pc = "tested" /\ pc' = "copy" /\ lr' = fifo.read_index /\ lw' = fifo.write_index
        /\ UNCHANGED <<fifo, control, dma, n, left, rem, full, accepted, wire>>
    BY <1>1 DEF CopyIndices
  <2>2. n = left /\ Committed = accepted /\ Committed' = accepted /\ Uncounted = 0 /\ Uncounted' = 0
    BY <2>1, LedgerFacts DEF LedgerInv, Writing, Committed, Uncounted
  <2>3. Account' /\ InOrder'
    BY <1>W, <2>1, <2>2 DEF LedgerInv, Account, InOrder, control
  <2>4. Writing'
    BY <1>W, <2>1, <2>2 DEF LedgerInv, Writing, Account
  <2> QED BY <1>I, <1>W, <2>1, <2>3, <2>4 DEF LedgerInv
<1>2. CASE CopyByte
  <2>1. /\ pc = "copy" /\ pc' = "copy" /\ left > 0
        /\ fifo' = [fifo EXCEPT !.buffer[lw] = accepted + 1]
        /\ lw' = Inc(lw) /\ lr' = IF Inc(lw) = lr THEN Inc(lr) ELSE lr
        /\ left' = left - 1 /\ accepted' = accepted + 1
        /\ UNCHANGED <<tx_busy, tx_waiting, tx_remaining, tx_size, dma, n, rem, full, wire>>
    BY <1>2 DEF CopyByte, control
  <2>2. /\ lw = accepted % Size /\ lr = fifo.read_index /\ lr = Sent % Size
        /\ left <= n /\ accepted + left - Sent < Size
    BY <2>1 DEF LedgerInv, Writing, Account
  <2>3. accepted + 1 - Sent \in 1 .. Size - 1
    <3>1. accepted \in Nat /\ Sent \in Nat /\ Sent <= accepted /\ left \in Nat
      BY LedgerFacts
    <3>2. left > 0 /\ accepted + left - Sent < Size
      BY <2>1, <2>2
    <3> QED BY <3>1, <3>2
  <2>4. lw' = (accepted + 1) % Size /\ lw \in Idx
    BY <2>1, <2>2, LedgerFacts, ModWalk, ModNat
  <2>5. lr' = lr
    <3>1. Sent + (accepted + 1 - Sent) = accepted + 1 /\ accepted + 1 - Sent \in 0 .. Size - 1
          /\ accepted + 1 - Sent # 0
      BY <2>3, LedgerFacts
    <3>2. Sent % Size # (Sent + (accepted + 1 - Sent)) % Size
      BY <3>1, LedgerFacts, ModDistance
    <3> QED BY <2>1, <2>2, <2>4, <3>1, <3>2
  <2>6. /\ fifo'.read_index = fifo.read_index /\ fifo'.write_index = fifo.write_index
        /\ fifo'.buffer = [fifo.buffer EXCEPT ![lw] = accepted + 1] /\ fifo.buffer \in [Idx -> Val]
    BY <2>1, LedgerFacts DEF FifoType
  <2>7. \A k \in Sent .. accepted : fifo'.buffer[k % Size] = k + 1
    <3> SUFFICES ASSUME NEW k \in Sent .. accepted PROVE fifo'.buffer[k % Size] = k + 1
      OBVIOUS
    <3>1. k \in Nat /\ k % Size \in Idx
      BY LedgerFacts, ModNat
    <3>2. CASE k = accepted
      BY <2>2, <2>6, <3>1, <3>2
    <3>3. CASE k # accepted
      <4>1. k + (accepted - k) = accepted /\ accepted - k \in 0 .. Size - 1 /\ accepted - k # 0
            /\ k \in Sent .. accepted - 1
        BY <3>3, LedgerFacts
      <4>2. k % Size # lw
        BY <2>2, <3>1, <4>1, ModDistance
      <4>3. fifo.buffer[k % Size] = k + 1
        BY <4>1 DEF LedgerInv, Account
      <4> QED BY <2>6, <3>1, <4>2, <4>3
    <3> QED BY <3>2, <3>3
  <2>8. Committed' = Committed /\ Uncounted' = Uncounted
    BY <2>1, LedgerFacts DEF Committed, Uncounted
  <2>9. Account'
    <3>1. (accepted + 1) - 1 = accepted /\ Committed <= accepted + 1 /\ (accepted + 1) - Sent < Size
      BY <2>3, LedgerFacts
    <3> QED BY <1>W, <2>1, <2>6, <2>7, <2>8, <3>1 DEF LedgerInv, Account
  <2>10. InOrder'
    BY <1>W, <2>1 DEF LedgerInv, InOrder
  <2>11. Writing'
    <3>1. left - 1 <= n /\ (accepted + 1) + (left - 1) - Sent < Size
      BY <2>2, LedgerFacts
    <3>2. full >= Size
      BY <2>1 DEF LedgerInv, Writing
    <3> QED BY <1>W, <2>1, <2>2, <2>4, <2>5, <2>6, <3>1, <3>2 DEF Writing
  <2> QED BY <1>I, <1>W, <2>1, <2>9, <2>10, <2>11 DEF LedgerInv
<1>3. CASE StoreWriteIndex
  <2>1. /\ pc = "copy" /\ left = 0 /\ pc' = "storing"
        /\ fifo' = [fifo EXCEPT !.write_index = lw]
        /\ UNCHANGED <<tx_busy, tx_waiting, tx_remaining, tx_size, dma, n, left, lr, lw, rem, full, accepted, wire>>
    BY <1>3 DEF StoreWriteIndex, control, call
  <2>2. /\ lw = accepted % Size /\ lr = fifo.read_index
    BY <2>1 DEF LedgerInv, Writing
  <2>3. /\ Committed = accepted - n /\ Committed' = accepted /\ Uncounted = 0 /\ Uncounted' = n
    BY <2>1, LedgerFacts DEF Committed, Uncounted
  <2>4. /\ fifo'.read_index = fifo.read_index /\ fifo'.write_index = lw /\ fifo'.buffer = fifo.buffer
    BY <2>1, LedgerFacts DEF FifoType
  <2>5. Account'
    <3>1. accepted - Sent = (IF tx_busy THEN tx_size ELSE 0) + tx_remaining + n
      <4>1. Committed - Sent = (IF tx_busy THEN tx_size ELSE 0) + tx_remaining + 0
        BY <2>3 DEF LedgerInv, Account
      <4> QED BY <2>3, <4>1, LedgerFacts
    <3>2. Sent <= accepted /\ accepted <= accepted
      BY LedgerFacts
    <3> QED BY <1>W, <2>1, <2>2, <2>3, <2>4, <3>1, <3>2 DEF LedgerInv, Account
  <2>6. InOrder' /\ Writing'
    BY <1>W, <2>1, <2>2, <2>4 DEF LedgerInv, InOrder, Writing
  <2> QED BY <1>I, <1>W, <2>1, <2>5, <2>6 DEF LedgerInv
<1>4. CASE StoreReadIndex
  <2>1. /\ pc = "storing" /\ pc' = "counting"
        /\ fifo' = [fifo EXCEPT !.read_index = lr]
        /\ UNCHANGED <<tx_busy, tx_waiting, tx_remaining, tx_size, dma, n, left, lr, lw, rem, full, accepted, wire>>
    BY <1>4 DEF StoreReadIndex, control, call
  <2>2. lr = fifo.read_index
    BY <2>1 DEF LedgerInv, Writing
  <2>3. fifo' = fifo
    BY <2>1, <2>2, LedgerFacts DEF FifoType
  <2>4. Committed' = Committed /\ Uncounted' = Uncounted
    BY <2>1 DEF Committed, Uncounted
  <2>5. Account' /\ InOrder' /\ Writing'
    BY <1>W, <2>1, <2>3, <2>4 DEF LedgerInv, Account, InOrder, Writing
  <2> QED BY <1>I, <1>W, <2>1, <2>5 DEF LedgerInv
<1>5. CASE CountBytes
  <2>1. /\ pc = "counting" /\ pc' = "counted" /\ rem' = tx_remaining + n
        /\ UNCHANGED <<fifo, tx_busy, tx_waiting, tx_remaining, tx_size, dma, n, left, lr, lw, full, accepted, wire>>
    BY <1>5 DEF CountBytes, control
  <2>2. Committed' = Committed /\ Uncounted' = Uncounted
    BY <2>1 DEF Committed, Uncounted
  <2>3. Account' /\ InOrder' /\ Writing'
    BY <1>W, <2>1, <2>2 DEF LedgerInv, Account, InOrder, Writing
  <2> QED BY <1>I, <1>W, <2>1, <2>3 DEF LedgerInv
<1>6. CASE StoreRemaining
  <2>1. /\ pc = "counted" /\ pc' = "comparing" /\ tx_remaining' = rem
        /\ UNCHANGED <<fifo, tx_busy, tx_waiting, tx_size, dma, n, left, lr, lw, rem, full, accepted, wire>>
    BY <1>6 DEF StoreRemaining, call
  <2>2. /\ Committed' = Committed /\ Committed = accepted /\ Uncounted' = 0 /\ Uncounted = n
        /\ rem = tx_remaining + n
    BY <2>1, LedgerFacts DEF Committed, Uncounted, LedgerInv, Writing
  <2>3. (IF tx_busy THEN tx_size ELSE 0) + tx_remaining' + 0
          = (IF tx_busy THEN tx_size ELSE 0) + tx_remaining + n
    BY <2>1, <2>2, LedgerFacts
  <2>4. Account'
    BY <1>W, <2>1, <2>2, <2>3 DEF LedgerInv, Account
  <2>5. InOrder' /\ Writing'
    BY <1>W, <2>1 DEF LedgerInv, InOrder, Writing
  <2> QED BY <1>I, <1>W, <2>1, <2>4, <2>5 DEF LedgerInv
<1>8. CASE CompareRemaining
  <2>1. PICK r \in {rem, tx_remaining} : pc' = IF r >= full THEN "clamping" ELSE "marking"
    BY <1>8 DEF CompareRemaining
  <2>2. /\ pc = "comparing"
        /\ UNCHANGED <<fifo, tx_busy, tx_waiting, tx_remaining, tx_size, dma, n, left, lr, lw, rem, full, accepted, wire>>
    BY <1>8 DEF CompareRemaining, control, call
  <2>3. tx_remaining < Size
    <3>1. Committed - Sent = (IF tx_busy THEN tx_size ELSE 0) + tx_remaining + 0
      BY <2>2 DEF LedgerInv, Account, Uncounted
    <3> QED BY <3>1, LedgerFacts
  <2>4. pc' = "marking"
    <3>1. r = tx_remaining /\ full >= Size /\ full \in {0, Size, Size + 1}
      BY <2>1, <2>2 DEF LedgerInv, Writing, IInv, TypeOK
    <3> QED BY <2>1, <2>3, <3>1, LedgerFacts
  <2>5. Committed' = Committed /\ Uncounted' = Uncounted
    BY <2>2, <2>4 DEF Committed, Uncounted
  <2>6. Account' /\ InOrder' /\ Writing'
    BY <1>W, <2>2, <2>4, <2>5 DEF LedgerInv, Account, InOrder, Writing
  <2> QED BY <1>I, <1>W, <2>2, <2>6 DEF LedgerInv
<1>9. CASE ClampRemaining
  BY <1>9 DEF ClampRemaining, LedgerInv, Writing
<1>7. CASE MarkWaiting
  <2>1. /\ pc = "marking" /\ pc' = "ready" /\ tx_waiting' = TRUE
        /\ UNCHANGED <<fifo, tx_busy, tx_remaining, tx_size, dma, left, accepted, wire>>
    BY <1>7 DEF MarkWaiting
  <2>2. Committed' = Committed /\ Uncounted' = Uncounted
    BY <2>1 DEF Committed, Uncounted
  <2>3. Account' /\ InOrder' /\ Writing'
    BY <1>W, <2>1, <2>2 DEF LedgerInv, Account, InOrder, Writing
  <2> QED BY <1>I, <1>W, <2>1, <2>3 DEF LedgerInv
<1> QED BY <1>1, <1>2, <1>3, <1>4, <1>5, <1>6, <1>7, <1>8, <1>9 DEF WriteStep

(* StartedSize: what a stretch that has just been begun adds to the        *)
(* account, where an empty one is not begun.                               *)
LEMMA StartedSize ==
  ASSUME NEW m \in Nat, NEW busy, busy = (m > 0)
  PROVE  (IF busy THEN m ELSE 0) = m
<1>1. CASE m > 0
  <2>1. busy
    BY <1>1
  <2> QED BY <2>1
<1>2. CASE ~(m > 0)
  <2>1. m = 0
    BY <1>2
  <2> QED BY <2>1
<1> QED BY <1>1, <1>2

(* UpdateAccounts: uart_update moves bytes from tx_remaining to a stretch. *)
LEMMA UpdateAccounts ==
  ASSUME LedgerInv, Update
  PROVE  LedgerInv' /\ accepted' = accepted /\ wire' = wire
<1> USE SizeNat
<1>I. IInv' /\ wire' = wire /\ accepted' = accepted
  BY UpdateKeeps DEF LedgerInv, Update, UpdateBegin, UpdateSkip, UpdateKick
<1>1. CASE UpdateBegin \/ UpdateSkip
  <2>1. /\ UNCHANGED <<fifo, tx_busy, tx_waiting, tx_remaining, tx_size, dma, n, left, lr, lw, rem, full, accepted, wire>>
        /\ pc \in {"ready", "updating"} /\ pc' \in {"ready", "updating"}
    BY <1>1 DEF UpdateBegin, UpdateSkip, control, call
  <2>2. Sent' = Sent /\ Committed' = Committed /\ Uncounted' = Uncounted
    BY <2>1 DEF Sent, Committed, Uncounted
  <2>3. Account' /\ InOrder' /\ Writing'
    BY <2>1, <2>2 DEF LedgerInv, Account, InOrder, Writing
  <2> QED BY <1>I, <2>3 DEF LedgerInv
<1>2. CASE UpdateKick
  <2> DEFINE b == BytesToEnd(fifo)
  <2>1. /\ ~tx_busy /\ pc = "updating" /\ pc' = "ready"
        /\ tx_size' = AtMost(tx_remaining, b)
        /\ tx_waiting' = (tx_remaining > b)
        /\ tx_remaining' = tx_remaining - tx_size'
        /\ tx_busy' = (tx_size' > 0)
        /\ dma' = Transmit(dma, fifo.read_index, tx_size')
        /\ UNCHANGED <<fifo, accepted, wire>>
    BY <1>2 DEF UpdateKick, MayKick
  <2>2. b \in Nat /\ tx_remaining \in Nat
    BY LedgerFacts, StretchFits
  <2> HIDE DEF b
  <2>3. ~dma.active
    BY <2>1 DEF LedgerInv, IInv, BusyWhileActive
  <2>4. /\ Sent = Len(wire) /\ Committed = accepted /\ Uncounted = 0
        /\ accepted - Sent = tx_remaining
    <3>1. Sent = Len(wire) /\ Committed = accepted /\ Uncounted = 0
      BY <2>1, <2>3, LedgerFacts DEF Sent, Streamed, Committed, Uncounted
    <3> QED BY <2>1, <3>1, LedgerFacts DEF LedgerInv, Account
  <2>5. /\ Sent' = Sent /\ Committed' = accepted /\ Uncounted' = 0
        /\ dma'.active => dma'.addr = fifo.read_index
    <3>1. Streamed(dma') = 0 /\ (dma'.active => dma'.addr = fifo.read_index)
      BY <2>1, <2>3, StartsAt
    <3> QED BY <2>1, <2>4, <3>1, LedgerFacts DEF Sent, Committed, Uncounted
  <2>6. tx_size' \in Nat /\ tx_size' + tx_remaining' = tx_remaining /\ tx_remaining' \in Nat
    BY <2>1, <2>2 DEF AtMost
  <2>7. (IF tx_busy' THEN tx_size' ELSE 0) = tx_size'
    BY <2>1, <2>6, StartedSize
  <2>8. Account'
    <3>1. (IF tx_busy' THEN tx_size' ELSE 0) + tx_remaining' + 0 = tx_remaining
      BY <2>6, <2>7
    <3> QED BY <2>1, <2>4, <2>5, <3>1 DEF LedgerInv, Account
  <2>9. InOrder'
    <3>1. tx_remaining' > 0 => tx_waiting'
      <4>1. CASE tx_remaining > b
        BY <2>1, <4>1
      <4>2. CASE ~(tx_remaining > b)
        <5>1. tx_size' = tx_remaining
          BY <2>1, <2>2, <4>2 DEF AtMost
        <5> QED BY <2>1, <2>2, <5>1
      <4> QED BY <4>1, <4>2
    <3> QED BY <2>1, <2>5, <3>1 DEF LedgerInv, Account, InOrder
  <2>10. Writing'
    BY <2>1 DEF Writing
  <2> QED BY <1>I, <2>8, <2>9, <2>10 DEF LedgerInv
<1> QED BY <1>1, <1>2, <1>I DEF Update

(* DmaByteAccounts: the byte put on the line is the next in order.         *)
LEMMA DmaByteAccounts ==
  ASSUME LedgerInv, DmaByte
  PROVE  /\ LedgerInv' /\ accepted' = accepted /\ Len(wire) < accepted
         /\ wire' = Append(wire, Len(wire) + 1)
<1> USE SizeNat
<1>1. /\ dma.active /\ dma.pos < dma.len /\ dma' = [dma EXCEPT !.pos = @ + 1]
      /\ wire' = Append(wire, fifo.buffer[dma.addr + dma.pos])
      /\ UNCHANGED <<fifo, tx_busy, tx_waiting, tx_remaining, tx_size, pc, n, left, lr, lw, rem, full, accepted>>
  BY DEF DmaByte, control, call
<1>2. /\ tx_busy /\ dma.len = tx_size /\ dma.addr + dma.len <= Size /\ dma.addr = Sent % Size
      /\ dma.addr \in Idx /\ dma.pos \in Nat /\ dma.len \in Nat /\ wire \in Seq(Val)
      /\ dma \in [active : BOOLEAN, addr : Idx, len : 0 .. Size, pos : 0 .. Size]
  BY <1>1 DEF LedgerInv, IInv, TypeOK, BusyWhileActive, DmaInBounds, InOrder
<1>3. Len(wire) = Sent + dma.pos
  <2>1. Sent = Len(wire) - dma.pos
    BY <1>1 DEF Sent, Streamed
  <2>2. Len(wire) \in Nat /\ dma.pos \in Nat
    BY <1>2, LedgerFacts
  <2> QED BY <2>1, <2>2
<1>4. Sent + tx_size <= accepted
  <2>1. Committed - Sent = tx_size + tx_remaining + Uncounted /\ Uncounted \in Nat
    BY <1>2, LedgerFacts DEF LedgerInv, Account, Uncounted
  <2> QED BY <2>1, LedgerFacts
<1>5. Len(wire) \in Sent .. accepted - 1
  <2>1. Len(wire) < accepted /\ Sent <= Len(wire)
    <3>1. dma.pos < tx_size /\ dma.pos \in Nat
      BY <1>1, <1>2
    <3> QED BY <1>3, <1>4, <3>1, LedgerFacts
  <2> QED BY <2>1, LedgerFacts
<1>6. dma.addr + dma.pos = Len(wire) % Size
  <2>1. dma.pos \in 0 .. Size /\ (Sent % Size) + dma.pos < Size
    BY <1>1, <1>2 DEF Idx
  <2> QED BY <1>2, <1>3, <2>1, LedgerFacts, ModAdd
<1>7. wire' = Append(wire, Len(wire) + 1) /\ Len(wire) + 1 \in Val
  <2>1. fifo.buffer[Len(wire) % Size] = Len(wire) + 1
    BY <1>5 DEF LedgerInv, Account
  <2>2. Len(wire) + 1 \in 0 .. MaxBytes
    <3>1. Len(wire) < accepted
      BY <1>5, LedgerFacts
    <3> QED BY <3>1, LedgerFacts, ByteNumbers
  <2> QED BY <1>1, <1>6, <2>1, <2>2, ByteNumbers
<1>8. Len(wire') = Len(wire) + 1 /\ \A k \in 1 .. Len(wire) + 1 : wire'[k] = k
  <2>1. Len(wire') = Len(wire) + 1 /\ wire'[Len(wire) + 1] = Len(wire) + 1
        /\ \A k \in 1 .. Len(wire) : wire'[k] = wire[k]
    BY <1>2, <1>7, AppendProperties
  <2>2. Len(wire) \in Nat /\ \A k \in 1 .. Len(wire) : wire[k] = k
    BY LedgerFacts DEF LedgerInv, InOrder
  <2> QED BY <2>1, <2>2
<1>9. Sent' = Sent /\ Committed' = Committed /\ Uncounted' = Uncounted
      /\ dma'.active = dma.active /\ dma'.addr = dma.addr
  <2>1. dma'.active /\ dma'.pos = dma.pos + 1 /\ dma'.addr = dma.addr
    BY <1>1, <1>2
  <2>2. Sent' = (Len(wire) + 1) - (dma.pos + 1)
    BY <1>8, <2>1 DEF Sent, Streamed
  <2>3. Sent' = Sent
    <3>1. Len(wire) = Sent + dma.pos /\ Sent \in Nat /\ dma.pos \in Nat
      BY <1>2, <1>3, LedgerFacts
    <3> QED BY <2>2, <3>1
  <2> QED BY <1>1, <2>1, <2>3 DEF Committed, Uncounted
<1>10. Account' /\ InOrder' /\ Writing'
  <2>1. Account'
    BY <1>1, <1>9 DEF LedgerInv, Account
  <2>2. InOrder'
    BY <1>1, <1>8, <1>9 DEF LedgerInv, InOrder
  <2>3. Writing'
    BY <1>1, <1>9 DEF LedgerInv, Writing
  <2> QED BY <2>1, <2>2, <2>3
<1>11. IInv'
  BY DmaByteKeeps DEF LedgerInv
<1>12. Len(wire) < accepted
  BY <1>5, LedgerFacts
<1> QED BY <1>1, <1>7, <1>10, <1>11, <1>12 DEF LedgerInv

(* TxCpltAccounts: the callback takes out what the transfer has sent, and  *)
(* every byte it is responsible for is in the next one or waits still.     *)
LEMMA TxCpltAccounts ==
  ASSUME LedgerInv, Undisturbed, TxCplt
  PROVE  LedgerInv' /\ accepted' = accepted /\ wire' = wire
<1> USE SizeNat
<1>1. /\ dma.active /\ dma.pos = dma.len /\ pc \in {"ready", "tested", "counting", "updating"}
      /\ fifo' = FifoPushReadIndex(fifo, tx_size)
      /\ dma' = Transmit(Idle, fifo'.read_index, tx_size') /\ tx_busy' = (tx_size' > 0)
      /\ UNCHANGED <<pc, n, left, lr, lw, rem, full, accepted, wire>>
  BY DEF TxCplt, Undisturbed, call
<1>2. /\ tx_busy /\ dma.len = tx_size /\ dma.pos \in Nat
  BY <1>1 DEF LedgerInv, IInv, TypeOK, BusyWhileActive
<1>3. /\ Committed = accepted /\ Committed' = accepted /\ Uncounted' = Uncounted /\ Uncounted \in Nat
  BY <1>1, LedgerFacts DEF Committed, Uncounted
<1>4. accepted - Sent = tx_size + tx_remaining + Uncounted
  BY <1>2, <1>3 DEF LedgerInv, Account
<1>5. Len(wire) = Sent + tx_size
  BY <1>1, <1>2, LedgerFacts DEF Sent, Streamed
<1>6. Sent + tx_size <= accepted
  BY <1>3, <1>4, LedgerFacts
<1>7. Ring(fifo', Sent + tx_size, accepted)
  <2>1. Ring(fifo, Sent, accepted) /\ accepted - Sent < Size
    BY <1>3, LedgerFacts
  <2> QED BY <1>1, <1>6, <2>1, LedgerFacts, RingPush
<1>8. fifo' \in FifoType
  BY <1>1, LedgerFacts, PushType
<1>9. Sent' = Sent + tx_size /\ (dma'.active => dma'.addr = fifo'.read_index)
  <2>1. Streamed(dma') = 0 /\ (dma'.active => dma'.addr = fifo'.read_index)
    BY <1>1, IdleType, StartsAt
  <2> QED BY <1>1, <1>5, <2>1, LedgerFacts DEF Sent
<1>10. /\ tx_size' \in Nat /\ tx_remaining' \in Nat
       /\ tx_size' + tx_remaining' = tx_remaining
       /\ tx_remaining' > 0 => tx_waiting'
  <2> DEFINE b == BytesToEnd(fifo')
  <2>1. b \in Nat /\ tx_remaining \in Nat
    BY <1>8, LedgerFacts, StretchFits
  <2>2. ~tx_waiting => tx_remaining = 0
    BY <1>1, <2>1 DEF LedgerInv, InOrder
  <2>3. \/ /\ ~tx_waiting /\ tx_remaining' = 0 /\ tx_size' = 0 /\ UNCHANGED tx_waiting
        \/ /\ tx_waiting /\ tx_remaining > b /\ tx_size' = b
           /\ tx_remaining' = tx_remaining - tx_size' /\ UNCHANGED tx_waiting
        \/ /\ tx_waiting /\ tx_remaining <= b /\ tx_size' = tx_remaining
           /\ tx_remaining' = 0 /\ tx_waiting' = FALSE
    <3> HIDE DEF FifoPushReadIndex
    <3> QED BY ZenonT(30) DEF TxCplt
  <2> HIDE DEF b
  <2>4. CASE ~tx_waiting /\ tx_remaining' = 0 /\ tx_size' = 0
    BY <2>2, <2>4
  <2>5. CASE tx_waiting /\ tx_remaining > b /\ tx_size' = b /\ tx_remaining' = tx_remaining - tx_size'
             /\ tx_waiting' = tx_waiting
    BY <2>1, <2>5
  <2>6. CASE tx_size' = tx_remaining /\ tx_remaining' = 0
    BY <2>1, <2>6
  <2> QED BY <2>3, <2>4, <2>5, <2>6
<1>11. Account'
  <2>1. (IF tx_busy' THEN tx_size' ELSE 0) = tx_size'
    BY <1>1, <1>10, StartedSize
  <2>2. accepted - (Sent + tx_size) = tx_size' + tx_remaining' + Uncounted
    <3>1. accepted - (Sent + tx_size) = tx_remaining + Uncounted
      BY <1>3, <1>4, LedgerFacts
    <3> QED BY <1>10, <3>1
  <2>3. Sent + tx_size \in Nat /\ accepted - (Sent + tx_size) < Size
    BY <1>3, LedgerFacts
  <2>4. accepted <= accepted
    BY LedgerFacts
  <2> QED BY <1>1, <1>3, <1>6, <1>7, <1>9, <2>1, <2>2, <2>3, <2>4 DEF Account, Ring
<1>12. InOrder'
  BY <1>1, <1>7, <1>9, <1>10 DEF LedgerInv, InOrder, Ring
<1>13. Writing'
  <2>1. pc = "tested" => left = n /\ left <= n /\ accepted + left - (Sent + tx_size) < Size
    <3> SUFFICES ASSUME pc = "tested"
                 PROVE  left = n /\ left <= n /\ accepted + left - (Sent + tx_size) < Size
      OBVIOUS
    <3>1. left = n /\ left <= n /\ accepted + left - Sent < Size
      BY DEF LedgerInv, Writing
    <3> QED BY <3>1, LedgerFacts
  <2>2. pc \notin {"ready", "updating"} => full >= Size
    BY <1>1 DEF LedgerInv, Writing
  <2> QED BY <1>1, <1>9, <2>1, <2>2 DEF Writing
<1> QED BY <1>1, <1>11, <1>12, <1>13, TxCpltKeeps DEF LedgerInv

(* LedgerStep: every step of an undisturbed transmitter keeps the books.   *)
LEMMA LedgerStep ==
  ASSUME Undisturbed, LedgerInv, [Next]_vars
  PROVE  LedgerInv'
<1>1. CASE Write
  BY <1>1, WriteIdleAccounts, WriteBusyAccounts, SizesAreSizes
     DEF Write, WriteBusy, WritePacketIdle, WritePacketBusy
<1>2. CASE UNCHANGED vars
  <2>1. IInv'
    BY StepInv DEF LedgerInv
  <2>2. Sent' = Sent /\ Committed' = Committed /\ Uncounted' = Uncounted
    BY <1>2 DEF vars, control, call, Sent, Committed, Uncounted
  <2> QED BY <1>2, <2>1, <2>2 DEF vars, control, call, LedgerInv, Account, InOrder, Writing
<1> QED BY <1>1, <1>2, WriteStepAccounts, UpdateAccounts, DmaByteAccounts, TxCpltAccounts DEF Next

LEMMA LedgerInvariant ==
  ASSUME Undisturbed
  PROVE  Spec => []LedgerInv
<1>1. LedgerInv /\ [Next]_vars => LedgerInv'
  BY LedgerStep
<1> QED BY <1>1, LedgerInit, PTL DEF Spec

(* LedgerHolds: between calls every unread byte of tx_fifo is in the       *)
(* transfer or in tx_remaining and in one of them only, for every ring     *)
(* and every sequence of writes, as long as nothing disturbs a write.      *)
THEOREM LedgerHolds ==
  ASSUME Undisturbed
  PROVE  Spec => []Ledger
<1>1. LedgerInv => Ledger
  <2> SUFFICES ASSUME LedgerInv, pc = "ready"
               PROVE  BytesAvailable(fifo) = (IF tx_busy THEN tx_size ELSE 0) + tx_remaining
    BY DEF Ledger
  <2>1. Uncounted = 0 /\ BytesAvailable(fifo) = Committed - Sent
    BY LedgerFacts DEF Uncounted
  <2>2. Committed - Sent = (IF tx_busy THEN tx_size ELSE 0) + tx_remaining + 0
    BY <2>1 DEF LedgerInv, Account
  <2>3. (IF tx_busy THEN tx_size ELSE 0) \in Nat /\ tx_remaining \in Nat
    BY LedgerFacts
  <2> QED BY <2>1, <2>2, <2>3
<1> QED BY <1>1, LedgerInvariant, PTL

(* AcceptsMore: the channel accepts the bytes a step takes from the        *)
(* caller, or stutters when it takes none.                                 *)
LEMMA AcceptsMore ==
  ASSUME accepted \in Nat, accepted' \in Nat, accepted <= accepted', accepted' <= MaxBytes,
         wire' = wire
  PROVE  \/ Channel!Next
         \/ Numbers(accepted') = Numbers(accepted) /\ wire' = wire
<1>1. CASE accepted' = accepted
  BY <1>1
<1>2. CASE accepted' # accepted
  <2>1. 1 .. accepted' \subseteq Val
    BY ByteNumbers
  <2>2. /\ Numbers(accepted') \in Seq(Val) /\ Len(Numbers(accepted')) = accepted'
        /\ SubSeq(Numbers(accepted'), 1, accepted) = Numbers(accepted)
    BY <2>1, NumbersExtend
  <2>3. Len(Numbers(accepted)) = accepted
    BY DEF Numbers
  <2>4. Channel!Accept
    BY <1>2, <2>2, <2>3 DEF Channel!Accept, Numbers
  <2> QED BY <2>4 DEF Channel!Next
<1> QED BY <1>1, <1>2

(* TransmitsInOrder: an undisturbed transmitter implements a channel that  *)
(* loses, repeats and reorders nothing, step by step.  That everything     *)
(* comes out in the end is the part of ImplementsChannel that needs        *)
(* fairness.                                                               *)
THEOREM TransmitsInOrder ==
  ASSUME Undisturbed
  PROVE  Spec => Channel!Safety
<1>1. Init => Channel!Init
  <2> SUFFICES ASSUME Init PROVE Channel!Init
    OBVIOUS
  <2>1. accepted = 0 /\ wire = << >>
    BY DEF Init
  <2> QED BY <2>1 DEF Channel!Init
<1>2. LedgerInv /\ [Next]_vars => [Channel!Next]_<<Numbers(accepted), wire>>
  <2> SUFFICES ASSUME LedgerInv, [Next]_vars
               PROVE  \/ Channel!Next
                      \/ Numbers(accepted') = Numbers(accepted) /\ wire' = wire
    OBVIOUS
  <2>1. accepted \in Nat /\ accepted' \in Nat /\ accepted' <= MaxBytes
    <3>1. IInv /\ IInv'
      BY StepInv DEF LedgerInv
    <3> QED BY <3>1, ByteNumbers DEF IInv, TypeOK
  <2>2. CASE Write \/ WriteStep \/ Update \/ TxCplt \/ UNCHANGED vars
    <3>1. accepted <= accepted' /\ wire' = wire
      <4>1. CASE Write
        <5>1. CASE \E size \in Nat : WriteIdle(size)
          BY <5>1, WriteIdleAccounts
        <5>2. CASE \E size \in Nat, limit \in Nat : Busy(size, limit)
          BY <2>1, <5>2 DEF Busy
        <5> QED BY <4>1, <5>1, <5>2, SizesAreSizes, SizeNat DEF Write, WritePacketIdle, WriteBusy, WritePacketBusy
      <4>2. CASE WriteStep
        BY <2>1, <4>2, WriteStepAccounts
      <4>3. CASE Update \/ UNCHANGED vars
        BY <2>1, <4>3 DEF Update, UpdateBegin, UpdateSkip, UpdateKick, vars
      <4>4. CASE TxCplt
        BY <2>1, <4>4 DEF TxCplt
      <4> QED BY <2>2, <4>1, <4>2, <4>3, <4>4
    <3> QED BY <2>1, <3>1, AcceptsMore
  <2>3. CASE DmaByte
    <3>1. /\ accepted' = accepted /\ Len(wire) < accepted
          /\ wire' = Append(wire, Len(wire) + 1) /\ Len(wire) \in Nat
      BY <2>3, DmaByteAccounts, LedgerFacts
    <3>2. Len(Numbers(accepted)) = accepted /\ Numbers(accepted)[Len(wire) + 1] = Len(wire) + 1
      BY <2>1, <3>1 DEF Numbers
    <3>3. Channel!Emit
      BY <3>1, <3>2 DEF Channel!Emit, Numbers
    <3> QED BY <3>3 DEF Channel!Next
  <2> QED BY <2>2, <2>3 DEF Next
<1>3. LedgerInv /\ [Next]_vars
        => [Channel!Next]_<<[i \in 1 .. accepted |-> i], wire>>
  BY <1>2 DEF Numbers
<1>4. Spec => []LedgerInv
  BY LedgerInvariant
<1>5. Spec => Channel!Init
  BY <1>1, PTL DEF Spec
<1>6. Spec => [][Channel!Next]_<<[i \in 1 .. accepted |-> i], wire>>
  BY <1>3, <1>4, PTL DEF Spec
<1> QED BY <1>5, <1>6, PTL DEF Channel!Safety

(* SendsOnceInOrder: what the run that cuts a write inside fifo_write      *)
(* finds violated holds when none is cut there: no byte is sent after a    *)
(* younger one or twice.                                                   *)
THEOREM SendsOnceInOrder ==
  ASSUME Undisturbed
  PROVE  Spec => []SentOnceInOrder
<1>1. LedgerInv => SentOnceInOrder
  <2> SUFFICES ASSUME LedgerInv, NEW i \in 1 .. Len(wire) - 1
               PROVE  wire[i] < wire[i + 1]
    BY DEF SentOnceInOrder
  <2>1. Len(wire) \in Nat
    BY LedgerFacts
  <2>2. wire[i] = i /\ wire[i + 1] = i + 1
    BY <2>1 DEF LedgerInv, InOrder
  <2> QED BY <2>2
<1> QED BY <1>1, LedgerInvariant, PTL

-----------------------------------------------------------------------------
(* The receiver.                                                           *)

(* How many bytes have left rx_fifo: those of a read under way are handed  *)
(* to the caller and still lie behind read_index.                          *)
Gone == Len(out) - bytes_read

(* The counts are ordered, and what is between them fits a buffer.         *)
Counts ==
  /\ Gone \in Nat /\ Gone <= moved /\ moved <= arrived /\ arrived - Gone < Size
  /\ Ring(rx_fifo, Gone, moved)

(* dma_buffer holds the last lap, and dma_index lags behind with moved.    *)
Lap ==
  /\ pos = arrived % Size
  /\ \A k \in 0 .. arrived - 1 : arrived - k <= Size => dma_buffer[k % Size] = k + 1
  /\ dma_index % Size = moved % Size
  /\ dma_index = 0 => moved = 0

(* A pending TC is about bytes up to the start of the lap under way, and   *)
(* the callback under way is about bytes that have come in.                *)
Events ==
  /\ tc_pending => /\ arrived - pos >= Size /\ moved <= arrived - pos
                   /\ isr.kind = "IDLE" => isr.upto <= arrived - pos
  /\ isr.kind = "TC" => /\ isr.Size = Size
                        /\ isr.upto % Size = 0 /\ isr.upto >= Size
                        /\ moved <= isr.upto /\ isr.upto <= arrived
  /\ isr.kind = "IDLE" => /\ isr.Size = isr.upto % Size /\ isr.Size # 0
                          /\ moved < isr.upto /\ isr.upto <= arrived

(* An IDLE that has come or will come has bytes to move: those since the   *)
(* last one, unless a TC has moved them.                                   *)
IdleOwes ==
  /\ ~(line_busy /\ idle_pending)
  /\ line_busy \/ idle_pending => /\ moved < arrived \/ pos = 0
                                  /\ isr.kind = "IDLE" => isr.upto < arrived

(* A read hands out the bytes in order, up to where write_index stood.     *)
Reading ==
  /\ \A k \in 1 .. Len(out) : out[k] = k
  /\ rx_pc = "reading" => /\ local_read = Len(out) % Size
                          /\ Len(out) + Distance(local_read, local_write) <= moved
  /\ rx_pc # "reading" => bytes_read = 0

RxInv == RxTypeOK /\ Counts /\ Lap /\ Events /\ IdleOwes /\ Reading

(* RxFacts: what the invariant says in plain terms, for the arithmetic.    *)
LEMMA RxFacts ==
  ASSUME RxInv
  PROVE  /\ arrived \in Nat /\ moved \in Nat /\ Len(out) \in Nat /\ Gone \in Nat
         /\ bytes_read \in Nat /\ bytes_read <= Len(out)
         /\ pos \in Idx /\ arrived <= MaxArrivals /\ MaxArrivals \in Nat
         /\ 0 .. MaxArrivals \subseteq Val
         /\ Gone <= moved /\ moved <= arrived /\ arrived - Gone < Size /\ moved + Size > arrived
         /\ rx_fifo \in FifoType
         /\ rx_fifo.read_index \in Idx /\ rx_fifo.write_index \in Idx
         /\ rx_fifo.buffer \in [Idx -> Val]
<1>1. Len(out) \in Nat
  BY LenProperties DEF RxInv, RxTypeOK
<1> QED BY <1>1, SizeNat, ArrivalNumbers DEF RxInv, RxTypeOK, Counts, Gone, FifoType

(* RxInitInv: the invariant holds after uart_init. *)
LEMMA RxInitInv == RxInit => RxInv
<1> SUFFICES ASSUME RxInit PROVE RxInv
  OBVIOUS
<1>1. 0 \in Idx /\ 0 \in 0 .. Size /\ 0 \in 0 .. Size - 1 /\ 0 \in 0 .. MaxArrivals /\ 0 \in Nat
      /\ 0 \in 0 .. WordMod - 1 /\ 0 % Size = 0
  BY SizeNat, ArrivalNumbers, WordIsWide DEF Idx
<1>2. rx_fifo \in FifoType
  BY <1>1, ZeroAssumption DEF RxInit, FifoInit, FifoType
<1>3. out \in Seq(Val) /\ Len(out) = 0 /\ Gone = 0
  BY DEF RxInit, Gone
<1>4. RxTypeOK
  BY <1>1, <1>2, <1>3, ZeroAssumption DEF RxInit, RxTypeOK, NoEvent
<1>5. Counts
  BY <1>1, <1>3, SizeNat DEF RxInit, Counts, Ring, FifoInit
<1>6. Lap
  BY <1>1 DEF RxInit, Lap
<1> QED BY <1>3, <1>4, <1>5, <1>6 DEF RxInit, RxInv, Events, IdleOwes, Reading, NoEvent

(* ArriveKeeps: one more byte.  It falls in a slot whose byte has been     *)
(* moved, and at the end of a lap the TC it raises is about all that came. *)
LEMMA ArriveKeeps ==
  ASSUME RxInv, Arrive
  PROVE  RxInv'
<1> USE SizeNat
<1>1. /\ receiving /\ arrived < MaxArrivals /\ Room /\ ~idle_pending
      /\ dma_buffer' = [dma_buffer EXCEPT ![pos] = arrived + 1]
      /\ pos' = Inc(pos) /\ tc_pending' = (tc_pending \/ pos = Size - 1)
      /\ line_busy' = TRUE /\ arrived' = arrived + 1
      /\ idle_pending' = idle_pending /\ receiving' = receiving
      /\ isr' = isr /\ rxlock' = rxlock /\ dma_index' = dma_index /\ moved' = moved
      /\ UNCHANGED <<rx_fifo, unread_bytes, status, rx_pc, locals, out>>
  BY DEF Arrive, callback
<1>2. /\ arrived \in Nat /\ moved \in Nat /\ Gone \in Nat /\ pos \in Idx
      /\ arrived + 1 \in 0 .. MaxArrivals /\ arrived + 1 \in Val
      /\ Gone <= moved /\ moved <= arrived /\ arrived + 1 - Gone < Size
  BY <1>1, RxFacts, ArrivalNumbers DEF Room, Gone
<1>3. pos' \in Idx /\ pos' = (arrived + 1) % Size
      /\ pos' = IF pos = Size - 1 THEN 0 ELSE pos + 1
  BY <1>1, <1>2, IncStep, ModWalk DEF RxInv, Lap
<1>4. RxTypeOK'
  <2>1. dma_buffer' \in [Idx -> Val]
    BY <1>1, <1>2 DEF RxInv, RxTypeOK
  <2>2. tc_pending' \in BOOLEAN
    BY <1>1
  <2> QED BY <1>1, <1>2, <1>3, <2>1, <2>2 DEF RxInv, RxTypeOK, locals
<1>5. Gone' = Gone
  BY <1>1 DEF Gone, locals
<1>6. Counts'
  BY <1>1, <1>2, <1>5 DEF RxInv, Counts, Ring
<1>7. Lap'
  <2>1. ASSUME NEW k \in 0 .. arrived, arrived + 1 - k <= Size
        PROVE  dma_buffer'[k % Size] = k + 1
    <3>1. k % Size \in Idx
      BY ModNat
    <3>2. CASE k = arrived
      BY <1>1, <1>2, <3>2 DEF RxInv, Lap, RxTypeOK
    <3>3. CASE k # arrived
      <4>1. k \in 0 .. arrived - 1 /\ arrived - k <= Size
            /\ arrived - k \in 0 .. Size - 1 /\ arrived - k # 0 /\ k + (arrived - k) = arrived
        BY <1>2, <2>1, <3>3
      <4>2. k % Size # pos
        BY <4>1, ModDistance DEF RxInv, Lap
      <4>3. dma_buffer[k % Size] = k + 1
        BY <4>1 DEF RxInv, Lap
      <4> QED BY <1>1, <3>1, <4>2, <4>3 DEF RxInv, RxTypeOK
    <3> QED BY <3>2, <3>3
  <2>2. (arrived + 1) - 1 = arrived
    BY <1>2
  <2> QED BY <1>1, <1>3, <2>1, <2>2 DEF RxInv, Lap
<1>8. Events'
  <2>1. CASE pos = Size - 1
    <3>1. pos' = 0 /\ arrived' - pos' = arrived + 1
      BY <1>1, <1>2, <1>3, <2>1
    <3>2. arrived + 1 >= Size
      <4>1. arrived >= Size - 1
        <5>1. arrived < Size => arrived % Size = arrived
          BY <1>2
        <5> QED BY <1>2, <2>1, <5>1 DEF RxInv, Lap
      <4> QED BY <1>2, <4>1
    <3>3. moved <= arrived + 1 /\ (isr.kind = "IDLE" => isr.upto <= arrived + 1)
          /\ (isr.kind = "TC" => isr.upto <= arrived + 1)
      BY <1>2 DEF RxInv, RxTypeOK, Events
    <3> QED BY <1>1, <3>1, <3>2, <3>3 DEF RxInv, Events
  <2>2. CASE pos # Size - 1
    <3>1. arrived' - pos' = arrived - pos /\ tc_pending' = tc_pending
      BY <1>1, <1>2, <1>3, <2>2 DEF Idx, RxInv, RxTypeOK
    <3>2. (isr.kind = "IDLE" => isr.upto <= arrived + 1) /\ (isr.kind = "TC" => isr.upto <= arrived + 1)
      BY <1>2 DEF RxInv, RxTypeOK, Events
    <3> QED BY <1>1, <3>1, <3>2 DEF RxInv, Events
  <2> QED BY <2>1, <2>2
<1>9. IdleOwes'
  <2>1. isr.kind = "IDLE" => isr.upto < arrived + 1
    BY <1>2 DEF RxInv, RxTypeOK, Events
  <2> QED BY <1>1, <1>2, <2>1 DEF IdleOwes
<1>10. Reading'
  BY <1>1 DEF RxInv, Reading, locals
<1> QED BY <1>4, <1>6, <1>7, <1>8, <1>9, <1>10 DEF RxInv

(* LineKeeps: the line falls idle, or the HAL ends the reception.          *)
LEMMA LineKeeps ==
  ASSUME RxInv, LineIdle \/ LineError
  PROVE  RxInv'
<1>1. /\ UNCHANGED <<dma_buffer, pos, arrived, callback, rx_fifo, unread_bytes, status, rx_pc, locals, out>>
      /\ line_busy' = FALSE /\ tc_pending' \in BOOLEAN /\ (tc_pending' => tc_pending)
      /\ idle_pending' \in BOOLEAN /\ receiving' \in BOOLEAN
      /\ idle_pending' => line_busy
  <2>1. tc_pending \in BOOLEAN /\ idle_pending \in BOOLEAN /\ receiving \in BOOLEAN
    BY DEF RxInv, RxTypeOK
  <2>2. CASE LineIdle
    BY <2>1, <2>2 DEF LineIdle
  <2>3. CASE LineError
    BY <2>1, <2>3 DEF LineError
  <2> QED BY <2>2, <2>3
<1>2. RxTypeOK'
  BY <1>1 DEF RxInv, RxTypeOK, callback, locals
<1>3. Counts' /\ Lap' /\ Reading'
  BY <1>1 DEF RxInv, Counts, Gone, Ring, Lap, Reading, callback, locals
<1>4. Events'
  BY <1>1 DEF RxInv, Events, callback
<1>5. IdleOwes'
  BY <1>1 DEF RxInv, IdleOwes, callback
<1> QED BY <1>2, <1>3, <1>4, <1>5 DEF RxInv

(* EnterKeeps: an event is entered, ignored by the HAL, or dropped.  A TC  *)
(* is about the bytes up to the last wrap of the DMA, an IDLE about all.   *)
LEMMA EnterKeeps ==
  ASSUME RxInv, TcEnter \/ IdleEnter \/ IdleIgnored \/ TcDropped \/ IdleDropped
  PROVE  RxInv'
<1> USE SizeNat
<1>1. /\ UNCHANGED <<dma_buffer, pos, line_busy, receiving, arrived>>
      /\ UNCHANGED <<dma_index, moved, rx_fifo, unread_bytes, status, rx_pc, locals, out>>
  BY DEF TcEnter, IdleEnter, IdleIgnored, TcDropped, IdleDropped, Enter, callback
<1>2. Counts' /\ Lap' /\ Reading'
  BY <1>1 DEF RxInv, Counts, Gone, Ring, Lap, Reading, locals
<1>3. /\ arrived \in Nat /\ moved \in Nat /\ pos \in Idx /\ arrived <= MaxArrivals
      /\ MaxArrivals \in Nat /\ moved <= arrived
  BY RxFacts
<1>4. tc_pending \in BOOLEAN /\ idle_pending \in BOOLEAN
  BY DEF RxInv, RxTypeOK
<1>5. CASE TcEnter
  <2>1. /\ tc_pending /\ tc_pending' = FALSE /\ idle_pending' = idle_pending
        /\ isr' = [kind |-> "TC", Size |-> Size, upto |-> arrived - pos] /\ rxlock' = TRUE
    BY <1>5 DEF TcEnter, Enter
  <2>2. arrived - pos >= Size /\ moved <= arrived - pos /\ arrived - pos <= arrived
        /\ arrived - pos \in 0 .. MaxArrivals
    BY <1>3, <2>1 DEF RxInv, Events, Idx
  <2>3. (arrived - pos) % Size = 0
    <3>1. PICK q \in Nat : arrived = Size * q + pos
      BY <1>3, ModDivision DEF RxInv, Lap
    <3>2. arrived - pos = Size * q + 0 /\ 0 \in Idx
      BY <1>3, <3>1 DEF Idx
    <3> QED BY <3>2, ModDivision
  <2>4. RxTypeOK'
    <3>1. isr' \in [kind : {"none", "TC", "IDLE"}, Size : 0 .. Size, upto : 0 .. MaxArrivals]
          /\ isr'.kind = "TC"
      BY <2>1, <2>2
    <3> QED BY <1>1, <1>4, <2>1, <3>1 DEF RxInv, RxTypeOK, locals
  <2>5. Events' /\ IdleOwes'
    BY <1>1, <2>1, <2>2, <2>3 DEF RxInv, Events, IdleOwes
  <2> QED BY <1>2, <2>4, <2>5 DEF RxInv
<1>6. CASE IdleEnter
  <2>1. /\ idle_pending /\ ~tc_pending /\ pos # 0
        /\ tc_pending' = tc_pending /\ idle_pending' = FALSE
        /\ isr' = [kind |-> "IDLE", Size |-> pos, upto |-> arrived] /\ rxlock' = TRUE
    BY <1>6 DEF IdleEnter, Enter
  <2>2. moved < arrived /\ ~line_busy /\ pos = arrived % Size /\ arrived \in 0 .. MaxArrivals
        /\ pos \in 0 .. Size
    BY <1>3, <2>1 DEF RxInv, IdleOwes, Lap, Idx
  <2>3. RxTypeOK'
    BY <1>1, <1>4, <2>1, <2>2 DEF RxInv, RxTypeOK, locals
  <2>4. Events' /\ IdleOwes'
    BY <1>1, <1>3, <2>1, <2>2 DEF Events, IdleOwes
  <2> QED BY <1>2, <2>3, <2>4 DEF RxInv
<1>7. CASE IdleIgnored \/ TcDropped \/ IdleDropped
  <2>1. /\ isr' = isr /\ rxlock' = rxlock
        /\ tc_pending' \in BOOLEAN /\ idle_pending' \in BOOLEAN
        /\ (tc_pending' => tc_pending) /\ (idle_pending' => idle_pending)
    <3>1. CASE IdleIgnored
      BY <1>4, <3>1 DEF IdleIgnored, callback
    <3>2. CASE TcDropped
      BY <1>4, <3>2 DEF TcDropped, callback
    <3>3. CASE IdleDropped
      BY <1>4, <3>3 DEF IdleDropped, callback
    <3> QED BY <1>7, <3>1, <3>2, <3>3
  <2>2. RxTypeOK'
    BY <1>1, <2>1 DEF RxInv, RxTypeOK, locals
  <2>3. Events' /\ IdleOwes'
    BY <1>1, <2>1 DEF RxInv, Events, IdleOwes
  <2> QED BY <1>2, <2>2, <2>3 DEF RxInv
<1> QED BY <1>5, <1>6, <1>7

(* The c bytes of the line that follow the first b of them.                *)
Stretch(data, b, c) == data \in [1 .. c -> Val] /\ \A k \in 1 .. c : data[k] = b + k

(* SliceHolds: a stretch of dma_buffer that does not wrap holds the bytes  *)
(* of the line from the one its first index stands for.                    *)
LEMMA SliceHolds ==
  ASSUME RxInv, NEW b \in Nat, NEW from \in Idx, NEW to \in 0 .. Size, from <= to,
         from = b % Size, b + (to - from) <= arrived, arrived - b <= Size
  PROVE  Stretch(Slice(from, to), b, to - from)
<1> SUFFICES ASSUME NEW k \in 1 .. to - from
             PROVE  dma_buffer[from + k - 1] = b + k /\ b + k \in Val
  <2>1. \A k \in 1 .. to - from : Slice(from, to)[k] = dma_buffer[from + k - 1]
    BY DEF Slice
  <2> QED BY <2>1 DEF Slice, Stretch
<1> USE SizeNat
<1>1. k - 1 \in 0 .. Size /\ k - 1 < Size - from /\ from + (k - 1) < Size
  BY DEF Idx
<1>2. (b + (k - 1)) % Size = from + (k - 1)
  BY <1>1, ModAdd
<1>3. /\ b + (k - 1) \in 0 .. arrived - 1 /\ arrived - (b + (k - 1)) <= Size
      /\ (b + (k - 1)) + 1 = b + k /\ from + k - 1 = from + (k - 1)
      /\ b + k \in 0 .. MaxArrivals
  <2>1. arrived \in Nat /\ arrived <= MaxArrivals /\ MaxArrivals \in Nat /\ from \in Nat
    BY RxFacts DEF Idx
  <2> QED BY <2>1
<1>4. dma_buffer[(b + (k - 1)) % Size] = (b + (k - 1)) + 1
  BY <1>3 DEF RxInv, Lap
<1> QED BY <1>2, <1>3, <1>4, ArrivalNumbers

(* StretchConcat: two stretches of which the second goes on where the      *)
(* first ends are one.                                                     *)
LEMMA StretchConcat ==
  ASSUME NEW b \in Nat, NEW c \in Nat, NEW e \in Nat, NEW s, NEW t,
         Stretch(s, b, c), Stretch(t, b + c, e)
  PROVE  Stretch(s \o t, b, c + e)
<1>1. s \in Seq(Val) /\ Len(s) = c /\ t \in Seq(Val) /\ Len(t) = e
  BY DEF Stretch
<1>2. s \o t \in Seq(Val) /\ Len(s \o t) = c + e
      /\ \A k \in 1 .. c + e : (s \o t)[k] = IF k <= c THEN s[k] ELSE t[k - c]
  BY <1>1, ConcatProperties
<1>3. ASSUME NEW k \in 1 .. c + e PROVE (s \o t)[k] = b + k
  <2>1. CASE k <= c
    BY <1>2, <2>1 DEF Stretch
  <2>2. CASE ~(k <= c)
    <3>1. k - c \in 1 .. e /\ (b + c) + (k - c) = b + k
      BY <2>2
    <3> QED BY <1>2, <2>2, <3>1 DEF Stretch
  <2> QED BY <2>1, <2>2
<1>4. s \o t \in [1 .. c + e -> Val]
  BY <1>2, LenProperties
<1> QED BY <1>3, <1>4 DEF Stretch

(* LeaveStretch: a callback hands fifo_write exactly the bytes from the    *)
(* last one moved up to the last its event is about, and leaves dma_index  *)
(* where the next one starts.                                              *)
LEMMA LeaveStretch ==
  ASSUME RxInv, TcLeave \/ IdleLeave
  PROVE  \E c \in Nat : \E data :
           /\ Stretch(data, moved, c) /\ moved + c = isr.upto
           /\ Leave(data)
           /\ dma_index' \in 0 .. Size /\ dma_index' # 0
           /\ dma_index' % Size = isr.upto % Size
           /\ isr.upto <= arrived /\ (isr.kind = "TC" => isr.upto % Size = 0)
<1> USE SizeNat
<1>1. /\ moved \in Nat /\ arrived \in Nat /\ arrived < moved + Size
      /\ isr.upto \in Nat /\ dma_index \in 0 .. Size
      /\ dma_index % Size = moved % Size /\ (dma_index = 0 => moved = 0)
  BY RxFacts, ArrivalNumbers DEF RxInv, RxTypeOK, Lap
<1>2. /\ dma_index # Size => dma_index \in Idx /\ dma_index = moved % Size
      /\ dma_index = Size => moved % Size = 0
      /\ moved % Size \in Idx
  <2>1. moved % Size \in Idx
    BY <1>1, ModNat
  <2>2. Size % Size = 0 /\ \A k \in Idx : k % Size = k
    BY DEF Idx
  <2>3. dma_index # Size => dma_index \in Idx
    BY <1>1 DEF Idx
  <2> QED BY <1>1, <2>1, <2>2, <2>3
<1>3. moved <= isr.upto /\ isr.upto <= arrived
  BY <1>1 DEF RxInv, Events, TcLeave, IdleLeave
<1> DEFINE c == isr.upto - moved
<1>4. c \in 0 .. Size - 1 /\ moved + c = isr.upto /\ c \in 0 .. Size
  BY <1>1, <1>3
<1>5. isr.upto % Size = IF (moved % Size) + c < Size THEN (moved % Size) + c
                                                    ELSE (moved % Size) + c - Size
  BY <1>1, <1>4, ModAdd
<1>6. CASE TcLeave
  <2>1. /\ isr.kind = "TC" /\ isr.Size = Size /\ isr.upto % Size = 0 /\ isr.upto >= Size
        /\ dma_index' = Size
    BY <1>6 DEF TcLeave, RxInv, Events
  <2>2. Size % Size = 0
    OBVIOUS
  <2>3. CASE dma_index # Size
    <3>1. Leave(Slice(dma_index, Size))
      BY <1>6, <2>3 DEF TcLeave
    <3>2. dma_index \in Idx /\ dma_index # 0 /\ c = Size - dma_index
      <4>1. dma_index # 0
        BY <1>1, <1>3, <2>1
      <4> QED BY <1>1, <1>2, <1>4, <1>5, <2>1, <2>3, <4>1 DEF Idx
    <3>3. Stretch(Slice(dma_index, Size), moved, Size - dma_index)
      <4>1. Size \in 0 .. Size /\ dma_index <= Size /\ moved + (Size - dma_index) <= arrived
            /\ arrived - moved <= Size
        BY <1>1, <1>3, <1>4, <3>2 DEF Idx
      <4> QED BY <1>1, <1>2, <2>3, <3>2, <4>1, SliceHolds
    <3> QED BY <1>3, <1>4, <2>1, <2>2, <3>1, <3>2, <3>3
  <2>4. CASE dma_index = Size
    <3>1. Leave(<< >>)
      BY <1>6, <2>4 DEF TcLeave
    <3>2. c = 0
      BY <1>2, <1>4, <1>5, <2>1, <2>4
    <3>3. Stretch(<< >>, moved, 0)
      BY DEF Stretch
    <3> QED BY <1>3, <1>4, <2>1, <2>2, <3>1, <3>2, <3>3
  <2> QED BY <2>3, <2>4
<1>7. CASE IdleLeave
  <2>1. /\ isr.kind = "IDLE" /\ isr.Size = isr.upto % Size /\ isr.Size # 0
        /\ moved < isr.upto /\ dma_index' = isr.Size
    BY <1>7 DEF IdleLeave, RxInv, Events
  <2>2. isr.Size \in Idx /\ isr.Size % Size = isr.upto % Size /\ c # 0
    <3>1. isr.Size \in Idx
      BY <1>1, <2>1, ModNat
    <3> QED BY <1>1, <2>1, <3>1 DEF Idx
  <2>3. CASE isr.Size > dma_index
    <3>1. Leave(Slice(dma_index, isr.Size))
      BY <1>7, <2>3 DEF IdleLeave
    <3>2. dma_index \in Idx /\ dma_index = moved % Size /\ c = isr.Size - dma_index
      BY <1>1, <1>2, <1>4, <1>5, <2>1, <2>2, <2>3 DEF Idx
    <3>3. Stretch(Slice(dma_index, isr.Size), moved, isr.Size - dma_index)
      <4>1. isr.Size \in 0 .. Size /\ dma_index <= isr.Size
            /\ moved + (isr.Size - dma_index) <= arrived /\ arrived - moved <= Size
        BY <1>1, <1>3, <1>4, <2>2, <2>3, <3>2 DEF Idx
      <4> QED BY <1>1, <3>2, <4>1, SliceHolds
    <3> QED BY <1>3, <1>4, <2>1, <2>2, <3>1, <3>2, <3>3 DEF Idx
  <2>4. CASE ~(isr.Size > dma_index)
    <3> DEFINE tail == Slice(dma_index, Size)
               head == Slice(0, isr.Size)
    <3>1. Leave(tail \o head)
      BY <1>7, <2>4 DEF IdleLeave
    <3>2. c = (Size - dma_index) + isr.Size
      BY <1>1, <1>2, <1>4, <1>5, <2>1, <2>2, <2>4 DEF Idx
    <3>3. Stretch(tail, moved, Size - dma_index)
      <4>1. CASE dma_index # Size
        <5>1. Size \in 0 .. Size /\ dma_index <= Size /\ moved + (Size - dma_index) <= arrived
              /\ arrived - moved <= Size
          BY <1>1, <1>3, <1>4, <2>2, <3>2 DEF Idx
        <5> QED BY <1>1, <1>2, <4>1, <5>1, SliceHolds
      <4>2. CASE dma_index = Size
        <5>1. tail = << >> /\ Size - dma_index = 0
          BY <4>2 DEF Slice
        <5> HIDE DEF tail
        <5> QED BY <5>1 DEF Stretch
      <4> QED BY <4>1, <4>2
    <3>4. Stretch(head, moved + (Size - dma_index), isr.Size)
      <4>1. /\ moved + (Size - dma_index) \in Nat /\ 0 \in Idx /\ 0 <= isr.Size /\ isr.Size \in 0 .. Size
            /\ (moved + (Size - dma_index)) + (isr.Size - 0) <= arrived
            /\ arrived - (moved + (Size - dma_index)) <= Size
            /\ isr.Size - 0 = isr.Size /\ Size - dma_index \in 0 .. Size
        BY <1>1, <1>3, <1>4, <2>2, <3>2 DEF Idx
      <4>2. (moved + (Size - dma_index)) % Size = 0
        <5>1. (moved + (Size - dma_index)) % Size
                = IF (moved % Size) + (Size - dma_index) < Size
                  THEN (moved % Size) + (Size - dma_index)
                  ELSE (moved % Size) + (Size - dma_index) - Size
          BY <1>1, <4>1, ModAdd
        <5> QED BY <1>1, <1>2, <5>1 DEF Idx
      <4> HIDE DEF head
      <4>3. Stretch(head, moved + (Size - dma_index), isr.Size - 0)
        BY <4>1, <4>2, SliceHolds DEF head
      <4> QED BY <4>1, <4>3
    <3>5. Stretch(tail \o head, moved, (Size - dma_index) + isr.Size)
      <4>1. Size - dma_index \in Nat /\ isr.Size \in Nat
        BY <1>1, <2>2 DEF Idx
      <4> HIDE DEF tail, head
      <4> QED BY <1>1, <3>3, <3>4, <4>1, StretchConcat
    <3> HIDE DEF tail, head
    <3> QED BY <1>3, <1>4, <2>1, <2>2, <3>1, <3>2, <3>5 DEF Idx
  <2> QED BY <2>3, <2>4
<1> QED BY <1>6, <1>7

(* LeaveKeeps: the callback returns.                                       *)
LEMMA LeaveKeeps ==
  ASSUME RxInv, TcLeave \/ IdleLeave
  PROVE  RxInv' /\ moved' = isr.upto /\ moved <= moved' /\ out' = out
<1> USE SizeNat
<1>0. PICK c \in Nat :
        \E data :
          /\ Stretch(data, moved, c) /\ moved + c = isr.upto
          /\ Leave(data)
          /\ dma_index' \in 0 .. Size /\ dma_index' # 0
          /\ dma_index' % Size = isr.upto % Size
          /\ isr.upto <= arrived /\ (isr.kind = "TC" => isr.upto % Size = 0)
  BY LeaveStretch
<1>1. PICK data :
        /\ Stretch(data, moved, c) /\ moved + c = isr.upto
        /\ Leave(data)
        /\ dma_index' \in 0 .. Size /\ dma_index' # 0
        /\ dma_index' % Size = isr.upto % Size
        /\ isr.upto <= arrived /\ (isr.kind = "TC" => isr.upto % Size = 0)
  BY <1>0
<1>2. /\ rx_fifo' = FifoWrite(rx_fifo, data) /\ moved' = moved + Len(data)
      /\ isr' = NoEvent /\ rxlock' = FALSE
      /\ UNCHANGED <<hardware, unread_bytes, status, rx_pc, locals, out>>
  BY <1>1 DEF Leave
<1>3. data \in [1 .. c -> Val] /\ Len(data) = c /\ \A k \in 1 .. c : data[k] = moved + k
  BY <1>1 DEF Stretch
<1>F. /\ arrived \in Nat /\ moved \in Nat /\ Gone \in Nat /\ Gone <= moved /\ Len(out) \in Nat
      /\ arrived - Gone < Size /\ arrived < moved + Size /\ pos \in Idx /\ pos = arrived % Size
  BY RxFacts DEF RxInv, Lap
<1>4. moved' = isr.upto /\ isr.upto \in Nat /\ moved <= isr.upto
  <2>1. moved' = moved + c
    BY <1>2, <1>3
  <2>2. moved + c = isr.upto
    BY <1>1
  <2> QED BY <1>F, <2>1, <2>2
<1>5. Gone' = Gone /\ c \in 0 .. Size /\ moved + c - Gone < Size
  <2>1. Gone' = Gone
    BY <1>2 DEF Gone, locals
  <2>2. moved + c <= arrived
    BY <1>1
  <2> QED BY <1>F, <2>1, <2>2
<1>6. rx_fifo' \in FifoType
  BY <1>2, <1>3, <1>5, RxFacts, WriteType
<1>7. RxTypeOK'
  <2>1. NoEvent \in [kind : {"none", "TC", "IDLE"}, Size : 0 .. Size, upto : 0 .. MaxArrivals]
        /\ NoEvent.kind = "none"
    BY ArrivalNumbers DEF NoEvent
  <2> QED BY <1>1, <1>2, <1>4, <1>6, <2>1 DEF RxInv, RxTypeOK, hardware, locals
<1>8. Counts'
  <2>1. Ring(rx_fifo', Gone, moved + c)
    BY <1>2, <1>3, <1>5, RxFacts, RingWrite DEF RxInv, Counts
  <2>2. arrived' = arrived /\ moved' = moved + c
    BY <1>2, <1>3 DEF hardware
  <2>3. moved + c <= arrived
    BY <1>1
  <2> QED BY <1>F, <1>5, <2>1, <2>2, <2>3 DEF Counts
<1>9. Lap'
  BY <1>1, <1>2, <1>4 DEF RxInv, Lap, hardware
<1>10. isr'.kind = "none" /\ UNCHANGED <<tc_pending, idle_pending, line_busy, arrived, pos>>
  BY <1>2 DEF NoEvent, hardware
<1>B. isr.upto <= arrived /\ (isr.kind = "TC" => isr.upto % Size = 0)
  BY <1>1
<1>11. arrived = isr.upto /\ isr.kind = "TC" => pos = 0
  BY <1>1 DEF RxInv, Lap
<1>12. tc_pending => isr.upto <= arrived - pos
  <2>1. CASE isr.kind = "IDLE"
    BY <2>1 DEF RxInv, Events
  <2>2. CASE isr.kind = "TC"
    <3>1. arrived - isr.upto \in 0 .. Size - 1 /\ isr.upto + (arrived - isr.upto) = arrived
      BY <1>B, <1>F, <1>4
    <3>2. (isr.upto + (arrived - isr.upto)) % Size = arrived - isr.upto
      <4>1. isr.upto % Size = 0 /\ arrived - isr.upto \in 0 .. Size
        BY <1>B, <2>2, <3>1
      <4>2. (isr.upto + (arrived - isr.upto)) % Size
              = IF (isr.upto % Size) + (arrived - isr.upto) < Size
                THEN (isr.upto % Size) + (arrived - isr.upto)
                ELSE (isr.upto % Size) + (arrived - isr.upto) - Size
        BY <1>4, <4>1, ModAdd
      <4> QED BY <3>1, <4>1, <4>2
    <3>3. pos = arrived - isr.upto
      BY <1>F, <3>1, <3>2
    <3> QED BY <1>F, <1>4, <3>3
  <2> QED BY <2>1, <2>2 DEF TcLeave, IdleLeave
<1>13. Events'
  BY <1>4, <1>10, <1>12 DEF RxInv, Events
<1>14. IdleOwes'
  <2>1. line_busy \/ idle_pending => isr.upto < arrived \/ pos = 0
    <3>1. CASE isr.kind = "IDLE"
      BY <3>1 DEF RxInv, IdleOwes
    <3>2. CASE isr.kind = "TC"
      BY <1>1, <1>4, <1>11, <3>2, RxFacts
    <3> QED BY <3>1, <3>2 DEF TcLeave, IdleLeave
  <2> QED BY <1>4, <1>10, <2>1 DEF RxInv, IdleOwes
<1>15. Reading'
  <2>1. Distance(local_read, local_write) \in Nat
    BY DistanceType DEF RxInv, RxTypeOK
  <2> QED BY <1>2, <1>4, <2>1, RxFacts DEF RxInv, Reading, locals
<1> QED BY <1>2, <1>4, <1>7, <1>8, <1>9, <1>13, <1>14, <1>15 DEF RxInv

(* RxUpdateKeeps: uart_update counts, whichever value of write_index it    *)
(* subtracts.                                                              *)
LEMMA RxUpdateKeeps ==
  ASSUME RxInv, RxUpdate
  PROVE  RxInv'
<1>1. /\ UNCHANGED <<dma_buffer, pos, tc_pending, idle_pending, line_busy, receiving, arrived>>
      /\ UNCHANGED <<isr, rxlock, dma_index, moved, rx_fifo, asked, local_read, bytes_read, out>>
      /\ rx_pc # "reading" /\ rx_pc' \in {"ready", "comparing"}
  BY DEF RxUpdate, UpdateCompare, UpdateCount, Main, hardware, callback
<1>2. /\ rx_fifo.read_index \in Idx /\ rx_fifo.write_index \in Idx /\ local_write \in Idx
  BY RxFacts DEF RxInv, RxTypeOK
<1>3. local_write' \in Idx /\ ge' \in BOOLEAN
  <2>1. CASE UpdateCompare
    BY <1>2, <2>1 DEF UpdateCompare
  <2>2. CASE UpdateCount
    <3>1. local_write' = 0 /\ ge' = FALSE
      BY <2>2 DEF UpdateCount
    <3>2. 0 \in Idx
      BY SizeNat DEF Idx
    <3> QED BY <3>1, <3>2
  <2> QED BY <2>1, <2>2 DEF RxUpdate
<1>4. unread_bytes' \in 0 .. WordMod - 1 /\ status' \in {"UART_OK", "UART_RX_FULL"}
  <2>1. CASE UpdateCompare
    BY <2>1 DEF UpdateCompare, RxInv, RxTypeOK
  <2>2. CASE UpdateCount
    <3>1. PICK w \in {local_write, rx_fifo.write_index} :
            unread_bytes' = IF ge THEN (w - rx_fifo.read_index) % WordMod
                                  ELSE (Size - rx_fifo.read_index) + w
      BY <2>2 DEF UpdateCount
    <3>2. w \in Idx
      BY <1>2
    <3>3. (w - rx_fifo.read_index) % WordMod \in 0 .. WordMod - 1
      BY <1>2, <3>2, SizeNat, WordIsWide DEF Idx
    <3>4. (Size - rx_fifo.read_index) + w \in 0 .. WordMod - 1
      BY <1>2, <3>2, SizeNat, WordIsWide DEF Idx
    <3>5. status' \in {"UART_OK", "UART_RX_FULL"}
      BY <2>2 DEF UpdateCount, RxInv, RxTypeOK
    <3> QED BY <3>1, <3>3, <3>4, <3>5
  <2> QED BY <2>1, <2>2 DEF RxUpdate
<1>5. RxTypeOK'
  BY <1>1, <1>3, <1>4 DEF RxInv, RxTypeOK
<1>6. Counts' /\ Lap' /\ Events' /\ IdleOwes'
  BY <1>1 DEF RxInv, Counts, Gone, Ring, Lap, Events, IdleOwes
<1>7. Reading'
  BY <1>1 DEF RxInv, Reading
<1> QED BY <1>5, <1>6, <1>7 DEF RxInv

(* ReadKeeps: uart_read from its call to its return, whatever is moved     *)
(* into the ring meanwhile.                                                *)
LEMMA ReadKeeps ==
  ASSUME RxInv, ReadStep \/ \E k \in ReadSizes : ReadCall(k)
  PROVE  RxInv'
<1> USE SizeNat
<1>1. /\ UNCHANGED <<dma_buffer, pos, tc_pending, idle_pending, line_busy, receiving, arrived>>
      /\ UNCHANGED <<isr, rxlock, dma_index, moved, status, ge>>
  BY DEF ReadStep, ReadByte, ReadReturn, ReadCall, Main, hardware, callback
<1>2. Lap' /\ Events' /\ IdleOwes'
  BY <1>1 DEF RxInv, Lap, Events, IdleOwes
<1>3. /\ rx_fifo.read_index = Gone % Size /\ rx_fifo.write_index = moved % Size
      /\ \A k \in Gone .. moved - 1 : rx_fifo.buffer[k % Size] = k + 1
  BY DEF RxInv, Counts, Ring
<1>4. /\ local_read \in Idx /\ local_write \in Idx
      /\ Distance(local_read, local_write) \in 0 .. Size - 1
      /\ (Distance(local_read, local_write) = 0 <=> local_read = local_write)
  BY DistanceType DEF RxInv, RxTypeOK
<1>5. CASE \E k \in ReadSizes : ReadCall(k)
  <2>1. PICK k \in ReadSizes : ReadCall(k)
    BY <1>5
  <2>2. /\ rx_pc = "ready" /\ rx_pc' = "reading" /\ asked' = k
        /\ local_read' = rx_fifo.read_index /\ local_write' = rx_fifo.write_index
        /\ bytes_read' = 0 /\ UNCHANGED <<rx_fifo, unread_bytes, out>>
    BY <2>1 DEF ReadCall, Main
  <2>3. bytes_read = 0 /\ Gone' = Gone /\ Gone = Len(out)
    BY <2>2, RxFacts DEF RxInv, Reading, Gone
  <2>4. RxTypeOK'
    BY <1>1, <2>2, RxFacts DEF RxInv, RxTypeOK
  <2>5. Counts'
    BY <1>1, <2>2, <2>3 DEF RxInv, Counts, Ring
  <2>6. Distance(local_read', local_write') = moved - Gone
    BY <2>2, RxFacts, RingCounts DEF RxInv, Counts, BytesAvailable
  <2>7. Reading'
    BY <1>1, <1>3, <2>2, <2>3, <2>6, RxFacts DEF RxInv, Reading
  <2> QED BY <1>2, <2>4, <2>5, <2>7 DEF RxInv
<1>6. CASE ReadByte
  <2>1. /\ rx_pc = "reading" /\ rx_pc' = "reading" /\ local_read # local_write
        /\ out' = Append(out, rx_fifo.buffer[local_read])
        /\ local_read' = Inc(local_read) /\ bytes_read' = bytes_read + 1
        /\ UNCHANGED <<rx_fifo, unread_bytes, asked, local_write>>
    BY <1>6 DEF ReadByte, Main, More
  <2>2. local_read = Len(out) % Size /\ Len(out) + Distance(local_read, local_write) <= moved
    BY <2>1 DEF RxInv, Reading
  <2>3. Len(out) \in Gone .. moved - 1
    <3>1. Distance(local_read, local_write) >= 1
      BY <1>4, <2>1
    <3>2. Len(out) \in Nat /\ moved \in Nat /\ Gone \in Nat /\ Gone <= Len(out)
      BY RxFacts DEF Gone
    <3> QED BY <1>4, <2>2, <3>1, <3>2
  <2>4. rx_fifo.buffer[local_read] = Len(out) + 1 /\ Len(out) + 1 \in Val
    <3>1. Len(out) + 1 \in 0 .. MaxArrivals
      BY <2>3, RxFacts
    <3> QED BY <1>3, <2>2, <2>3, <3>1, ArrivalNumbers
  <2>5. /\ out \in Seq(Val) /\ out' \in Seq(Val) /\ Len(out') = Len(out) + 1
        /\ \A k \in 1 .. Len(out) : out'[k] = out[k]
        /\ out'[Len(out) + 1] = Len(out) + 1
    <3>1. out \in Seq(Val)
      BY DEF RxInv, RxTypeOK
    <3> QED BY <2>1, <2>4, <3>1, AppendProperties
  <2>6. local_read' \in Idx /\ local_read' = (Len(out) + 1) % Size
    BY <1>4, <2>1, <2>2, RxFacts, IncStep, ModWalk
  <2>7. Gone' = Gone /\ bytes_read + 1 \in 0 .. Size - 1
    BY <2>1, <2>3, <2>5, RxFacts DEF Gone
  <2>8. RxTypeOK'
    BY <1>1, <2>1, <2>5, <2>6, <2>7 DEF RxInv, RxTypeOK
  <2>9. Counts'
    BY <1>1, <2>1, <2>7 DEF RxInv, Counts, Ring
  <2>10. Distance(local_read', local_write') = Distance(local_read, local_write) - 1
    BY <1>4, <2>1, DistanceInc
  <2>11. Reading'
    <3>1. \A k \in 1 .. Len(out) + 1 : out'[k] = k
      <4>1. Len(out) \in Nat /\ \A k \in 1 .. Len(out) : out[k] = k
        BY RxFacts DEF RxInv, Reading
      <4> QED BY <2>5, <4>1
    <3>2. Len(out') + Distance(local_read', local_write') <= moved
      <4>1. Len(out) \in Nat /\ moved \in Nat
        BY RxFacts
      <4> QED BY <1>4, <2>2, <2>5, <2>10, <4>1
    <3> QED BY <1>1, <2>1, <2>5, <2>6, <3>1, <3>2 DEF Reading
  <2> QED BY <1>2, <2>8, <2>9, <2>11 DEF RxInv
<1>7. CASE ReadReturn
  <2>1. /\ rx_pc = "reading" /\ rx_pc' = "ready"
        /\ rx_fifo' = [rx_fifo EXCEPT !.read_index = local_read]
        /\ unread_bytes' = (unread_bytes - bytes_read) % WordMod
        /\ asked' = 0 /\ local_read' = 0 /\ local_write' = 0 /\ bytes_read' = 0
        /\ out' = out
    BY <1>7 DEF ReadReturn, Main
  <2>2. local_read = Len(out) % Size /\ Len(out) <= moved
    BY <1>4, <2>1, RxFacts DEF RxInv, Reading
  <2>3. Gone' = Len(out) /\ Len(out) \in Nat /\ Gone <= Len(out)
    BY <2>1, RxFacts DEF Gone
  <2>4. rx_fifo' \in FifoType
    BY <1>4, <2>1, RxFacts DEF FifoType
  <2>5. RxTypeOK'
    <3>1. unread_bytes' \in 0 .. WordMod - 1
      <4>1. unread_bytes \in Int /\ bytes_read \in Int /\ WordMod \in Nat /\ WordMod > 0
        BY WordIsWide DEF RxInv, RxTypeOK
      <4>2. (unread_bytes - bytes_read) % WordMod \in 0 .. WordMod - 1
        BY <4>1
      <4> QED BY <2>1, <4>2
    <3>2. 0 \in Idx /\ 0 \in 0 .. Size - 1
      BY DEF Idx
    <3> QED BY <1>1, <2>1, <2>4, <3>1, <3>2 DEF RxInv, RxTypeOK
  <2>6. Ring(rx_fifo', Len(out), moved)
    BY <1>3, <2>1, <2>2, <2>3, RxFacts DEF Ring, FifoType
  <2>7. Counts'
    BY <1>1, <2>2, <2>3, <2>6, RxFacts DEF Counts
  <2>8. Reading'
    BY <2>1 DEF RxInv, Reading
  <2> QED BY <1>2, <2>5, <2>7, <2>8 DEF RxInv
<1> QED BY <1>5, <1>6, <1>7 DEF ReadStep

(* RestartKeeps: uart_init over the handle starts from nothing.            *)
LEMMA RestartKeeps ==
  ASSUME RxInv, Restart
  PROVE  RxInv'
<1>1. /\ dma_buffer' = [k \in Idx |-> Zero] /\ pos' = 0
      /\ tc_pending' = FALSE /\ idle_pending' = FALSE /\ line_busy' = FALSE
      /\ receiving' \in BOOLEAN /\ rxlock' = FALSE /\ dma_index' = 0
      /\ rx_fifo' = FifoInit /\ unread_bytes' = 0 /\ status' = "UART_OK"
      /\ arrived' = 0 /\ moved' = 0 /\ out' = << >>
      /\ rx_pc = "ready" /\ isr.kind = "none" /\ UNCHANGED <<isr, rx_pc, locals>>
  BY DEF Restart
<1>2. 0 \in Idx /\ 0 \in 0 .. Size /\ 0 \in 0 .. Size - 1 /\ 0 \in 0 .. MaxArrivals /\ 0 \in Nat
      /\ 0 \in 0 .. WordMod - 1 /\ 0 % Size = 0
  BY SizeNat, ArrivalNumbers, WordIsWide DEF Idx
<1>3. FifoInit \in FifoType
  BY <1>2, ZeroAssumption DEF FifoInit, FifoType
<1>4. bytes_read' = 0 /\ out' \in Seq(Val) /\ Len(out') = 0 /\ Gone' = 0
  BY <1>1 DEF RxInv, Reading, Gone, locals
<1>5. RxTypeOK'
  BY <1>1, <1>2, <1>3, <1>4, ZeroAssumption DEF RxInv, RxTypeOK, locals
<1>6. Counts'
  BY <1>1, <1>2, <1>4, SizeNat DEF Counts, Ring, FifoInit
<1>7. Lap'
  BY <1>1, <1>2 DEF Lap
<1>8. Events' /\ IdleOwes'
  BY <1>1 DEF Events, IdleOwes
<1>9. Reading'
  BY <1>1, <1>4 DEF Reading
<1> QED BY <1>5, <1>6, <1>7, <1>8, <1>9 DEF RxInv

(* RxStepInv: every step of the line, the callback and the main program    *)
(* keeps the invariant.                                                    *)
LEMMA RxStepInv == RxInv /\ [RxNext]_rx_vars => RxInv'
<1> SUFFICES ASSUME RxInv, [RxNext]_rx_vars PROVE RxInv'
  OBVIOUS
<1>1. CASE UNCHANGED rx_vars
  <2>1. RxTypeOK'
    BY <1>1 DEF rx_vars, hardware, callback, locals, RxInv, RxTypeOK
  <2> QED BY <1>1, <2>1 DEF rx_vars, hardware, callback, locals, RxInv,
                            Counts, Gone, Ring, Lap, Events, IdleOwes, Reading
<1> QED BY <1>1, ArriveKeeps, LineKeeps, EnterKeeps, LeaveKeeps, RxUpdateKeeps, ReadKeeps,
           RestartKeeps DEF RxNext, Line, Callback

LEMMA RxInvariant == RxSpec => []RxInv
  BY RxInitInv, RxStepInv, PTL DEF RxSpec

(* RxTypeInvariant: the indices of the DMA buffer and of the ring stay in  *)
(* their arrays and unread_bytes in its word, whatever is dropped, counted *)
(* wrongly or read while the callback runs.                                *)
THEOREM RxTypeInvariant == RxSpec => []RxTypeOK
<1>1. RxInv => RxTypeOK
  BY DEF RxInv
<1> QED BY <1>1, RxInvariant, PTL

(* EventCatchesUpHolds: a callback that is not dropped leaves in rx_fifo   *)
(* the bytes its event is about, each once, for every buffer size and      *)
(* however long the session.                                               *)
THEOREM EventCatchesUpHolds == RxSpec => EventCatchesUp
<1>1. RxInv /\ [RxNext]_rx_vars
        => [(isr.kind # "none" /\ isr'.kind = "none") => moved' = isr.upto]_rx_vars
  <2> SUFFICES ASSUME RxInv, RxNext, isr.kind # "none", isr'.kind = "none"
               PROVE  moved' = isr.upto
    OBVIOUS
  <2>1. CASE TcLeave \/ IdleLeave
    BY <2>1, LeaveKeeps
  <2>2. CASE TcEnter \/ IdleEnter
    BY <2>2 DEF TcEnter, IdleEnter, Enter
  <2>3. CASE IdleIgnored \/ TcDropped \/ IdleDropped
    BY <2>3 DEF IdleIgnored, TcDropped, IdleDropped, callback
  <2>4. CASE Line
    BY <2>4 DEF Line, Arrive, LineIdle, LineError, callback
  <2>5. CASE RxUpdate
    BY <2>5 DEF RxUpdate, UpdateCompare, UpdateCount, Main, callback
  <2>6. CASE ReadStep \/ \E k \in ReadSizes : ReadCall(k)
    BY <2>6 DEF ReadStep, ReadByte, ReadReturn, ReadCall, Main, callback
  <2>7. CASE Restart
    BY <2>7 DEF Restart
  <2> QED BY <2>1, <2>2, <2>3, <2>4, <2>5, <2>6, <2>7 DEF RxNext, Callback
<1> QED BY <1>1, RxInvariant, PTL DEF RxSpec, EventCatchesUp

(* ReceivesInOrder: what the callback has put into rx_fifo comes out of    *)
(* uart_read in order, complete and once; only starting the uart again     *)
(* gives up what has not come out.                                         *)
THEOREM ReceivesInOrder == RxSpec => RxChannel!RestartableSafety
<1>1. RxInit => RxChannel!Init
  BY DEF RxInit, RxChannel!Init
<1>2. RxInv /\ [RxNext]_rx_vars
        => [RxChannel!Next \/ RxChannel!Reset]_<<Numbers(moved), out>>
  <2> SUFFICES ASSUME RxInv, [RxNext]_rx_vars
               PROVE  \/ RxChannel!Next \/ RxChannel!Reset
                      \/ UNCHANGED <<Numbers(moved), out>>
    OBVIOUS
  <2>1. CASE TcLeave \/ IdleLeave
    <3>1. moved \in Nat /\ moved' \in Nat /\ moved <= moved' /\ moved' <= MaxArrivals /\ out' = out
          /\ MaxArrivals \in Nat
      BY <2>1, LeaveKeeps, ArrivalNumbers DEF RxInv, RxTypeOK, Counts
    <3>2. CASE moved' = moved
      BY <3>1, <3>2 DEF Numbers
    <3>3. CASE moved' # moved
      <4>1. 1 .. moved' \subseteq Val
        BY <3>1, ArrivalNumbers
      <4>2. /\ Numbers(moved') \in Seq(Val) /\ Len(Numbers(moved')) = moved'
            /\ SubSeq(Numbers(moved'), 1, moved) = Numbers(moved)
        BY <3>1, <4>1, NumbersExtend
      <4>3. Len(Numbers(moved)) = moved
        BY <3>1 DEF Numbers
      <4>4. RxChannel!Accept
        BY <3>1, <3>3, <4>2, <4>3 DEF RxChannel!Accept, Numbers
      <4> QED BY <4>4 DEF RxChannel!Next
    <3> QED BY <3>2, <3>3
  <2>2. CASE ReadByte
    <3>1. /\ local_read # local_write /\ moved' = moved
          /\ out' = Append(out, rx_fifo.buffer[local_read]) /\ rx_pc = "reading"
      BY <2>2 DEF ReadByte, Main, More, callback
    <3>2. /\ local_read = Len(out) % Size /\ Len(out) + Distance(local_read, local_write) <= moved
          /\ Distance(local_read, local_write) \in 0 .. Size - 1
          /\ Distance(local_read, local_write) # 0
      BY <3>1, DistanceType DEF RxInv, RxTypeOK, Reading
    <3>3. moved \in Nat /\ Len(out) \in Gone .. moved - 1 /\ Len(out) + 1 \in 1 .. moved
      <4>1. Len(out) \in Nat /\ moved \in Nat /\ Gone \in Nat /\ Gone <= Len(out)
        BY RxFacts DEF Gone
      <4> QED BY <3>2, <4>1, SizeNat
    <3>4. rx_fifo.buffer[local_read] = Len(out) + 1
      BY <3>2, <3>3 DEF RxInv, Counts, Ring
    <3>5. Len(Numbers(moved)) = moved /\ Numbers(moved)[Len(out) + 1] = Len(out) + 1
      BY <3>3 DEF Numbers
    <3>6. RxChannel!Emit
      <4>1. Len(out) < moved
        BY <3>3, RxFacts
      <4> QED BY <3>1, <3>4, <3>5, <4>1 DEF RxChannel!Emit, Numbers
    <3> QED BY <3>6 DEF RxChannel!Next
  <2>3. CASE Restart
    BY <2>3 DEF Restart, RxChannel!Reset
  <2>4. CASE \/ Line \/ TcEnter \/ IdleEnter \/ IdleIgnored \/ TcDropped \/ IdleDropped
             \/ RxUpdate \/ ReadReturn \/ (\E k \in ReadSizes : ReadCall(k))
    <3>1. moved' = moved /\ out' = out
      BY <2>4 DEF Line, Arrive, LineIdle, LineError, TcEnter, IdleEnter, Enter, IdleIgnored, TcDropped,
                  IdleDropped, RxUpdate, UpdateCompare, UpdateCount, ReadReturn, ReadCall, Main, callback
    <3> QED BY <3>1 DEF Numbers
  <2>5. CASE UNCHANGED rx_vars
    BY <2>5 DEF rx_vars, callback, Numbers
  <2> QED BY <2>1, <2>2, <2>3, <2>4, <2>5 DEF RxNext, Callback, ReadStep
<1>3. RxInv /\ [RxNext]_rx_vars
        => [RxChannel!Next \/ RxChannel!Reset]_<<[k \in 1 .. moved |-> k], out>>
  BY <1>2 DEF Numbers
<1> QED BY <1>1, <1>3, RxInvariant, PTL DEF RxSpec, RxChannel!RestartableSafety

=============================================================================
