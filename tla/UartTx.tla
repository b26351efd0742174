------------------------------- MODULE UartTx -------------------------------
(***************************************************************************)
(* The transmit half of Src/uart.c: the main program fills tx_fifo, the    *)
(* DMA reads it, and HAL_UART_TxCpltCallback, an interrupt, moves on to    *)
(* the next stretch.  The interrupt preempts the main program between any  *)
(* two accesses to what they share, where PreemptPoints lets it.           *)
(*                                                                         *)
(* Bytes are numbered in the order in which they are handed to uart_write. *)
(***************************************************************************)
EXTENDS Fifo

CONSTANTS
  MaxBytes,        \* bound: bytes handed over in a behaviour
  WriteSizes,      \* sizes passed to uart_write
  PacketSizes,     \* values of packet_size passed to uart_write_packet
  Overrun,         \* may a caller hand over more than the ring has room for?
  PreemptPoints    \* values of pc at which the interrupt may be taken

ASSUME ByteNumbers == MaxBytes \in Nat /\ 0 .. MaxBytes \subseteq Val /\ Zero = 0
ASSUME SizesAreSizes == WriteSizes \subseteq Nat /\ PacketSizes \subseteq Nat

VARIABLES
  fifo,            \* uart->tx_fifo
  tx_busy, tx_waiting, tx_remaining, tx_size,
  dma,             \* the transfer HAL_UART_Transmit_DMA started
  pc,              \* the main program: what it does next
  n, left,         \* bytes the running write was given, and has still to copy
  lr, lw,          \* fifo_write's local_read_index and next_write_index
  rem, full,       \* the tx_remaining it has computed, and the least it clamps
  accepted,        \* how many bytes have been handed over
  wire             \* the bytes the DMA has put on the line

control == <<tx_busy, tx_waiting, tx_remaining, tx_size>>
call == <<n, left, lr, lw, rem, full>>
vars == <<fifo, control, dma, pc, call, accepted, wire>>

Points == {"ready", "tested", "copy", "storing", "counting", "counted", "comparing",
           "clamping", "marking", "updating"}

Idle == [active |-> FALSE, addr |-> 0, len |-> 0, pos |-> 0]

(* HAL_UART_Transmit_DMA refuses while a transfer runs (HAL_BUSY) and      *)
(* refuses an empty one (HAL_ERROR); uart.c looks at neither.              *)
Transmit(d, addr, len) ==
  IF d.active \/ len = 0
  THEN d
  ELSE [active |-> TRUE, addr |-> addr, len |-> len, pos |-> 0]

(* tx_waiting is not set by uart_init: a handle used before keeps it. *)
Init ==
  /\ fifo = FifoInit
  /\ tx_busy = FALSE /\ tx_waiting \in BOOLEAN /\ tx_remaining = 0 /\ tx_size = 0
  /\ dma = Idle
  /\ pc = "ready"
  /\ n = 0 /\ left = 0 /\ lr = 0 /\ lw = 0 /\ rem = 0 /\ full = 0
  /\ accepted = 0 /\ wire = << >>

(* A caller that watches the ring hands over no more than fits. *)
Fits(size) ==
  /\ accepted + AtMost(size, Size) <= MaxBytes
  /\ Overrun \/ size <= Size - 1 - BytesAvailable(fifo)

NewBytes(k) == [i \in 1 .. k |-> accepted + i]

(* Variant: a transfer is not cut where the buffer ends. *)
BytesToEndIgnored(f) == Size

BytesToEnd(f) == Size - f.read_index

(* uart_write while no transfer runs.  The interrupt cannot come in        *)
(* between: it belongs to a transfer.                                      *)
WriteIdle(size) ==
  LET ret == AtMost(size, Size)
      f == FifoWrite(fifo, NewBytes(ret))
      wraps == ret > BytesToEnd(f)
  IN  /\ pc = "ready" /\ ~tx_busy /\ Fits(size)
      /\ fifo' = f
      /\ tx_busy' = TRUE
      /\ tx_waiting' = (wraps \/ tx_waiting)
      /\ tx_remaining' = IF wraps THEN tx_remaining + (ret - BytesToEnd(f)) ELSE tx_remaining
      /\ tx_size' = AtMost(ret, BytesToEnd(f))
      /\ dma' = Transmit(dma, f.read_index, tx_size')
      /\ accepted' = accepted + ret
      /\ UNCHANGED <<pc, call, wire>>

(* A write while a transfer runs, one shared access at a time. *)
Busy(size, limit) ==
  /\ pc = "ready" /\ tx_busy /\ Fits(size)
  /\ pc' = "tested"
  /\ n' = AtMost(size, Size) /\ left' = n' /\ full' = limit
  /\ UNCHANGED <<fifo, control, dma, lr, lw, rem, accepted, wire>>

(* uart_write clamps what is more than the ring. *)
WriteBusy(size) == Busy(size, Size + 1)

CopyIndices ==
  /\ pc = "tested"
  /\ pc' = "copy"
  /\ lr' = fifo.read_index /\ lw' = fifo.write_index
  /\ UNCHANGED <<fifo, control, dma, n, left, rem, full, accepted, wire>>

CopyByte ==
  /\ pc = "copy" /\ left > 0
  /\ fifo' = [fifo EXCEPT !.buffer[lw] = accepted + 1]
  /\ lw' = Inc(lw)
  /\ lr' = IF Inc(lw) = lr THEN Inc(lr) ELSE lr
  /\ left' = left - 1
  /\ accepted' = accepted + 1
  /\ UNCHANGED <<control, dma, pc, n, rem, full, wire>>

StoreWriteIndex ==
  /\ pc = "copy" /\ left = 0
  /\ pc' = "storing"
  /\ fifo' = [fifo EXCEPT !.write_index = lw]
  /\ UNCHANGED <<control, dma, call, accepted, wire>>

StoreReadIndex ==
  /\ pc = "storing"
  /\ pc' = "counting"
  /\ fifo' = [fifo EXCEPT !.read_index = lr]
  /\ UNCHANGED <<control, dma, call, accepted, wire>>

(* tx_remaining += ret: loaded... *)
CountBytes ==
  /\ pc = "counting"
  /\ pc' = "counted"
  /\ rem' = tx_remaining + n
  /\ UNCHANGED <<fifo, control, dma, n, left, lr, lw, full, accepted, wire>>

(* ... and stored, ... *)
StoreRemaining ==
  /\ pc = "counted"
  /\ pc' = "comparing"
  /\ tx_remaining' = rem
  /\ UNCHANGED <<fifo, tx_busy, tx_waiting, tx_size, dma, call, accepted, wire>>

(* Variant: the clamp is forgotten. *)
CompareNothing ==
  /\ pc = "comparing"
  /\ pc' = "marking"
  /\ UNCHANGED <<fifo, control, dma, call, accepted, wire>>

(* ... compared, loaded again or not, as the compiler will, ... *)
CompareRemaining ==
  /\ pc = "comparing"
  /\ \E r \in {rem, tx_remaining} : pc' = IF r >= full THEN "clamping" ELSE "marking"
  /\ UNCHANGED <<fifo, control, dma, call, accepted, wire>>

(* ... and stored again. *)
ClampRemaining ==
  /\ pc = "clamping"
  /\ pc' = "marking"
  /\ tx_remaining' = Size
  /\ UNCHANGED <<fifo, tx_busy, tx_waiting, tx_size, dma, call, accepted, wire>>

(* Variant: the callback is not told that more bytes wait. *)
MarkNothing ==
  /\ pc = "marking"
  /\ pc' = "ready"
  /\ n' = 0 /\ lr' = 0 /\ lw' = 0 /\ rem' = 0 /\ full' = 0
  /\ UNCHANGED <<fifo, control, dma, left, accepted, wire>>

MarkWaiting ==
  /\ pc = "marking"
  /\ pc' = "ready"
  /\ tx_waiting' = TRUE
  /\ n' = 0 /\ lr' = 0 /\ lw' = 0 /\ rem' = 0 /\ full' = 0
  /\ UNCHANGED <<fifo, tx_busy, tx_remaining, tx_size, dma, left, accepted, wire>>

(* uart_write_packet decides and writes as uart_write does, but clamps,    *)
(* and so stores once more, at the size of the ring already.               *)
WritePacketIdle(packet_size) == WriteIdle(packet_size)
WritePacketBusy(packet_size) == Busy(packet_size, Size)

(* uart_update: tx_remaining is tested first, then tx_busy. *)
UpdateBegin ==
  /\ pc = "ready" /\ tx_remaining > 0
  /\ pc' = "updating"
  /\ UNCHANGED <<fifo, control, dma, call, accepted, wire>>

(* Variant: uart_update does not look whether a transfer runs. *)
KickAlways == TRUE

MayKick == ~tx_busy

UpdateSkip ==
  /\ pc = "updating" /\ ~MayKick
  /\ pc' = "ready"
  /\ UNCHANGED <<fifo, control, dma, call, accepted, wire>>

UpdateKick ==
  /\ pc = "updating" /\ MayKick
  /\ pc' = "ready"
  /\ tx_size' = AtMost(tx_remaining, BytesToEnd(fifo))
  /\ tx_waiting' = (tx_remaining > BytesToEnd(fifo))
  /\ tx_remaining' = tx_remaining - tx_size'
  /\ tx_busy' = (tx_size' > 0)
  /\ dma' = Transmit(dma, fifo.read_index, tx_size')
  /\ UNCHANGED <<fifo, call, accepted, wire>>

(* The DMA reads one byte of tx_buffer and sends it. *)
DmaByte ==
  /\ dma.active /\ dma.pos < dma.len
  /\ dma' = [dma EXCEPT !.pos = @ + 1]
  /\ wire' = Append(wire, fifo.buffer[dma.addr + dma.pos])
  /\ UNCHANGED <<fifo, control, pc, call, accepted>>

(* HAL_UART_TxCpltCallback; the HAL has made the channel ready again. *)
TxCplt ==
  /\ dma.active /\ dma.pos = dma.len
  /\ pc \in PreemptPoints
  /\ fifo' = FifoPushReadIndex(fifo, tx_size)
  /\ \/ /\ ~tx_waiting
        /\ tx_remaining' = 0 /\ tx_size' = 0
        /\ UNCHANGED tx_waiting
     \/ /\ tx_waiting /\ tx_remaining > BytesToEnd(fifo')
        /\ tx_size' = BytesToEnd(fifo')
        /\ tx_remaining' = tx_remaining - tx_size'
        /\ UNCHANGED tx_waiting
     \/ /\ tx_waiting /\ tx_remaining <= BytesToEnd(fifo')
        /\ tx_size' = tx_remaining
        /\ tx_remaining' = 0
        /\ tx_waiting' = FALSE
  /\ dma' = Transmit(Idle, fifo'.read_index, tx_size')
  /\ tx_busy' = (tx_size' > 0)
  /\ UNCHANGED <<pc, call, accepted, wire>>

Write ==
  \/ \E size \in WriteSizes : WriteIdle(size) \/ WriteBusy(size)
  \/ \E size \in PacketSizes : WritePacketIdle(size) \/ WritePacketBusy(size)

(* The main program inside a call. *)
WriteStep ==
  \/ CopyIndices \/ CopyByte \/ StoreWriteIndex \/ StoreReadIndex
  \/ CountBytes \/ StoreRemaining \/ CompareRemaining \/ ClampRemaining \/ MarkWaiting

Update == UpdateBegin \/ UpdateSkip \/ UpdateKick

Next == Write \/ WriteStep \/ Update \/ DmaByte \/ TxCplt

Spec == Init /\ [][Next]_vars

(* A call that has begun goes on, the main loop keeps calling uart_update, *)
(* a transfer runs to its end and its interrupt is taken.                  *)
Fairness ==
  /\ WF_vars(WriteStep) /\ WF_vars(Update)
  /\ WF_vars(DmaByte) /\ WF_vars(TxCplt)

FairSpec == Spec /\ Fairness

-----------------------------------------------------------------------------
(* TypeOK: the shared state and the locals of a call stay in range, also   *)
(* when the interrupt cuts a call anywhere: tx_remaining, which four       *)
(* places add to or take from, stays below two laps, and below three where *)
(* a write has added to it and not yet clamped it.                         *)
TypeOK ==
  /\ fifo \in FifoType
  /\ tx_busy \in BOOLEAN /\ tx_waiting \in BOOLEAN
  /\ tx_remaining \in 0 .. 3 * Size - 1
  /\ pc \notin {"comparing", "clamping"} => tx_remaining < 2 * Size
  /\ tx_size \in 0 .. Size
  /\ dma \in [active : BOOLEAN, addr : Idx, len : 0 .. Size, pos : 0 .. Size]
  /\ pc \in Points
  /\ n \in 0 .. Size /\ left \in 0 .. Size /\ rem \in 0 .. 3 * Size - 1
  /\ full \in {0, Size, Size + 1}
  /\ lr \in Idx /\ lw \in Idx
  /\ accepted \in 0 .. MaxBytes
  /\ wire \in Seq(Val)

(* DmaInBounds: a transfer never reads past the end of tx_buffer, whatever *)
(* the sizes written and wherever the interrupt comes in.                  *)
DmaInBounds == dma.active => dma.addr + dma.len <= Size /\ dma.pos <= dma.len

(* BusyWhileActive: tx_busy is up for as long as a transfer runs, so no    *)
(* caller starts a second one over it (HAL_BUSY would lose its bytes) and  *)
(* the transfer is the one tx_size speaks of.                              *)
BusyWhileActive == dma.active => tx_busy /\ dma.len = tx_size

(* Ledger: between calls every unread byte of tx_fifo is either in the     *)
(* transfer or counted in tx_remaining, and none of them is counted twice. *)
Ledger ==
  pc = "ready" =>
    BytesAvailable(fifo) = (IF tx_busy THEN tx_size ELSE 0) + tx_remaining

(* ImplementsChannel: the transmitter is a reliable channel from           *)
(* uart_write to the line, and everything accepted is sent.                *)
Channel == INSTANCE ByteChannel WITH
  Byte <- Val, accepted <- [i \in 1 .. accepted |-> i], delivered <- wire
ImplementsChannel == Channel!Spec

(* SentOnceInOrder: no byte is sent after a younger one, or twice.  The    *)
(* comment at fifo.c:38 says the indices are copied "in case they change", *)
(* and fifo.c:50 drops the oldest bytes for good.                          *)
SentOnceInOrder == \A i \in 1 .. Len(wire) - 1 : wire[i] < wire[i + 1]

=============================================================================
