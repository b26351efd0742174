------------------------------- MODULE UartRx -------------------------------
(***************************************************************************)
(* The receive half of Src/uart.c.  A circular DMA stores what comes in    *)
(* on the line in dma_buffer; HAL_UARTEx_RxEventCallback, an interrupt,    *)
(* moves it to rx_fifo when the DMA wraps (TC) and when the line falls     *)
(* idle; the main program counts it (uart_update) and takes it out         *)
(* (uart_read).  The half-transfer event does nothing and is left out.     *)
(*                                                                         *)
(* Bytes are numbered in the order in which they come in.                  *)
(***************************************************************************)
EXTENDS Fifo

CONSTANTS
  MaxArrivals,     \* bound: bytes that come in in a behaviour
  ReadSizes,       \* sizes passed to uart_read
  WordMod          \* bound: stands for 2^32, the modulus of unread_bytes

ASSUME ArrivalNumbers == MaxArrivals \in Nat /\ 0 .. MaxArrivals \subseteq Val /\ Zero = 0
ASSUME ReadSizesAreSizes == ReadSizes \subseteq Nat /\ 1 \in ReadSizes
ASSUME WordIsWide == WordMod \in Nat /\ WordMod > 2 * Size

VARIABLES
  dma_buffer, pos,           \* the DMA's storage and where it stores next
  tc_pending, idle_pending,  \* interrupts raised and not yet taken
  line_busy,                 \* bytes have come in since the line was idle
  isr,                       \* the callback being run
  rxlock, dma_index,
  rx_fifo,                   \* uart->rx_fifo
  unread_bytes, status,
  rx_pc,                     \* the main program
  ge,                        \* fifo_bytes_available has seen write_index >= read_index
  asked, local_read, local_write, bytes_read,  \* size and the locals of fifo_read
  receiving,                 \* the DMA takes what comes in
  arrived,                   \* how many bytes have come in since uart_init
  moved,                     \* how many of them are or were in rx_fifo
  out                        \* what uart_read has handed to its callers

hardware == <<dma_buffer, pos, tc_pending, idle_pending, line_busy, receiving, arrived>>
callback == <<isr, rxlock, dma_index, moved>>
locals == <<ge, asked, local_read, local_write, bytes_read>>
rx_vars == <<hardware, callback, rx_fifo, unread_bytes, status, rx_pc, locals, out>>

NoEvent == [kind |-> "none", Size |-> 0, upto |-> 0]

RxInit ==
  /\ dma_buffer = [k \in Idx |-> Zero] /\ pos = 0
  /\ tc_pending = FALSE /\ idle_pending = FALSE /\ line_busy = FALSE
  /\ isr = NoEvent /\ rxlock = FALSE /\ dma_index = 0
  /\ rx_fifo = FifoInit
  /\ unread_bytes = 0 /\ status = "UART_OK"
  /\ rx_pc = "ready"
  /\ ge = FALSE /\ asked = 0 /\ local_read = 0 /\ local_write = 0 /\ bytes_read = 0
  /\ receiving \in BOOLEAN /\ arrived = 0 /\ moved = 0 /\ out = << >>

-----------------------------------------------------------------------------
(* The line and the DMA.  The model's assumptions about them: the bytes    *)
(* not yet taken out fit the ring, and an IDLE interrupt is entered before *)
(* the next byte is complete.                                              *)
Room == arrived - (Len(out) - bytes_read) < Size - 1

Arrive ==
  /\ receiving /\ arrived < MaxArrivals /\ Room
  /\ ~idle_pending
  /\ dma_buffer' = [dma_buffer EXCEPT ![pos] = arrived + 1]
  /\ pos' = Inc(pos)
  /\ tc_pending' = (tc_pending \/ pos = Size - 1)
  /\ line_busy' = TRUE
  /\ arrived' = arrived + 1
  /\ UNCHANGED <<idle_pending, receiving, callback, rx_fifo, unread_bytes, status, rx_pc, locals, out>>

LineIdle ==
  /\ line_busy
  /\ line_busy' = FALSE
  /\ idle_pending' = TRUE
  /\ UNCHANGED <<dma_buffer, pos, tc_pending, receiving, arrived,
                 callback, rx_fifo, unread_bytes, status, rx_pc, locals, out>>

(* A framing, noise or overrun error: the HAL ends the reception and takes *)
(* its interrupts back.  Nothing in uart.c starts it again but uart_init.  *)
LineError ==
  /\ receiving /\ isr.kind # "IDLE"
  /\ receiving' = FALSE
  /\ tc_pending' = FALSE /\ idle_pending' = FALSE /\ line_busy' = FALSE
  /\ UNCHANGED <<dma_buffer, pos, arrived, callback, rx_fifo, unread_bytes, status, rx_pc, locals, out>>

-----------------------------------------------------------------------------
(* HAL_UARTEx_RxEventCallback.  Entering it, the HAL has fixed the event   *)
(* and Size; the callback then holds rxlock until it returns, while the    *)
(* DMA goes on.  upto counts the bytes the event is about.                 *)
Enter(kind, n, upto) ==
  /\ isr.kind = "none"
  /\ isr' = [kind |-> kind, Size |-> n, upto |-> upto]
  /\ rxlock' = TRUE
  /\ UNCHANGED <<dma_index, moved, rx_fifo, unread_bytes, status, rx_pc, locals, out>>

TcEnter ==
  /\ tc_pending
  /\ Enter("TC", Size, arrived - pos)
  /\ tc_pending' = FALSE
  /\ UNCHANGED <<dma_buffer, pos, idle_pending, line_busy, receiving, arrived>>

(* When both are pending the DMA's interrupt is taken first. *)
IdleEnter ==
  /\ idle_pending /\ ~tc_pending /\ pos # 0
  /\ Enter("IDLE", pos, arrived)
  /\ idle_pending' = FALSE
  /\ UNCHANGED <<dma_buffer, pos, tc_pending, line_busy, receiving, arrived>>

(* An IDLE at the very end of the buffer is not reported by the HAL. *)
IdleIgnored ==
  /\ idle_pending /\ ~tc_pending /\ pos = 0 /\ isr.kind = "none"
  /\ idle_pending' = FALSE
  /\ UNCHANGED <<dma_buffer, pos, tc_pending, line_busy, receiving, arrived,
                 callback, rx_fifo, unread_bytes, status, rx_pc, locals, out>>

(* One event interrupting the other's callback finds rxlock and is lost. *)
TcDropped ==
  /\ tc_pending /\ isr.kind = "IDLE" /\ rxlock
  /\ tc_pending' = FALSE
  /\ UNCHANGED <<dma_buffer, pos, idle_pending, line_busy, receiving, arrived,
                 callback, rx_fifo, unread_bytes, status, rx_pc, locals, out>>

IdleDropped ==
  /\ idle_pending /\ ~tc_pending /\ isr.kind = "TC" /\ rxlock
  /\ idle_pending' = FALSE
  /\ UNCHANGED <<dma_buffer, pos, tc_pending, line_busy, receiving, arrived,
                 callback, rx_fifo, unread_bytes, status, rx_pc, locals, out>>

(* The bytes dma_buffer holds from one index up to another. *)
Slice(from, to) == [k \in 1 .. to - from |-> dma_buffer[from + k - 1]]

Leave(data) ==
  /\ rx_fifo' = FifoWrite(rx_fifo, data)
  /\ moved' = moved + Len(data)
  /\ isr' = NoEvent
  /\ rxlock' = FALSE
  /\ UNCHANGED <<hardware, unread_bytes, status, rx_pc, locals, out>>

TcLeave ==
  /\ isr.kind = "TC"
  /\ Leave(IF dma_index # Size THEN Slice(dma_index, Size) ELSE << >>)
  /\ dma_index' = isr.Size

(* Variant: of a burst that wrapped, only the part from the start of the   *)
(* buffer is moved.                                                        *)
IdleLeaveForgetsTail ==
  /\ isr.kind = "IDLE"
  /\ Leave(Slice(IF isr.Size > dma_index THEN dma_index ELSE 0, isr.Size))
  /\ dma_index' = isr.Size

IdleLeave ==
  /\ isr.kind = "IDLE"
  /\ Leave(IF isr.Size > dma_index
           THEN Slice(dma_index, isr.Size)
           ELSE Slice(dma_index, Size) \o Slice(0, isr.Size))
  /\ dma_index' = isr.Size

-----------------------------------------------------------------------------
(* The main program runs while no callback does.  uart_update compares the *)
(* indices and subtracts them; the build may load write_index once or      *)
(* twice (neither it nor the handle is volatile).                          *)
Main(at) == rx_pc = at /\ isr.kind = "none" /\ UNCHANGED <<hardware, callback>>

UpdateCompare ==
  /\ Main("ready")
  /\ rx_pc' = "comparing"
  /\ local_write' = rx_fifo.write_index
  /\ ge' = (rx_fifo.write_index >= rx_fifo.read_index)
  /\ UNCHANGED <<rx_fifo, unread_bytes, status, asked, local_read, bytes_read, out>>

UpdateCount ==
  /\ Main("comparing")
  /\ rx_pc' = "ready"
  /\ \E w \in {local_write, rx_fifo.write_index} :
       unread_bytes' = IF ge THEN (w - rx_fifo.read_index) % WordMod
                             ELSE (Size - rx_fifo.read_index) + w
  /\ status' = IF unread_bytes' > Size THEN "UART_RX_FULL" ELSE status
  /\ local_write' = 0 /\ ge' = FALSE
  /\ UNCHANGED <<rx_fifo, asked, local_read, bytes_read, out>>

ReadCall(k) ==
  /\ Main("ready") /\ unread_bytes > 0
  /\ rx_pc' = "reading"
  /\ asked' = k
  /\ local_read' = rx_fifo.read_index /\ local_write' = rx_fifo.write_index /\ bytes_read' = 0
  /\ UNCHANGED <<rx_fifo, unread_bytes, status, ge, out>>

More == bytes_read < asked /\ local_read # local_write

ReadByte ==
  /\ Main("reading") /\ More
  /\ out' = Append(out, rx_fifo.buffer[local_read])
  /\ local_read' = Inc(local_read)
  /\ bytes_read' = bytes_read + 1
  /\ UNCHANGED <<rx_fifo, unread_bytes, status, rx_pc, ge, asked, local_write>>

(* Variant: what came in while reading is given up. *)
ReadReturnFlushes ==
  /\ Main("reading") /\ ~More
  /\ rx_pc' = "ready"
  /\ rx_fifo' = FifoFlushUnread(rx_fifo)
  /\ unread_bytes' = (unread_bytes - bytes_read) % WordMod
  /\ asked' = 0 /\ local_read' = 0 /\ local_write' = 0 /\ bytes_read' = 0
  /\ UNCHANGED <<status, ge, out>>

(* On an empty ring fifo_read returns before it stores read_index: the     *)
(* same, since lr is still read_index then.                                *)
ReadReturn ==
  /\ Main("reading") /\ ~More
  /\ rx_pc' = "ready"
  /\ rx_fifo' = [rx_fifo EXCEPT !.read_index = local_read]
  /\ unread_bytes' = (unread_bytes - bytes_read) % WordMod
  /\ asked' = 0 /\ local_read' = 0 /\ local_write' = 0 /\ bytes_read' = 0
  /\ UNCHANGED <<status, ge, out>>

(* uart_deinit, which aborts the port so that no callback comes, and then  *)
(* uart_init, which does not look whether the reception has started.       *)
Restart ==
  /\ rx_pc = "ready" /\ isr.kind = "none"
  /\ dma_buffer' = [k \in Idx |-> Zero] /\ pos' = 0
  /\ tc_pending' = FALSE /\ idle_pending' = FALSE /\ line_busy' = FALSE
  /\ receiving' \in BOOLEAN
  /\ rxlock' = FALSE /\ dma_index' = 0
  /\ rx_fifo' = FifoInit
  /\ unread_bytes' = 0 /\ status' = "UART_OK"
  /\ arrived' = 0 /\ moved' = 0 /\ out' = << >>
  /\ UNCHANGED <<isr, rx_pc, locals>>

Line == Arrive \/ LineIdle \/ LineError
Callback == TcEnter \/ IdleEnter \/ IdleIgnored \/ TcDropped \/ IdleDropped \/ TcLeave \/ IdleLeave
RxUpdate == UpdateCompare \/ UpdateCount
ReadStep == ReadByte \/ ReadReturn

RxNext == Line \/ Callback \/ RxUpdate \/ ReadStep \/ Restart \/ \E k \in ReadSizes : ReadCall(k)

RxSpec == RxInit /\ [][RxNext]_rx_vars

(* Interrupts are taken and return, a call goes on once begun, and the     *)
(* main loop keeps calling uart_update, and uart_read with room for bytes. *)
RxFairness ==
  /\ WF_rx_vars(Callback) /\ SF_rx_vars(UpdateCompare) /\ WF_rx_vars(UpdateCount) /\ WF_rx_vars(ReadStep)
  /\ SF_rx_vars(\E k \in ReadSizes \ {0} : ReadCall(k))

RxFairSpec == RxSpec /\ RxFairness

-----------------------------------------------------------------------------
(* RxTypeOK: dma_index may stand one past the buffer, unread_bytes any-    *)
(* where in its word; every other index stays in its array.                *)
RxTypeOK ==
  /\ dma_buffer \in [Idx -> Val] /\ pos \in Idx
  /\ tc_pending \in BOOLEAN /\ idle_pending \in BOOLEAN /\ line_busy \in BOOLEAN
  /\ receiving \in BOOLEAN
  /\ isr \in [kind : {"none", "TC", "IDLE"}, Size : 0 .. Size, upto : 0 .. MaxArrivals]
  /\ rxlock = (isr.kind # "none")
  /\ dma_index \in 0 .. Size
  /\ rx_fifo \in FifoType
  /\ unread_bytes \in 0 .. WordMod - 1
  /\ status \in {"UART_OK", "UART_RX_FULL"}
  /\ rx_pc \in {"ready", "comparing", "reading"}
  /\ ge \in BOOLEAN /\ asked \in ReadSizes \cup {0}
  /\ local_read \in Idx /\ local_write \in Idx /\ bytes_read \in 0 .. Size - 1
  /\ arrived \in 0 .. MaxArrivals /\ moved \in Nat
  /\ out \in Seq(Val)

(* EventCatchesUp: a callback that is not dropped leaves in rx_fifo every  *)
(* byte its event is about and no byte twice, whatever events before it    *)
(* were dropped and however the DMA wrapped in between.                    *)
EventCatchesUp == [][(isr.kind # "none" /\ isr'.kind = "none") => moved' = isr.upto]_rx_vars

(* ImplementsRxChannel: what the callback has put into rx_fifo comes out   *)
(* of uart_read in the order of the line, complete and once, though        *)
(* callbacks come in while it reads; and all of it comes out, after a line *)
(* error too, unless the uart is started again, with a clean slate then.   *)
RxChannel == INSTANCE ByteChannel WITH
  Byte <- Val, accepted <- [k \in 1 .. moved |-> k], delivered <- out
ImplementsRxChannel == RxChannel!RestartableSpec

=============================================================================
