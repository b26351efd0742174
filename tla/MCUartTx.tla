------------------------------ MODULE MCUartTx ------------------------------
(* Rings of four slots and the bytes of a short session. *)
EXTENDS UartTx, TLC

MCVal == 0 .. MaxBytes

(* Where the interrupt may come: anywhere, only where it does no harm, and *)
(* where it finds a running fifo_write or the count being stored.          *)
Anywhere == Points
Harmless == {"ready", "tested", "counting", "updating"}
BeforeIndexStore == {"ready", "tested", "copy", "storing"}

(* No guard reads a stored byte or the line: states that differ only there *)
(* have the same future, and are one state of the runs about the control.  *)
ControlView == <<fifo.read_index, fifo.write_index, control, dma, pc, call, accepted>>

=============================================================================
