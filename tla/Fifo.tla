-------------------------------- MODULE Fifo --------------------------------
(***************************************************************************)
(* The byte ring of Src/fifo.c, as functions from a fifo to a fifo.        *)
(*                                                                         *)
(* A fifo is the part of fifo_buffer_t that changes: the storage and the   *)
(* two indices.  fifo->size is the constant Size, and x & fifo->mask is    *)
(* x % Size because the mask is Size - 1 and Size is a power of two        *)
(* (UART_BUFFER_SIZE, the only size uart.c uses, is 1024).                 *)
(*                                                                         *)
(* The loops of fifo.c are given here in closed form.  Module FifoLoop     *)
(* runs the same loops one iteration per step and FifoLoop_proofs shows    *)
(* that they compute what is defined here.                                 *)
(***************************************************************************)
EXTENDS Integers, Sequences

CONSTANTS Size,        \* fifo->size
          Val,         \* the bytes
          Zero         \* '\0', what a cleared buffer holds

ASSUME SizeAssumption ==
  /\ Size \in Nat
  /\ Size >= 2
  /\ \E k \in 1 .. 31 : Size = 2^k

ASSUME ZeroAssumption == Zero \in Val

Idx == 0 .. Size - 1

FifoType == [buffer : [Idx -> Val], read_index : Idx, write_index : Idx]

(* fifo_init over a buffer its owner has just cleared (uart_init). *)
FifoInit ==
  [buffer |-> [i \in Idx |-> Zero], read_index |-> 0, write_index |-> 0]

(* Variant: the mask is forgotten. *)
IncUnmasked(i) == i + 1

Inc(i) == (i + 1) % Size

(* The number of increments that lead from index i to index j. *)
Distance(i, j) == IF j >= i THEN j - i ELSE (Size - i) + j

AtMost(n, m) == IF n < m THEN n ELSE m

IsEmpty(f) == f.read_index = f.write_index

BytesAvailable(f) == Distance(f.read_index, f.write_index)

(* The bytes a buffer holds from index i up to but not including index j. *)
Between(buffer, i, j) ==
  [k \in 1 .. Distance(i, j) |-> buffer[(i + (k - 1)) % Size]]

(* The unread bytes, oldest first. *)
Unread(f) == Between(f.buffer, f.read_index, f.write_index)

(* fifo_write never refuses: when the ring is full it drops the oldest     *)
(* bytes by pushing the read index.  Callers pass at most Size bytes.      *)
FifoWrite(f, data) ==
  LET n == Len(data)
      w == (f.write_index + n) % Size
  IN  [buffer      |-> [i \in Idx |-> LET d == Distance(f.write_index, i)
                                      IN  IF d < n THEN data[d + 1] ELSE f.buffer[i]],
       write_index |-> w,
       read_index  |-> IF BytesAvailable(f) + n < Size THEN f.read_index ELSE Inc(w)]

FifoFlushUnread(f) == [f EXCEPT !.read_index = f.write_index]

(* Variant: everything unread is given up, as the transmit callback that   *)
(* is commented out in uart.c did.                                         *)
PushEverything(f, distance) == FifoFlushUnread(f)

FifoPushReadIndex(f, distance) ==
  [f EXCEPT !.read_index = (@ + AtMost(distance, BytesAvailable(f))) % Size]

(* fifo_peek compares unmasked indices. *)
FifoPeek(f, peek_distance) ==
  IF f.read_index + peek_distance >= f.write_index
  THEN Zero
  ELSE f.buffer[f.read_index + peek_distance]

=============================================================================
