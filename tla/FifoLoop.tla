------------------------------ MODULE FifoLoop ------------------------------
(***************************************************************************)
(* Src/fifo.c as its one owner runs it: each loop iteration is a step, on  *)
(* the local copies of the indices, and the indices are stored back when   *)
(* the loop ends.  No other context touches the ring here; the modules     *)
(* about uart.c add the interrupt.                                         *)
(***************************************************************************)
EXTENDS Fifo

VARIABLES
  fifo,      \* the fifo_buffer_t
  pc,        \* the loop being run, or "ready"
  lr, lw,    \* local_read_index; next_write_index of fifo_write, else local_write_index
  data,      \* the bytes fifo_write was given
  dist,      \* the size or distance the other calls were given
  n,         \* bytes_written, bytes_read or i
  got,       \* what the running call has copied to its caller
  start      \* history: the fifo when the running call began

locals == <<pc, lr, lw, data, dist, n, got>>
vars == <<fifo, locals, start>>

Writes == UNION {[1 .. k -> Val] : k \in 0 .. Size}

Init ==
  /\ fifo = FifoInit
  /\ pc = "ready"
  /\ lr = 0 /\ lw = 0 /\ data = << >> /\ dist = 0 /\ n = 0
  /\ got = << >>
  /\ start = fifo

(* "Copy the indices locally in case they change". *)
CopyIndices == lr' = fifo.read_index /\ lw' = fifo.write_index

Call(loop) ==
  /\ pc = "ready"
  /\ pc' = loop
  /\ CopyIndices
  /\ UNCHANGED <<fifo, n, got, start>>

Return ==
  /\ pc' = "ready"
  /\ lr' = 0 /\ lw' = 0 /\ data' = << >> /\ dist' = 0 /\ n' = 0
  /\ got' = << >>
  /\ start' = fifo'

(* Variant: the loops look at their distance alone. *)
MoreUnchecked == n < dist

(* The reading loops stop at their distance or at local_write_index. *)
More == n < dist /\ lr # lw

WriteCall(d) ==
  /\ Call("write")
  /\ data' = d
  /\ UNCHANGED dist

(* Variant: the oldest byte is given up while there is a slot left. *)
WriteLoopPushesEarly ==
  /\ pc = "write" /\ n < Len(data)
  /\ fifo' = [fifo EXCEPT !.buffer[lw] = data[n + 1]]
  /\ n' = n + 1
  /\ lw' = Inc(lw)
  /\ lr' = IF Inc(Inc(lw)) = lr THEN Inc(lr) ELSE lr
  /\ UNCHANGED <<pc, data, dist, got, start>>

WriteLoop ==
  /\ pc = "write" /\ n < Len(data)
  /\ fifo' = [fifo EXCEPT !.buffer[lw] = data[n + 1]]
  /\ n' = n + 1
  /\ lw' = Inc(lw)
  /\ lr' = IF Inc(lw) = lr THEN Inc(lr) ELSE lr
  /\ UNCHANGED <<pc, data, dist, got, start>>

(* Variant: the pushed read index is not stored. *)
WriteReturnForgets ==
  /\ pc = "write" /\ n = Len(data)
  /\ fifo' = [fifo EXCEPT !.write_index = lw]
  /\ Return

WriteReturn ==
  /\ pc = "write" /\ n = Len(data)
  /\ fifo' = [fifo EXCEPT !.write_index = lw, !.read_index = lr]
  /\ Return

ReadCall(size) ==
  /\ ~IsEmpty(fifo)
  /\ Call("read")
  /\ dist' = size
  /\ UNCHANGED data

ReadLoop ==
  /\ pc = "read" /\ More
  /\ got' = Append(got, fifo.buffer[lr])
  /\ n' = n + 1
  /\ lr' = Inc(lr)
  /\ UNCHANGED <<fifo, pc, lw, data, dist, start>>

(* fifo_read, and fifo_push_read_index: the read index is stored back. *)
StoreReadIndex(loop) ==
  /\ pc = loop /\ ~More
  /\ fifo' = [fifo EXCEPT !.read_index = lr]
  /\ Return

PeekCall(distance, size) ==
  /\ ~IsEmpty(fifo)
  /\ Call("peek")
  /\ dist' = AtMost(distance, size)
  /\ UNCHANGED data

PeekLoop ==
  /\ pc = "peek" /\ More
  /\ got' = Append(got, fifo.buffer[lr])
  /\ n' = n + 1
  /\ lr' = Inc(lr)
  /\ UNCHANGED <<fifo, pc, lw, data, dist, start>>

(* Variant: peeking consumes, as reading does. *)
PeekReturnStores ==
  /\ pc = "peek" /\ ~More
  /\ fifo' = [fifo EXCEPT !.read_index = lr]
  /\ Return

PeekReturn ==
  /\ pc = "peek" /\ ~More
  /\ UNCHANGED fifo
  /\ Return

PushCall(distance) ==
  /\ ~IsEmpty(fifo)
  /\ Call("push")
  /\ dist' = distance
  /\ UNCHANGED data

PushLoop ==
  /\ pc = "push" /\ More
  /\ n' = n + 1
  /\ lr' = Inc(lr)
  /\ UNCHANGED <<fifo, pc, lw, data, dist, got, start>>

(* The early return of fifo_read, fifo_peek_continuous and                 *)
(* fifo_push_read_index on an empty ring changes nothing: it is a stutter. *)

Flush ==
  /\ pc = "ready"
  /\ fifo' = FifoFlushUnread(fifo)
  /\ start' = fifo'
  /\ UNCHANGED locals

Next ==
  \/ \E d \in Writes : WriteCall(d)
  \/ WriteLoop
  \/ WriteReturn
  \/ \E k \in 0 .. Size : ReadCall(k) \/ PushCall(k)
  \/ \E k, size \in 0 .. Size : PeekCall(k, size)
  \/ ReadLoop
  \/ PeekLoop
  \/ PushLoop
  \/ StoreReadIndex("read")
  \/ StoreReadIndex("push")
  \/ PeekReturn
  \/ Flush

Spec == Init /\ [][Next]_vars

-----------------------------------------------------------------------------
(* TypeOK: the indices, the running call and the storage stay in range.    *)
TypeOK ==
  /\ fifo \in FifoType
  /\ start \in FifoType
  /\ pc \in {"ready", "write", "read", "peek", "push"}
  /\ lr \in Idx /\ lw \in Idx
  /\ data \in Writes
  /\ dist \in 0 .. Size
  /\ n \in 0 .. Size
  /\ got \in Seq(Val)

(* Between its entry and its exit a call leaves both stored indices alone, *)
(* and only fifo_write touches the storage; the local indices are where    *)
(* n iterations lead to.  This is what makes the loops compute Fifo's      *)
(* closed forms.                                                           *)
Walked == n <= dist /\ n <= BytesAvailable(start)
          /\ lr = (start.read_index + n) % Size /\ lw = start.write_index

WrittenByte(i) ==
  IF Distance(start.write_index, i) < n
  THEN data[Distance(start.write_index, i) + 1] ELSE start.buffer[i]

Written ==
  /\ n <= Len(data)
  /\ lw = (start.write_index + n) % Size
  /\ lr = IF BytesAvailable(start) + n < Size THEN start.read_index ELSE Inc(lw)
  /\ fifo.read_index = start.read_index /\ fifo.write_index = start.write_index
  /\ \A i \in Idx : fifo.buffer[i] = WrittenByte(i)

LoopInv ==
  /\ pc = "write" => Written
  /\ pc # "write" => fifo = start
  /\ pc \in {"read", "peek", "push"} => Walked
  /\ pc \in {"ready", "write", "push"} => got = << >>
  /\ pc \in {"ready", "write"} => dist = 0
  /\ pc = "ready" => n = 0

(* LoopIsClosedForm: a fifo_write that ends leaves the ring exactly as     *)
(* FifoWrite says, from every position of the indices and for every size   *)
(* up to that of the ring, and a fifo_push_read_index that ends leaves it  *)
(* as FifoPushReadIndex says.  The modules about uart.c use these forms.   *)
LoopIsClosedForm ==
  [][ /\ (pc = "write" /\ pc' = "ready") => fifo' = FifoWrite(start, data)
      /\ (pc = "push" /\ pc' = "ready")  => fifo' = FifoPushReadIndex(start, dist)
    ]_vars

(* PeekForetellsRead: what fifo_peek_continuous copies out is what a       *)
(* fifo_read of the same size would hand over next, and the ring is left   *)
(* as it was; and fifo_peek shows an unread byte at its distance or none   *)
(* (it misses those beyond the end of the storage, fifo.c:95).             *)
PeekForetellsRead ==
  [][ /\ (pc = "peek" /\ pc' = "ready") =>
           /\ got = SubSeq(Unread(start), 1, AtMost(dist, BytesAvailable(start)))
           /\ fifo' = start
      /\ pc = "ready" =>
           \A d \in 0 .. Size :
             FifoPeek(fifo, d) # Zero =>
               d < BytesAvailable(fifo) /\ FifoPeek(fifo, d) = Unread(fifo)[d + 1]
    ]_vars

(* The queue a reader of the code has in mind, while a call runs and       *)
(* between calls.  A peek moves no byte.                                   *)
Moving == pc \in {"write", "read", "push"}
From == IF Moving THEN lr ELSE fifo.read_index
To == IF Moving THEN lw ELSE fifo.write_index
Contents == Between(fifo.buffer, From, To)

(* ImplementsQueue: the ring is a lossy queue of Size - 1 bytes; every     *)
(* iteration of a loop puts, takes or drops exactly one byte, and storing  *)
(* the indices back at the end of a loop is not visible.                   *)
LQ == INSTANCE LossyQueue WITH Capacity <- Size - 1, queue <- Contents,
                             out <- IF pc = "read" THEN got ELSE << >>
ImplementsQueue == LQ!Spec

=============================================================================
