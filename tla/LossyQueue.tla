----------------------------- MODULE LossyQueue -----------------------------
(***************************************************************************)
(* What the byte ring promises to a caller that has it for itself: a queue *)
(* of bounded capacity that never refuses a byte.  A byte put into a full  *)
(* queue drops the oldest one; bytes come out in the order they went in.   *)
(***************************************************************************)
EXTENDS Integers, Sequences

CONSTANTS Capacity,    \* most bytes the queue holds
          Val          \* the bytes

VARIABLES queue,       \* the bytes held, oldest first
          out          \* what the current read has handed out so far

Init == queue = << >> /\ out = << >>

Put(v) ==
  /\ queue' = IF Len(queue) < Capacity THEN Append(queue, v)
                                       ELSE Append(Tail(queue), v)
  /\ UNCHANGED out

Open == out' = << >> /\ UNCHANGED queue

Take ==
  /\ queue # << >>
  /\ out' = Append(out, Head(queue))
  /\ queue' = Tail(queue)

Drop ==
  /\ queue # << >>
  /\ queue' = Tail(queue)
  /\ UNCHANGED out

Clear == queue' = << >> /\ UNCHANGED out

Next == Open \/ Take \/ Drop \/ Clear \/ \E v \in Val : Put(v)

Spec == Init /\ [][Next]_<<queue, out>>

=============================================================================
