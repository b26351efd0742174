---------------------------- MODULE ByteChannel ----------------------------
(***************************************************************************)
(* What either direction of a uart promises: the bytes handed over on one  *)
(* side come out on the other, in order, none lost, none twice, and all of *)
(* them in the end.  One call may hand over several bytes.                 *)
(***************************************************************************)
EXTENDS Integers, Sequences

CONSTANT Byte

VARIABLES accepted,    \* every byte handed over so far
          delivered    \* every byte that has come out

Init == accepted = << >> /\ delivered = << >>

Accept ==
  /\ accepted' \in Seq(Byte)
  /\ Len(accepted') > Len(accepted)
  /\ SubSeq(accepted', 1, Len(accepted)) = accepted
  /\ UNCHANGED delivered

Emit ==
  /\ Len(delivered) < Len(accepted)
  /\ delivered' = Append(delivered, accepted[Len(delivered) + 1])
  /\ UNCHANGED accepted

Next == Accept \/ Emit

Safety == Init /\ [][Next]_<<accepted, delivered>>

Spec == Safety /\ WF_<<accepted, delivered>>(Emit)

(* A channel that can be started again loses what has not come out by then.*)
Reset == accepted' = << >> /\ delivered' = << >>

RestartableSafety == Init /\ [][Next \/ Reset]_<<accepted, delivered>>

RestartableSpec == RestartableSafety /\ WF_<<accepted, delivered>>(Emit)

=============================================================================
