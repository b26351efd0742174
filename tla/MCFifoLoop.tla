----------------------------- MODULE MCFifoLoop -----------------------------
(* A ring of four slots and two byte values, one of them '\0'.           *)
EXTENDS FifoLoop, TLC

CONSTANTS zero, v1

MCVal == {zero, v1}
=============================================================================
