--------------------------- MODULE MCUartRegistry ---------------------------
(* Three slots for four handles and four ports. *)
EXTENDS UartRegistry, TLC

CONSTANTS h1, h2, h3, h4, p1, p2, p3, p4

MCHandle == {h1, h2, h3, h4}
MCPort == {p1, p2, p3, p4}

(* Handles and ports are told apart by nothing but their identity. *)
MCSymmetry == Permutations(MCHandle) \cup Permutations(MCPort)
=============================================================================
