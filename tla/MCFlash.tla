------------------------------ MODULE MCFlash ------------------------------
(* A chip of one block: two sectors of two pages of two bytes.  The writes *)
(* begin and end at, before and after the boundaries of a page and sector. *)
EXTENDS Flash

Zeros(n) == [i \in 1 .. n |-> FALSE]
MCWrites ==
  {[addr |-> 1, data |-> <<FALSE, TRUE, FALSE>>], [addr |-> 3, data |-> Zeros(4)],
   [addr |-> 5, data |-> << >>]}
MCMasks ==
  {[n |-> 1, bits |-> {"SRP"}], [n |-> 2, bits |-> {"SRL", "LB1"}],
   [n |-> 3, bits |-> {"RESERVED1"}]}
=============================================================================
