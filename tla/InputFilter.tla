---------------------------- MODULE InputFilter ----------------------------
(***************************************************************************)
(* Src/input_filter.c: an exponential filter of the input of an axis.  Its *)
(* output is kept times Unit, so that every one of MaxUpdates updates is   *)
(* exact; the rounding of floats is left out.                              *)
(***************************************************************************)
EXTENDS Integers

CONSTANTS
  AlphaOne,        \* alpha counts in steps of 1 / AlphaOne
  Alphas,          \* what callers ask for, from commands too
  Inputs,
  MaxUpdates       \* bound: updates between two inits

VARIABLES alpha, output,
          low, high,       \* history: the least and the greatest input, and 0
          updates          \* history: how many

filter == <<alpha, output, low, high, updates>>

Unit == AlphaOne ^ MaxUpdates

(* Variant: only too large an alpha is cut. *)
CutAbove(a) == IF a > AlphaOne THEN AlphaOne ELSE a

Cut(a) ==
  CASE a > AlphaOne -> AlphaOne
    [] a < 0 -> 0
    [] OTHER -> a

Init == alpha = 0 /\ output = 0 /\ low = 0 /\ high = 0 /\ updates = 0

input_filter_init ==
  /\ \E a \in Alphas : alpha' = Cut(a)
  /\ output' = 0 /\ low' = 0 /\ high' = 0 /\ updates' = 0

input_filter_set_alpha ==
  /\ \E a \in Alphas : alpha' = Cut(a)
  /\ UNCHANGED <<output, low, high, updates>>

input_filter_update ==
  /\ updates < MaxUpdates /\ updates' = updates + 1
  /\ \E input \in Inputs :
       /\ output' = (alpha * input * Unit + (AlphaOne - alpha) * output) \div AlphaOne
       /\ low' = IF input < low THEN input ELSE low
       /\ high' = IF input > high THEN input ELSE high
  /\ UNCHANGED alpha

Next == input_filter_init \/ input_filter_set_alpha \/ input_filter_update

-----------------------------------------------------------------------------
(* FilterStaysBetween: whatever alphas were asked for in between, the      *)
(* output is never below or above every input it was made from.            *)
FilterStaysBetween == output \in low * Unit .. high * Unit

=============================================================================
