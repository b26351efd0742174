---------------------------- MODULE AxisControl ----------------------------
(***************************************************************************)
(* Src/axis_control.c: the calibration of one axis.  It is set from the    *)
(* bytes of a packet or a file, cleared, recalculated from the ends of the *)
(* travel that were measured, verified, and applied to every input.        *)
(*                                                                         *)
(* An int16_t wraps at IntMod.  A float is a fraction <<n, d>> with d > 0; *)
(* its rounding is left out, its conversion to int16_t is not.             *)
(***************************************************************************)
EXTENDS Integers

CONSTANTS
  IntMod,                    \* stands for 2^16
  DEFAULT_LOGICAL_MAX, DEFAULT_LOGICAL_MIN,
  AlphaOne,                  \* alpha counts in steps of 1 / AlphaOne
  Calibrations,              \* what the data given to set_calibration holds
  MaxSets                    \* bound: calls of set_calibration

Int16 == -(IntMod \div 2) .. (IntMod \div 2) - 1
Steps == Int \X (Int \ {0})

CalibrationType ==
  [physical_max : Int16, physical_min : Int16, physical_range : Int16,
   logical_max : Int16, logical_min : Int16, logical_range : Int16, zero : Int16,
   step_size_pos : Steps, step_size_neg : Steps, alpha : Int,
   is_inferred_zero : 0 .. 255, is_symmetric : 0 .. 255]

ASSUME IntAssumption == IntMod \in Nat \ {0} /\ IntMod % 2 = 0
ASSUME LogicalAssumption ==
  /\ DEFAULT_LOGICAL_MAX \in Int16 /\ DEFAULT_LOGICAL_MIN \in Int16
  /\ DEFAULT_LOGICAL_MAX - DEFAULT_LOGICAL_MIN \in Int16
ASSUME AlphaAssumption == AlphaOne \in Nat \ {0}
ASSUME DataAssumption == Calibrations \subseteq CalibrationType /\ MaxSets \in Nat

VARIABLES
  cal,                       \* the axis_calibration_factors_t
  verified,                  \* verify_calibration has returned true for it
  recalculated,              \* history: it is as recalculate_calibration left it
  sets                       \* history: calls of set_calibration

vars == <<cal, verified, recalculated, sets>>

(* Arithmetic of C: what int16_t keeps, and division towards zero. *)
Wrap(x) == ((x + (IntMod \div 2)) % IntMod) - (IntMod \div 2)
Quot(a, b) == IF a >= 0 THEN a \div b ELSE -((-a) \div b)
absval_int(x) == IF x < 0 THEN -x ELSE x

Ratio(n, d) == IF d > 0 THEN <<n, d>> ELSE <<-n, -d>>
Neg(r) == <<-r[1], r[2]>>

-----------------------------------------------------------------------------
(* apply_calibration: the set of what it may return, since a float that    *)
(* does not fit an int16_t converts to anything.                           *)
ToInt16(n, d) == IF Quot(n, d) \in Int16 THEN {Quot(n, d)} ELSE Int16
Scaled(step, value) == ToInt16(step[1] * value, step[2])

Deflection(c, input) ==
  CASE input = c.zero -> {0}
    [] input > c.zero -> Scaled(c.step_size_pos, Wrap(input - c.zero))
    [] input < c.zero /\ c.is_symmetric = 1 -> Scaled(c.step_size_neg, Wrap(c.zero - input))
    [] OTHER -> Scaled(c.step_size_pos, 0)

Clamped(c, value) ==
  CASE value >= c.logical_max -> c.logical_max
    [] value < c.logical_max /\ value <= c.logical_min -> c.logical_min
    [] OTHER -> value

apply_calibration(c, input) == {Clamped(c, v) : v \in Deflection(c, input)}

-----------------------------------------------------------------------------
(* recalculate_calibration: first the ends, which may have been measured   *)
(* in either order, ...                                                    *)
Larger(a, b) == IF a > b THEN a ELSE b
Smaller(a, b) == IF a > b THEN b ELSE a

(* Variant: the difference of two int16_t is taken for one. *)
OrientedWide(c) ==
  LET hi == Larger(c.physical_max, c.physical_min)
      lo == Smaller(c.physical_max, c.physical_min)
  IN  [c EXCEPT !.physical_max = hi, !.physical_min = lo, !.physical_range = hi - lo]

(* Variant: ends in the wrong order are left as they are. *)
OrientedNot(c) == [c EXCEPT !.physical_range = Wrap(c.physical_max - c.physical_min)]

Oriented(c) ==
  LET hi == Larger(c.physical_max, c.physical_min)
      lo == Smaller(c.physical_max, c.physical_min)
  IN  [c EXCEPT !.physical_max = hi, !.physical_min = lo, !.physical_range = Wrap(hi - lo)]

(* ... then the zero: in the middle, or the axis's own, or, on an axis     *)
(* with one direction, its lower end; ...                                  *)
Centred(c) ==
  CASE c.is_symmetric # 0 /\ c.is_inferred_zero = 1 ->
         [c EXCEPT !.zero = Quot(c.physical_max + c.physical_min, 2)]
    [] c.is_symmetric # 0 /\ c.is_inferred_zero # 1 -> c
    [] OTHER -> [c EXCEPT !.zero = c.physical_min, !.is_inferred_zero = 1]

(* Variant: the whole logical range on either side of the zero. *)
StepPosDoubled(c) ==
  CASE c.is_inferred_zero = 1 /\ c.physical_range # 0 -> Ratio(c.logical_range, 2 * c.physical_range)
    [] c.is_inferred_zero = 1 /\ c.physical_range = 0 -> <<1, 1>>
    [] OTHER -> Ratio(c.logical_range, 2 * (c.physical_max - c.zero))

(* ... then the steps.  With its own zero both are taken from physical_max,*)
(* and 0.001 keeps a zero at an end from dividing by nothing.              *)
StepPos(c) ==
  CASE c.is_inferred_zero = 1 /\ c.physical_range # 0 -> Ratio(c.logical_range, c.physical_range)
    [] c.is_inferred_zero = 1 /\ c.physical_range = 0 -> <<1, 1>>
    [] c.is_inferred_zero # 1 /\ c.zero \notin {c.physical_max, c.physical_min} ->
         Ratio(c.logical_range, 2 * (c.physical_max - c.zero))
    [] OTHER -> Ratio(500 * c.logical_range, 1000 * (c.physical_max - c.zero) + 1)

StepNeg(c) ==
  CASE c.is_inferred_zero = 1 -> Neg(StepPos(c))
    [] c.is_inferred_zero # 1 /\ c.zero \notin {c.physical_max, c.physical_min} ->
         Neg(Ratio(c.logical_range, 2 * (c.zero - c.physical_max)))
    [] OTHER -> Neg(Ratio(500 * c.logical_range, 1000 * (c.zero - c.physical_max) + 1))

Recalculated(c) ==
  LET z == Centred(Oriented(c))
  IN  [z EXCEPT !.step_size_pos = StepPos(z), !.step_size_neg = StepNeg(z)]

(* Variant: the sign of the negative step is not looked at. *)
PassesOneSided(c) ==
  /\ c.physical_max >= c.physical_min /\ c.logical_max >= c.logical_min
  /\ absval_int(c.physical_max) + absval_int(c.physical_min) = c.physical_range
  /\ c.alpha \in 0 .. AlphaOne
  /\ absval_int(c.logical_max) + absval_int(c.logical_min) = c.logical_range
  /\ c.is_inferred_zero <= 1 /\ c.is_symmetric <= 1
  /\ c.zero \in c.physical_min .. c.physical_max
  /\ c.step_size_pos[1] > 0

(* What verify_calibration returns. *)
Passes(c) ==
  /\ c.physical_max >= c.physical_min /\ c.logical_max >= c.logical_min
  /\ absval_int(c.physical_max) + absval_int(c.physical_min) = c.physical_range
  /\ c.alpha \in 0 .. AlphaOne
  /\ absval_int(c.logical_max) + absval_int(c.logical_min) = c.logical_range
  /\ c.is_inferred_zero <= 1 /\ c.is_symmetric <= 1
  /\ c.zero \in c.physical_min .. c.physical_max
  /\ c.step_size_pos[1] > 0 /\ c.step_size_neg[1] < 0

-----------------------------------------------------------------------------
cal_factor_template ==
  [physical_max |-> DEFAULT_LOGICAL_MAX, physical_min |-> DEFAULT_LOGICAL_MIN,
   physical_range |-> DEFAULT_LOGICAL_MAX - DEFAULT_LOGICAL_MIN,
   logical_max |-> DEFAULT_LOGICAL_MAX, logical_min |-> DEFAULT_LOGICAL_MIN,
   logical_range |-> DEFAULT_LOGICAL_MAX - DEFAULT_LOGICAL_MIN, zero |-> 0,
   step_size_pos |-> <<1, 1>>, step_size_neg |-> <<-1, 1>>, alpha |-> AlphaOne \div 3,
   is_inferred_zero |-> 1, is_symmetric |-> 1]

Init == cal = cal_factor_template /\ verified = FALSE /\ recalculated = FALSE /\ sets = 0

(* Data of another size than the factors' is not taken. *)
set_calibration ==
  /\ sets < MaxSets /\ sets' = sets + 1
  /\ \/ cal' \in Calibrations /\ verified' = FALSE /\ recalculated' = FALSE
     \/ UNCHANGED <<cal, verified, recalculated>>

clear_calibration ==
  /\ cal' = [cal EXCEPT !.physical_max = 0, !.physical_min = 0, !.physical_range = 0,
                        !.step_size_pos = <<0, 1>>, !.step_size_neg = <<0, 1>>]
  /\ verified' = FALSE /\ recalculated' = FALSE
  /\ UNCHANGED sets

recalculate_calibration ==
  /\ cal' = Recalculated(cal)
  /\ verified' = FALSE /\ recalculated' = TRUE
  /\ UNCHANGED sets

verify_calibration ==
  /\ verified' = Passes(cal)
  /\ UNCHANGED <<cal, recalculated, sets>>

Next == set_calibration \/ clear_calibration \/ recalculate_calibration \/ verify_calibration

Spec == Init /\ [][Next]_vars

-----------------------------------------------------------------------------
(* TypeOK: every field stays in its int16_t, and no step divides by 0.     *)
TypeOK ==
  /\ cal \in CalibrationType
  /\ verified \in BOOLEAN /\ recalculated \in BOOLEAN /\ sets \in 0 .. MaxSets

LogicalIsConsistent(c) == c.logical_range = c.logical_max - c.logical_min /\ c.logical_range > 0

(* RecalculatedVerifies: a calibration recalculated from a travel that     *)
(* holds 0 and fits an int16_t, whichever end was given first, passes the  *)
(* verification, if its zero is inferred and what was set with it is sound.*)
RecalculatedVerifies ==
  recalculated /\ cal.is_inferred_zero = 1
    /\ 0 \in Smaller(cal.physical_max, cal.physical_min) .. Larger(cal.physical_max, cal.physical_min)
    /\ absval_int(cal.physical_max - cal.physical_min) \in Int16
    /\ LogicalIsConsistent(cal) /\ 0 \in cal.logical_min .. cal.logical_max
    /\ cal.alpha \in 0 .. AlphaOne /\ cal.is_symmetric <= 1 =>
  Passes(cal)

(* An axis with its own zero at the very top: its steps are 1000 times too *)
(* large and verify_calibration does not notice (axis_control.c:282).      *)
ZeroAtTheTop(c) == c.is_inferred_zero # 1 /\ c.zero = c.physical_max

(* AcceptedIsUsable: once verify_calibration has let a recalculated        *)
(* calibration pass, every input within the travel has one result, a       *)
(* larger input never a smaller one, and none is on the wrong side of 0    *)
(* (the comment at axis_control.c:203: "a positive and negative            *)
(* deflection").                                                           *)
AcceptedIsUsable ==
  verified /\ recalculated /\ LogicalIsConsistent(cal) /\ ~ZeroAtTheTop(cal) =>
    \A a, b \in cal.physical_min .. cal.physical_max :
      \A x \in apply_calibration(cal, a), y \in apply_calibration(cal, b) :
        /\ a <= b => x <= y
        /\ a <= cal.zero => x <= 0
        /\ b >= cal.zero => y >= 0

(* EndsAreReached: full travel of an accepted axis gives the full logical  *)
(* deflection on its side, to within a step and the truncation.            *)
EndsAreReached ==
  LET c == cal
      Reaches(input, limit) ==
        \A v \in apply_calibration(c, input) :
          absval_int(limit - v) * c.physical_range <= c.logical_range + c.physical_range
  IN  verified /\ recalculated /\ c.is_inferred_zero = 1 /\ c.physical_range # 0
        /\ LogicalIsConsistent(c) /\ c.logical_min = -c.logical_max =>
      /\ Reaches(c.physical_max, c.logical_max)
      /\ c.is_symmetric = 1 => Reaches(c.physical_min, c.logical_min)

=============================================================================
