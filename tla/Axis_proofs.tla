---------------------------- MODULE Axis_proofs ----------------------------
(***************************************************************************)
(* For integers of any even width, any calibrations, inputs and motor:     *)
(* what recalculate_calibration leaves stays typed and, under its          *)
(* assumptions, verifies; once it has, every input of the travel has one   *)
(* result, in order and on its side of 0, and the ends give the full       *)
(* deflection; the filter never goes beyond its inputs; the motor obeys    *)
(* its master switch and makes whole moves.                                *)
(***************************************************************************)
EXTENDS Axis, TLAPS

Half == IntMod \div 2

(* HalfIsHalf: what an int16_t ranges over, without the division. *)
LEMMA HalfIsHalf ==
  /\ Half \in Nat \ {0} /\ IntMod = 2 * Half
  /\ Int16 = -Half .. Half - 1
BY IntAssumption DEF Half, Int16

(* WrapIsInt16: the result of an int16_t operation is an int16_t, ... *)
LEMMA WrapIsInt16 == ASSUME NEW x \in Int PROVE Wrap(x) \in Int16
<1>1. (x + Half) % IntMod \in 0 .. IntMod - 1
  BY HalfIsHalf, IntAssumption
<1>2. QED
  BY <1>1, HalfIsHalf DEF Wrap, Half

(* WrapIsExact: ... and the right one when it fits. *)
LEMMA WrapIsExact == ASSUME NEW x \in Int16 PROVE Wrap(x) = x
<1>1. x + Half \in 0 .. IntMod - 1
  BY HalfIsHalf
<1>2. (x + Half) % IntMod = x + Half
  BY <1>1, IntAssumption, HalfIsHalf
<1>3. QED
  BY <1>1, <1>2, HalfIsHalf DEF Wrap, Half

(* QuotIsMiddle: the zero between two ends is between them. *)
LEMMA QuotIsMiddle ==
  ASSUME NEW hi \in Int16, NEW lo \in Int16, lo <= hi
  PROVE  Quot(hi + lo, 2) \in lo .. hi
BY HalfIsHalf DEF Quot

(* RatioIsStep: a step is never a division by 0 and has the sign of both. *)
LEMMA RatioIsStep ==
  ASSUME NEW n \in Int, NEW d \in Int \ {0}
  PROVE  /\ Ratio(n, d) \in Steps /\ Neg(Ratio(n, d)) \in Steps
         /\ n > 0 /\ d > 0 => Ratio(n, d)[1] > 0
BY DEF Ratio, Neg, Steps

-----------------------------------------------------------------------------
(* OrientedIsTyped: the ends come out in order and their range wraps. *)
LEMMA OrientedIsTyped ==
  ASSUME NEW c \in CalibrationType
  PROVE  /\ Oriented(c) \in CalibrationType
         /\ Oriented(c).physical_min <= Oriented(c).physical_max
         /\ Oriented(c).physical_range
              = Wrap(Oriented(c).physical_max - Oriented(c).physical_min)
<1> DEFINE hi == Larger(c.physical_max, c.physical_min)
           lo == Smaller(c.physical_max, c.physical_min)
<1>1. hi \in Int16 /\ lo \in Int16 /\ lo <= hi
  BY HalfIsHalf DEF CalibrationType, Larger, Smaller
<1>2. Wrap(hi - lo) \in Int16
  BY <1>1, WrapIsInt16, HalfIsHalf
<1>3. Oriented(c) = [c EXCEPT !.physical_max = hi, !.physical_min = lo, !.physical_range = Wrap(hi - lo)]
  BY DEF Oriented
<1> HIDE DEF hi, lo
<1>4. QED
  BY <1>1, <1>2, <1>3 DEF CalibrationType

(* CentredIsTyped: the zero comes out where the flags say. *)
LEMMA CentredIsTyped ==
  ASSUME NEW c \in CalibrationType, c.physical_min <= c.physical_max
  PROVE  LET z == Centred(c)
         IN  /\ z \in CalibrationType
             /\ z.physical_max = c.physical_max /\ z.physical_min = c.physical_min
             /\ z.physical_range = c.physical_range
             /\ z.is_inferred_zero = 1 => z.zero \in z.physical_min .. z.physical_max
<1>1. Quot(c.physical_max + c.physical_min, 2) \in c.physical_min .. c.physical_max
  BY QuotIsMiddle DEF CalibrationType
<1>2. c.physical_min .. c.physical_max \subseteq Int16
  BY HalfIsHalf DEF CalibrationType
<1>3. CASE c.is_symmetric # 0 /\ c.is_inferred_zero = 1
  BY <1>1, <1>2, <1>3 DEF Centred, CalibrationType
<1>4. CASE c.is_symmetric # 0 /\ c.is_inferred_zero # 1
  <2>1. Centred(c) = c
    BY <1>4 DEF Centred
  <2>2. QED
    BY <1>4, <2>1
<1>5. CASE c.is_symmetric = 0
  <2>1. Centred(c) = [c EXCEPT !.zero = c.physical_min, !.is_inferred_zero = 1]
    BY <1>5 DEF Centred
  <2>2. Centred(c) \in CalibrationType
    <3> DEFINE d == [c EXCEPT !.zero = c.physical_min]
    <3>1. d \in CalibrationType
      BY DEF CalibrationType
    <3>2. Centred(c) = [d EXCEPT !.is_inferred_zero = 1]
      BY <2>1
    <3> HIDE DEF d
    <3>3. QED
      BY <3>1, <3>2 DEF CalibrationType
  <2>3. /\ Centred(c).physical_max = c.physical_max /\ Centred(c).physical_min = c.physical_min
        /\ Centred(c).physical_range = c.physical_range /\ Centred(c).zero = c.physical_min
    BY <2>1 DEF CalibrationType
  <2>4. c.physical_min \in c.physical_min .. c.physical_max
    BY HalfIsHalf DEF CalibrationType
  <2>5. QED
    BY <2>2, <2>3, <2>4
<1>6. QED
  BY <1>3, <1>4, <1>5
(* StepsAreTyped: whatever zero an axis has, its steps divide by no 0. *)
LEMMA StepsAreTyped ==
  ASSUME NEW c \in CalibrationType
  PROVE  StepPos(c) \in Steps /\ StepNeg(c) \in Steps
<1> DEFINE up == c.physical_max - c.zero
           down == c.zero - c.physical_max
<1>1. /\ c.logical_range \in Int /\ c.physical_range \in Int /\ up \in Int /\ down \in Int
      /\ c.zero # c.physical_max => up # 0 /\ down # 0
  BY HalfIsHalf DEF CalibrationType
<1>2. 500 * c.logical_range \in Int /\ 1000 * up + 1 \in Int \ {0} /\ 1000 * down + 1 \in Int \ {0}
  BY <1>1
<1> HIDE DEF up, down
<1>3. /\ Ratio(500 * c.logical_range, 1000 * up + 1) \in Steps
      /\ Neg(Ratio(500 * c.logical_range, 1000 * down + 1)) \in Steps
  BY <1>2, RatioIsStep
<1>4. c.zero # c.physical_max => /\ Ratio(c.logical_range, 2 * up) \in Steps
                                 /\ Neg(Ratio(c.logical_range, 2 * down)) \in Steps
  <2>1. c.zero # c.physical_max => 2 * up \in Int \ {0} /\ 2 * down \in Int \ {0}
    BY <1>1
  <2>2. QED
    BY <1>1, <2>1, RatioIsStep
<1>5. c.physical_range # 0 => /\ Ratio(c.logical_range, c.physical_range) \in Steps
                              /\ Neg(Ratio(c.logical_range, c.physical_range)) \in Steps
  BY <1>1, RatioIsStep
<1>6. <<1, 1>> \in Steps /\ Neg(<<1, 1>>) \in Steps
  BY DEF Steps, Neg
<1>7. StepPos(c) \in Steps
  BY <1>3, <1>4, <1>5, <1>6 DEF StepPos, up
<1>8. c.is_inferred_zero = 1 => Neg(StepPos(c)) \in Steps
  BY <1>5, <1>6 DEF StepPos
<1>9. QED
  BY <1>3, <1>4, <1>7, <1>8 DEF StepNeg, down

(* RecalculatedIsTyped: what recalculate_calibration leaves, field by field. *)
LEMMA RecalculatedIsTyped ==
  ASSUME NEW c \in CalibrationType
  PROVE  LET r == Recalculated(c)
         IN  /\ r \in CalibrationType
             /\ r.physical_min <= r.physical_max
             /\ r.physical_range = Wrap(r.physical_max - r.physical_min)
             /\ r.is_inferred_zero = 1 =>
                  /\ r.zero \in r.physical_min .. r.physical_max
                  /\ r.step_size_pos = IF r.physical_range # 0
                                       THEN Ratio(r.logical_range, r.physical_range) ELSE <<1, 1>>
                  /\ r.step_size_neg = Neg(r.step_size_pos)
<1> DEFINE o == Oriented(c)
           z == Centred(o)
<1>1. /\ o \in CalibrationType /\ o.physical_min <= o.physical_max
      /\ o.physical_range = Wrap(o.physical_max - o.physical_min)
  BY OrientedIsTyped
<1> HIDE DEF o
<1>2. /\ z \in CalibrationType
      /\ z.physical_max = o.physical_max /\ z.physical_min = o.physical_min
      /\ z.physical_range = o.physical_range
      /\ z.is_inferred_zero = 1 => z.zero \in z.physical_min .. z.physical_max
  BY <1>1, CentredIsTyped
<1>3. StepPos(z) \in Steps /\ StepNeg(z) \in Steps
  BY <1>2, StepsAreTyped
<1>4. Recalculated(c) = [z EXCEPT !.step_size_pos = StepPos(z), !.step_size_neg = StepNeg(z)]
  BY DEF Recalculated, o
<1>5. z.is_inferred_zero = 1 =>
        /\ StepPos(z) = IF z.physical_range # 0
                        THEN Ratio(z.logical_range, z.physical_range) ELSE <<1, 1>>
        /\ StepNeg(z) = Neg(StepPos(z))
  BY DEF StepPos, StepNeg
<1> HIDE DEF z
<1> DEFINE p == [z EXCEPT !.step_size_pos = StepPos(z)]
<1>6. p \in CalibrationType
  BY <1>2, <1>3 DEF CalibrationType
<1>7. Recalculated(c) = [p EXCEPT !.step_size_neg = StepNeg(z)]
  BY <1>4
<1>8. Recalculated(c) \in CalibrationType
  <2> HIDE DEF p
  <2>1. QED
    BY <1>3, <1>6, <1>7 DEF CalibrationType
<1>9. LET r == Recalculated(c)
      IN  /\ r.physical_max = z.physical_max /\ r.physical_min = z.physical_min
          /\ r.physical_range = z.physical_range /\ r.logical_range = z.logical_range
          /\ r.zero = z.zero /\ r.is_inferred_zero = z.is_inferred_zero
          /\ r.step_size_pos = StepPos(z) /\ r.step_size_neg = StepNeg(z)
  BY <1>2, <1>4 DEF CalibrationType
<1>10. QED
  BY <1>1, <1>2, <1>5, <1>8, <1>9

-----------------------------------------------------------------------------
(* The calibration: one that counts as recalculated was recalculated from  *)
(* something typed, which says how its fields hang together.               *)
CalibrationInv ==
  TypeOK /\ (recalculated => \E c \in CalibrationType : cal = Recalculated(c))

LEMMA TemplateIsTyped == cal_factor_template \in CalibrationType
<1>1. 0 \in Int16 /\ AlphaOne \div 3 \in Int
  BY HalfIsHalf, AlphaAssumption
<1>2. <<1, 1>> \in Steps /\ <<-1, 1>> \in Steps
  BY DEF Steps
<1>3. QED
  BY <1>1, <1>2, LogicalAssumption DEF cal_factor_template, CalibrationType

LEMMA ClearedIsTyped ==
  ASSUME cal \in CalibrationType, clear_calibration
  PROVE  cal' \in CalibrationType
<1>1. 0 \in Int16 /\ <<0, 1>> \in Steps
  BY HalfIsHalf DEF Steps
<1> DEFINE d == [cal EXCEPT !.physical_max = 0, !.physical_min = 0, !.physical_range = 0]
<1>2. d \in CalibrationType
  BY <1>1 DEF CalibrationType
<1>3. cal' = [d EXCEPT !.step_size_pos = <<0, 1>>, !.step_size_neg = <<0, 1>>]
  BY DEF clear_calibration
<1> HIDE DEF d
<1> DEFINE e == [d EXCEPT !.step_size_pos = <<0, 1>>]
<1>4. e \in CalibrationType
  BY <1>1, <1>2 DEF CalibrationType
<1>5. cal' = [e EXCEPT !.step_size_neg = <<0, 1>>]
  BY <1>3
<1> HIDE DEF e
<1>6. QED
  BY <1>1, <1>4, <1>5 DEF CalibrationType

LEMMA CalibrationKept ==
  ASSUME CalibrationInv, [Next]_calibration
  PROVE  CalibrationInv'
<1> USE DEF CalibrationInv, TypeOK
<1>1. CASE set_calibration
  <2>1. sets' \in 0 .. MaxSets
    BY <1>1, DataAssumption DEF set_calibration
  <2>4. verified' \in BOOLEAN /\ recalculated' \in BOOLEAN
    <3>1. verified \in BOOLEAN /\ recalculated \in BOOLEAN
      OBVIOUS
    <3>2. \/ verified' = FALSE /\ recalculated' = FALSE
          \/ verified' = verified /\ recalculated' = recalculated
      BY <1>1 DEF set_calibration
    <3>3. QED
      BY ONLY <3>1, <3>2
  <2>2. cal' \in CalibrationType
    BY <1>1, DataAssumption DEF set_calibration
  <2>3. recalculated' => recalculated /\ cal' = cal
    BY <1>1 DEF set_calibration
  <2>5. QED
    BY <2>1, <2>2, <2>3, <2>4
<1>2. CASE clear_calibration
  BY <1>2, ClearedIsTyped DEF clear_calibration
<1>3. CASE recalculate_calibration
  BY <1>3, RecalculatedIsTyped DEF recalculate_calibration
<1>4. CASE verify_calibration
  <2>1. Passes(cal) \in BOOLEAN
    BY DEF Passes
  <2>2. QED
    BY <1>4, <2>1 DEF verify_calibration
<1>5. CASE UNCHANGED calibration
  BY <1>5 DEF calibration
<1>6. QED
  BY <1>1, <1>2, <1>3, <1>4, <1>5 DEF Next

LEMMA InvVerifies == CalibrationInv => RecalculatedVerifies
<1> DEFINE travel == cal.physical_max - cal.physical_min
<1> SUFFICES ASSUME CalibrationInv, recalculated, cal.is_inferred_zero = 1,
                    0 \in Smaller(cal.physical_max, cal.physical_min) ..
                          Larger(cal.physical_max, cal.physical_min),
                    absval_int(travel) \in Int16,
                    LogicalIsConsistent(cal), 0 \in cal.logical_min .. cal.logical_max,
                    cal.alpha \in 0 .. AlphaOne, cal.is_symmetric <= 1
             PROVE  Passes(cal)
  BY DEF RecalculatedVerifies
<1>1. /\ cal \in CalibrationType
      /\ cal.physical_min <= cal.physical_max
      /\ cal.physical_range = Wrap(travel)
      /\ cal.zero \in cal.physical_min .. cal.physical_max
      /\ cal.step_size_pos = IF cal.physical_range # 0
                             THEN Ratio(cal.logical_range, cal.physical_range) ELSE <<1, 1>>
      /\ cal.step_size_neg = Neg(cal.step_size_pos)
  BY RecalculatedIsTyped DEF CalibrationInv, TypeOK
<1>2. /\ cal.physical_max \in Int /\ cal.physical_min \in Int
      /\ cal.logical_max \in Int /\ cal.logical_min \in Int /\ cal.logical_range \in Int
      /\ cal.is_inferred_zero \in Int /\ cal.is_symmetric \in Int
  <2>1. Int16 \subseteq Int /\ 0 .. 255 \subseteq Int
    BY HalfIsHalf
  <2>2. QED
    BY <1>1, <2>1 DEF CalibrationType
<1>3. 0 \in cal.physical_min .. cal.physical_max
  BY <1>1, <1>2 DEF Smaller, Larger
<1>4. travel \in Int16 /\ travel >= 0
  BY <1>1, <1>2 DEF absval_int
<1>5. cal.physical_range = travel
  BY <1>1, <1>4, WrapIsExact
<1>6. absval_int(cal.physical_max) + absval_int(cal.physical_min) = cal.physical_range
  BY <1>2, <1>3, <1>5 DEF absval_int
<1>7. absval_int(cal.logical_max) + absval_int(cal.logical_min) = cal.logical_range
  BY <1>2 DEF absval_int, LogicalIsConsistent
<1>8. cal.step_size_pos[1] > 0 /\ cal.step_size_neg[1] < 0
  <2>1. cal.step_size_pos[1] \in Int /\ cal.step_size_pos[1] > 0
    BY <1>1, <1>2, <1>4, <1>5 DEF LogicalIsConsistent, Ratio
  <2>2. cal.step_size_neg[1] = -cal.step_size_pos[1]
    BY <1>1 DEF Neg
  <2>3. QED
    BY <2>1, <2>2
<1>9. QED
  BY <1>1, <1>2, <1>6, <1>7, <1>8 DEF Passes, LogicalIsConsistent

-----------------------------------------------------------------------------
(* The motor: within a call the flag lags behind the pin, and the steps    *)
(* not yet loaded make up the angle.                                       *)
MotorInv ==
  /\ en_pin \in BOOLEAN /\ master_enable \in BOOLEAN /\ is_enabled \in BOOLEAN
  /\ pc \in {"ready", "moving", "enabling", "disabling"}
  /\ mode \in Microsteps /\ angle \in Int /\ steps \in Nat /\ loaded \in Nat
  /\ CNT \in 0 .. UINT16_T_MAX - 1
  /\ en_pin => master_enable
  /\ pc \in {"ready", "moving"} => is_enabled = en_pin
  /\ pc = "enabling" => en_pin
  /\ pc = "disabling" => ~en_pin
  /\ pc # "moving" => steps = 0
  /\ loaded + steps = Motor!angle_to_steps(angle, mode)

(* StepsOfAngle: how far the steps of an angle are from it. *)
LEMMA StepsOfAngle ==
  ASSUME NEW a \in Int, NEW m \in Microsteps
  PROVE  LET n == Motor!angle_to_steps(a, m)
         IN  /\ n \in Nat /\ (a = 0 => n = 0)
             /\ Motor!Abs(n * STEP_ANGLE - Motor!Abs(a) * m) * 2 <= STEP_ANGLE * m
<1> DEFINE b == Motor!Abs(a)
           k == (2 * b + STEP_ANGLE) \div (2 * STEP_ANGLE)
<1>1. b \in Nat /\ m \in Nat /\ STEP_ANGLE \in Nat \ {0} /\ (a = 0 => b = 0)
  BY MotorAssumption DEF Motor!Abs
<1> HIDE DEF b
<1>2. k \in Nat /\ 2 * STEP_ANGLE * k <= 2 * b + STEP_ANGLE
      /\ 2 * b + STEP_ANGLE < 2 * STEP_ANGLE * k + 2 * STEP_ANGLE
      /\ (b = 0 => k = 0)
  <2> DEFINE x == 2 * b + STEP_ANGLE
             y == 2 * STEP_ANGLE
  <2>1. x \in Nat /\ y \in Nat \ {0} /\ (b = 0 => x < y)
    BY <1>1
  <2> HIDE DEF x, y
  <2>2. x \div y \in Nat /\ y * (x \div y) <= x /\ x < y * (x \div y) + y
        /\ (x < y => x \div y = 0)
    BY <2>1
  <2>3. QED
    BY <2>1, <2>2 DEF x, y
<1> HIDE DEF k
<1>3. Motor!angle_to_steps(a, m) = k * m
  BY DEF Motor!angle_to_steps, b, k
<1>4. QED
  BY <1>1, <1>2, <1>3 DEF Motor!Abs, b

LEMMA MotorKept ==
  ASSUME MotorInv, [Motor!Next]_motor
  PROVE  MotorInv'
<1> USE DEF MotorInv, Motor!flags, Motor!move
<1>1. CASE Motor!stepper_enable
  BY <1>1 DEF Motor!stepper_enable, Motor!Allowed
<1>2. CASE Motor!stepper_disable
  BY <1>2 DEF Motor!stepper_disable
<1>3. CASE Motor!StoreFlag
  BY <1>3 DEF Motor!StoreFlag
<1>4. CASE Motor!stepper_master_enable
  BY <1>4 DEF Motor!stepper_master_enable
<1>5. CASE Motor!stepper_master_disable
  BY <1>5 DEF Motor!stepper_master_disable
<1>6. CASE Motor!stepper_set_dir
  BY <1>6 DEF Motor!stepper_set_dir
<1>7. CASE Motor!stepper_move
  <2>1. angle' \in Int /\ steps' = Motor!angle_to_steps(angle', mode) /\ loaded' = 0
    BY <1>7, MotorAssumption DEF Motor!stepper_move
  <2>2. steps' \in Nat
    BY <2>1, StepsOfAngle
  <2>3. QED
    BY <1>7, <2>1, <2>2 DEF Motor!stepper_move
<1>8. CASE Motor!MoveLoop
  <2>1. Motor!Chunk(steps) \in 1 .. UINT16_T_MAX /\ Motor!Chunk(steps) <= steps
    BY <1>8, MotorAssumption DEF Motor!MoveLoop, Motor!Chunk
  <2>2. steps' = steps - Motor!Chunk(steps) /\ CNT' = Motor!Chunk(steps) - 1
        /\ loaded' = loaded + Motor!Chunk(steps)
    BY <1>8, <2>1, MotorAssumption DEF Motor!MoveLoop, Motor!Chunk
  <2>3. steps' \in Nat /\ loaded' \in Nat /\ loaded' + steps' = loaded + steps
        /\ CNT' \in 0 .. UINT16_T_MAX - 1
    BY <2>1, <2>2, MotorAssumption
  <2>4. QED
    BY <1>8, <2>3 DEF Motor!MoveLoop
<1>9. CASE Motor!MoveReturn
  BY <1>9 DEF Motor!MoveReturn
<1>10. CASE UNCHANGED motor
  BY <1>10 DEF motor
<1>11. QED
  BY <1>1, <1>2, <1>3, <1>4, <1>5, <1>6, <1>7, <1>8, <1>9, <1>10 DEF Motor!Next

-----------------------------------------------------------------------------
(* The filter: what it mixes is on both sides of the bounds of its inputs. *)
FilterInv ==
  /\ alpha \in 0 .. AlphaOne /\ low \in Int /\ high \in Int /\ output \in Int
  /\ low <= 0 /\ 0 <= high
  /\ low * Filter!Unit <= output /\ output <= high * Filter!Unit

(* Grows: multiplying by something not negative keeps an order. *)
LEMMA Grows ==
  ASSUME NEW k \in Nat, NEW x \in Int, NEW y \in Int, x <= y
  PROVE  k * x <= k * y
OBVIOUS

(* MixIsBetween: a weighted mean is between the bounds of what it mixes. *)
LEMMA MixIsBetween ==
  ASSUME NEW A \in Nat \ {0}, NEW a \in 0 .. A, NEW x \in Int, NEW y \in Int,
         NEW lo \in Int, NEW hi \in Int, lo <= x, x <= hi, lo <= y, y <= hi
  PROVE  (a * x + (A - a) * y) \div A \in lo .. hi
<1>1. a \in Nat /\ A - a \in Nat
  OBVIOUS
<1>2. a * lo <= a * x /\ a * x <= a * hi /\ (A - a) * lo <= (A - a) * y
      /\ (A - a) * y <= (A - a) * hi
  BY <1>1, Grows
<1> DEFINE s == a * x + (A - a) * y
<1>3. s \in Int /\ A * lo <= s /\ s <= A * hi
  BY <1>1, <1>2
<1> HIDE DEF s
<1>4. s \div A \in lo .. hi
  BY <1>3
<1>5. QED
  BY <1>4 DEF s

LEMMA FilterKept ==
  ASSUME FilterInv, [Filter!Next]_filter
  PROVE  FilterInv'
<1> USE DEF FilterInv
<1>1. Filter!Unit \in Nat
  BY FilterAssumption DEF Filter!Unit
<1>2. \A a \in Alphas : Filter!Cut(a) \in 0 .. AlphaOne
  BY FilterAssumption, AlphaAssumption DEF Filter!Cut
<1>3. CASE Filter!input_filter_init
  BY <1>1, <1>2, <1>3 DEF Filter!input_filter_init
<1>4. CASE Filter!input_filter_set_alpha
  BY <1>1, <1>2, <1>4 DEF Filter!input_filter_set_alpha
<1>5. CASE Filter!input_filter_update
  <2> DEFINE U == Filter!Unit
  <2>1. PICK input \in Inputs :
          /\ output' = (alpha * input * U + (AlphaOne - alpha) * output) \div AlphaOne
          /\ low' = IF input < low THEN input ELSE low
          /\ high' = IF input > high THEN input ELSE high
    BY <1>5 DEF Filter!input_filter_update
  <2>2. input \in Int /\ alpha' = alpha
    BY <1>5, FilterAssumption DEF Filter!input_filter_update
  <2> HIDE DEF U
  <2>3. /\ low' \in Int /\ high' \in Int /\ low' <= low /\ high <= high'
        /\ low' <= input /\ input <= high'
    BY <2>1, <2>2
  <2>4. U \in Nat
    BY <1>1 DEF U
  <2>5. /\ U * low' <= U * input /\ U * input <= U * high'
        /\ U * low' <= U * low /\ U * high <= U * high'
    BY <2>2, <2>3, <2>4, Grows
  <2>6. U * low <= output /\ output <= U * high
    BY <2>4 DEF U
  <2>7. alpha * input * U = alpha * (U * input)
    BY <2>2, <2>4
  <2>8. U * low' \in Int /\ U * high' \in Int /\ U * input \in Int
        /\ U * low \in Int /\ U * high \in Int
    BY <2>2, <2>3, <2>4
  <2>9. U * low' <= output /\ output <= U * high'
    BY <2>5, <2>6, <2>8
  <2>10. output' \in U * low' .. U * high'
    BY <2>1, <2>5, <2>7, <2>8, <2>9, MixIsBetween, AlphaAssumption
  <2>11. U * low' = low' * U /\ U * high' = high' * U
    BY <2>3, <2>4
  <2>12. QED
    BY <2>2, <2>3, <2>8, <2>10, <2>11 DEF U
<1>6. CASE UNCHANGED filter
  BY <1>6 DEF filter
<1>7. QED
  BY <1>3, <1>4, <1>5, <1>6 DEF Filter!Next

-----------------------------------------------------------------------------
IInv == CalibrationInv /\ FilterInv /\ MotorInv

LEMMA HandleInitInv == HandleInit => IInv
<1> SUFFICES ASSUME HandleInit PROVE IInv
  OBVIOUS
<1>1. CalibrationInv
  <2>1. cal = cal_factor_template /\ verified = FALSE /\ recalculated = FALSE /\ sets = 0
    BY DEF HandleInit, Init
  <2>2. 0 \in 0 .. MaxSets
    BY DataAssumption
  <2>3. QED
    BY <2>1, <2>2, TemplateIsTyped DEF CalibrationInv, TypeOK
<1>2. MotorInv
  <2>1. mode \in Microsteps /\ angle = 0 /\ loaded = 0 /\ steps = 0
    BY DEF HandleInit, Motor!Init
  <2>2. Motor!angle_to_steps(angle, mode) = 0
    BY <2>1, StepsOfAngle
  <2>3. 0 \in 0 .. UINT16_T_MAX - 1
    BY MotorAssumption
  <2>4. loaded + steps = Motor!angle_to_steps(angle, mode)
    BY <2>1, <2>2
  <2>5. en_pin = FALSE /\ master_enable = FALSE /\ is_enabled = FALSE /\ pc = "ready" /\ CNT = 0
    BY DEF HandleInit, Motor!Init
  <2>6. en_pin \in BOOLEAN /\ master_enable \in BOOLEAN /\ is_enabled \in BOOLEAN
        /\ is_enabled = en_pin /\ (en_pin => master_enable) /\ ~en_pin
    BY ONLY <2>5, Zenon
  <2>7. QED
    BY ONLY <2>1, <2>3, <2>4, <2>5, <2>6 DEF MotorInv
<1>3. FilterInv
  <2>1. Filter!Unit \in Nat
    BY FilterAssumption DEF Filter!Unit
  <2>2. QED
    BY <2>1, AlphaAssumption DEF HandleInit, Filter!Init, FilterInv
<1>4. QED
  BY <1>1, <1>2, <1>3 DEF IInv

LEMMA HandleKept == IInv /\ [CalibrationStep \/ FilterStep \/ MotorStep]_handle => IInv'
<1> SUFFICES ASSUME IInv, [CalibrationStep \/ FilterStep \/ MotorStep]_handle PROVE IInv'
  OBVIOUS
<1>1. [Next]_calibration /\ [Filter!Next]_filter /\ [Motor!Next]_motor
  BY DEF CalibrationStep, FilterStep, MotorStep, handle
<1>2. QED
  BY <1>1, CalibrationKept, FilterKept, MotorKept DEF IInv

LEMMA HandleInvariant == HandleSpec => []IInv
BY HandleInitInv, HandleKept, PTL DEF HandleSpec

(* FieldsFit: TypeOK for any width and any data set_calibration is given.  *)
THEOREM FieldsFit == HandleSpec => []TypeOK
<1>1. IInv => TypeOK
  BY DEF IInv, CalibrationInv
<1>2. QED
  BY HandleInvariant, <1>1, PTL

(* Verifies: RecalculatedVerifies for any travel of any width. *)
THEOREM Verifies == HandleSpec => []RecalculatedVerifies
<1>1. IInv => RecalculatedVerifies
  BY InvVerifies DEF IInv
<1>2. QED
  BY HandleInvariant, <1>1, PTL

(* MasterIsObeyed: MotorObeysMaster through any calls of the motor. *)
THEOREM MasterIsObeyed == HandleSpec => []MotorObeysMaster
<1>1. IInv => MotorObeysMaster
  BY DEF IInv, MotorInv, MotorObeysMaster, Motor!MotorObeysMaster
<1>2. QED
  BY HandleInvariant, <1>1, PTL

(* MovesAreComplete: MoveIsComplete for any angle, step and counter. *)
THEOREM MovesAreComplete == HandleSpec => []MoveIsComplete
<1>1. IInv => MoveIsComplete
  <2> SUFFICES ASSUME IInv, pc = "ready"
               PROVE  Motor!Abs(loaded * STEP_ANGLE - Motor!Abs(angle) * mode) * 2
                        <= STEP_ANGLE * mode
    BY DEF IInv, MotorInv, MoveIsComplete, Motor!MoveIsComplete
  <2>1. loaded = Motor!angle_to_steps(angle, mode) /\ angle \in Int /\ mode \in Microsteps
    BY DEF IInv, MotorInv
  <2>2. QED
    BY <2>1, StepsOfAngle
<1>2. QED
  BY HandleInvariant, <1>1, PTL

(* FilterIsBetween: FilterStaysBetween for any inputs and alphas. *)
THEOREM FilterIsBetween == HandleSpec => []FilterStaysBetween
<1>1. IInv => FilterStaysBetween
  <2>1. Filter!Unit \in Nat
    BY FilterAssumption DEF Filter!Unit
  <2>2. QED
    BY <2>1 DEF IInv, FilterInv, FilterStaysBetween, Filter!FilterStaysBetween
<1>2. QED
  BY HandleInvariant, <1>1, PTL

-----------------------------------------------------------------------------
(* A calibration that verify_calibration has let pass. *)
AcceptedInv == verified => Passes(cal)

LEMMA AcceptedInvariant == HandleSpec => []AcceptedInv
<1>1. HandleInit => AcceptedInv
  BY DEF HandleInit, Init, AcceptedInv
<1>2. AcceptedInv /\ [CalibrationStep \/ FilterStep \/ MotorStep]_handle => AcceptedInv'
  <2> SUFFICES ASSUME AcceptedInv, [CalibrationStep \/ FilterStep \/ MotorStep]_handle, verified'
               PROVE  Passes(cal)'
    BY DEF AcceptedInv
  <2>1. CASE Next
    <3>1. CASE set_calibration \/ clear_calibration \/ recalculate_calibration
      <4>1. verified /\ cal' = cal
        BY <3>1 DEF set_calibration, clear_calibration, recalculate_calibration
      <4> QED BY <4>1 DEF AcceptedInv, Passes
    <3>2. CASE verify_calibration
      <4>1. Passes(cal) /\ cal' = cal
        BY <3>2 DEF verify_calibration
      <4> QED BY <4>1 DEF Passes
    <3> QED BY <2>1, <3>1, <3>2 DEF Next
  <2>2. CASE UNCHANGED calibration
    BY <2>2 DEF calibration, AcceptedInv, Passes
  <2> QED BY <2>1, <2>2 DEF CalibrationStep, FilterStep, MotorStep, handle
<1> QED BY <1>1, <1>2, PTL DEF HandleSpec

(* RecalculatedZero: where recalculate_calibration puts the zero, and the  *)
(* steps it takes from a zero that it leaves alone.                        *)
LEMMA RecalculatedZero ==
  ASSUME NEW c \in CalibrationType
  PROVE  LET r == Recalculated(c)
         IN  /\ r.is_inferred_zero = 1 =>
                  r.zero = IF r.is_symmetric # 0 THEN Quot(r.physical_max + r.physical_min, 2)
                           ELSE r.physical_min
             /\ r.is_inferred_zero # 1 =>
                  /\ r.is_symmetric # 0
                  /\ r.step_size_pos = StepPos(r) /\ r.step_size_neg = StepNeg(r)
<1> DEFINE o == Oriented(c)
           z == Centred(o)
           r == Recalculated(c)
<1>1. o \in CalibrationType /\ o.physical_min <= o.physical_max
  BY OrientedIsTyped
<1> HIDE DEF o
<1>2. /\ z \in CalibrationType
      /\ z.physical_max = o.physical_max /\ z.physical_min = o.physical_min
  BY <1>1, CentredIsTyped
<1>3. CASE o.is_symmetric = 0
  <2>1. z.is_inferred_zero = 1 /\ z.zero = z.physical_min /\ z.is_symmetric = 0
    BY <1>1, <1>3 DEF Centred, CalibrationType
  <2> QED BY <1>2, <2>1 DEF Recalculated, o, CalibrationType
<1>4. CASE o.is_symmetric # 0 /\ o.is_inferred_zero = 1
  <2>1. /\ z.is_inferred_zero = 1 /\ z.is_symmetric # 0
        /\ z.zero = Quot(z.physical_max + z.physical_min, 2)
    BY <1>1, <1>2, <1>4 DEF Centred, CalibrationType
  <2> QED BY <1>2, <2>1 DEF Recalculated, o, CalibrationType
<1>5. CASE o.is_symmetric # 0 /\ o.is_inferred_zero # 1
  <2>1. z = o
    BY <1>5 DEF Centred
  <2> HIDE DEF z
  <2>2. r = [z EXCEPT !.step_size_pos = StepPos(z), !.step_size_neg = StepNeg(z)]
    BY DEF Recalculated, z, o
  <2>3. /\ r.is_symmetric = o.is_symmetric /\ r.is_inferred_zero = o.is_inferred_zero
        /\ r.zero = z.zero /\ r.physical_max = z.physical_max /\ r.physical_min = z.physical_min
        /\ r.physical_range = z.physical_range /\ r.logical_range = z.logical_range
        /\ r.step_size_pos = StepPos(z) /\ r.step_size_neg = StepNeg(z)
    BY <1>2, <2>1, <2>2 DEF CalibrationType
  <2> HIDE DEF r
  <2>4. StepPos(r) = StepPos(z)
    BY <1>5, <2>1, <2>3 DEF StepPos
  <2>5. StepNeg(r) = StepNeg(z)
    BY <1>5, <2>1, <2>3, <2>4 DEF StepNeg
  <2> QED BY <1>5, <2>3, <2>4, <2>5 DEF r
<1> QED BY <1>3, <1>4, <1>5

(* The travel and the deflection of an axis that is accepted. *)
Sound(c) ==
  /\ {c.physical_max, c.physical_min, c.zero, c.logical_max, c.logical_min} \subseteq Int16
  /\ c.physical_range \in Nat /\ c.physical_range \in Int16
  /\ c.physical_range = c.physical_max - c.physical_min
  /\ c.zero \in c.physical_min .. c.physical_max
  /\ c.logical_range \in Nat \ {0} /\ c.logical_range \in Int16
  /\ c.logical_range = c.logical_max - c.logical_min
  /\ 0 \in c.logical_min .. c.logical_max
  /\ c.is_symmetric \in {0, 1}
  /\ c.zero = IF c.is_symmetric = 1 THEN Quot(c.physical_max + c.physical_min, 2) ELSE c.physical_min
  /\ c.physical_range # 0 =>
       /\ c.step_size_pos = <<c.logical_range, c.physical_range>>
       /\ c.step_size_neg = <<-c.logical_range, c.physical_range>>

(* OwnZeroIsRefused: an axis that keeps its own zero passes only with that *)
(* zero at the very top.                                                   *)
LEMMA OwnZeroIsRefused ==
  ASSUME NEW c \in CalibrationType, c.is_inferred_zero # 1, c.zero < c.physical_max,
         c.logical_range > 0
  PROVE  ~(StepNeg(c)[1] < 0)
<1> DEFINE down == c.zero - c.physical_max
<1>1. c.logical_range \in Int /\ down \in Int /\ down < 0
  BY HalfIsHalf DEF CalibrationType
<1> HIDE DEF down
<1>2. /\ Neg(Ratio(c.logical_range, 2 * down))[1] = c.logical_range
      /\ Neg(Ratio(500 * c.logical_range, 1000 * down + 1))[1] = 500 * c.logical_range
  BY <1>1 DEF Ratio, Neg
<1>3. \/ StepNeg(c) = Neg(Ratio(c.logical_range, 2 * down))
      \/ StepNeg(c) = Neg(Ratio(500 * c.logical_range, 1000 * down + 1))
  BY DEF StepNeg, down
<1> QED BY <1>1, <1>2, <1>3

(* AcceptedIsSound: what was recalculated and verified. *)
LEMMA AcceptedIsSound ==
  ASSUME IInv, AcceptedInv, verified, recalculated, LogicalIsConsistent(cal), ~ZeroAtTheTop(cal)
  PROVE  cal.is_inferred_zero = 1 /\ Sound(cal)
<1>1. PICK c \in CalibrationType : cal = Recalculated(c)
  BY DEF IInv, CalibrationInv
<1>2. cal \in CalibrationType /\ Passes(cal)
  BY DEF IInv, CalibrationInv, TypeOK, AcceptedInv
<1>3. /\ {cal.physical_max, cal.physical_min, cal.zero, cal.logical_max, cal.logical_min} \subseteq Int16
      /\ cal.physical_range \in Int16 /\ cal.logical_range \in Int16
      /\ cal.is_symmetric \in 0 .. 255
      /\ cal.physical_max \in Int /\ cal.physical_min \in Int /\ cal.zero \in Int
      /\ cal.logical_max \in Int /\ cal.logical_min \in Int
      /\ cal.physical_range \in Int /\ cal.logical_range \in Int
  <2>1. Int16 \subseteq Int
    BY HalfIsHalf
  <2> QED BY <1>2, <2>1 DEF CalibrationType
<1>4. /\ cal.physical_min <= cal.physical_max
      /\ cal.physical_range = Wrap(cal.physical_max - cal.physical_min)
      /\ cal.is_inferred_zero = 1 =>
           /\ cal.step_size_pos = IF cal.physical_range # 0
                                  THEN Ratio(cal.logical_range, cal.physical_range) ELSE <<1, 1>>
           /\ cal.step_size_neg = Neg(cal.step_size_pos)
  BY <1>1, RecalculatedIsTyped
<1>5. /\ absval_int(cal.physical_max) + absval_int(cal.physical_min) = cal.physical_range
      /\ absval_int(cal.logical_max) + absval_int(cal.logical_min) = cal.logical_range
      /\ cal.is_symmetric <= 1 /\ cal.zero \in cal.physical_min .. cal.physical_max
      /\ cal.step_size_neg[1] < 0
  BY <1>2 DEF Passes
<1>6. cal.physical_range = cal.physical_max - cal.physical_min /\ cal.physical_range \in Nat
  <2>1. cal.physical_max - cal.physical_min \in 0 .. cal.physical_range
    BY <1>3, <1>4, <1>5 DEF absval_int
  <2>2. cal.physical_max - cal.physical_min \in Int16
    BY <1>3, <2>1, HalfIsHalf
  <2>3. cal.physical_range = cal.physical_max - cal.physical_min
    BY <1>4, <2>2, WrapIsExact
  <2> QED BY <1>3, <2>1, <2>3
<1>7. /\ cal.logical_range \in Nat \ {0} /\ cal.logical_range = cal.logical_max - cal.logical_min
      /\ 0 \in cal.logical_min .. cal.logical_max
  BY <1>3, <1>5 DEF LogicalIsConsistent, absval_int
<1>8. cal.is_inferred_zero = 1
  <2> SUFFICES ASSUME cal.is_inferred_zero # 1 PROVE FALSE
    OBVIOUS
  <2>1. cal.step_size_neg = StepNeg(cal)
    BY <1>1, RecalculatedZero
  <2>2. cal.zero < cal.physical_max
    BY <1>3, <1>5 DEF ZeroAtTheTop
  <2>3. cal.logical_range > 0
    BY <1>7
  <2> QED BY <1>2, <1>5, <2>1, <2>2, <2>3, OwnZeroIsRefused
<1>9. cal.zero = IF cal.is_symmetric = 1 THEN Quot(cal.physical_max + cal.physical_min, 2)
                 ELSE cal.physical_min
  <2>1. cal.zero = IF cal.is_symmetric # 0 THEN Quot(cal.physical_max + cal.physical_min, 2)
                   ELSE cal.physical_min
    BY <1>1, <1>8, RecalculatedZero
  <2>2. cal.is_symmetric \in {0, 1}
    BY <1>3, <1>5
  <2> QED BY <2>1, <2>2
<1>10. cal.physical_range # 0 =>
         /\ cal.step_size_pos = <<cal.logical_range, cal.physical_range>>
         /\ cal.step_size_neg = <<-cal.logical_range, cal.physical_range>>
  BY <1>4, <1>6, <1>8 DEF Ratio, Neg
<1>11. cal.is_symmetric \in {0, 1}
  BY <1>3, <1>5
<1> QED BY <1>3, <1>5, <1>6, <1>7, <1>8, <1>9, <1>10, <1>11 DEF Sound

-----------------------------------------------------------------------------
(* Steps of an accepted axis away from its zero, ... *)
Up(c, v) == IF c.physical_range = 0 THEN 0 ELSE (c.logical_range * v) \div c.physical_range

(* ... and what an input deflects it to. *)
Line(c, input) ==
  IF input >= c.zero THEN Up(c, input - c.zero)
  ELSE IF c.is_symmetric = 1 THEN -Up(c, c.zero - input) ELSE 0

(* DivBounds: division by a positive number, without its remainder. *)
LEMMA DivBounds ==
  ASSUME NEW x \in Nat, NEW d \in Nat \ {0}
  PROVE  x \div d \in Nat /\ d * (x \div d) <= x /\ x < d * (x \div d) + d
OBVIOUS

(* DivGrows: it keeps an order. *)
LEMMA DivGrows ==
  ASSUME NEW x \in Nat, NEW y \in Nat, NEW d \in Nat \ {0}, x <= y
  PROVE  x \div d <= y \div d
<1>1. PICK p \in Nat : p = x \div d /\ d * p <= x /\ x < d * p + d
  BY DivBounds
<1>2. PICK q \in Nat : q = y \div d /\ d * q <= y /\ y < d * q + d
  BY DivBounds
<1>3. ASSUME p > q PROVE FALSE
  <2>1. q + 1 <= p
    BY <1>3
  <2>2. d * (q + 1) <= d * p
    BY <2>1, Grows
  <2>3. d * (q + 1) = d * q + d
    OBVIOUS
  <2> QED BY <1>1, <1>2, <2>2, <2>3
<1> QED BY <1>1, <1>2, <1>3

(* UpGrows: within the travel the steps grow from 0 to the logical range. *)
LEMMA UpGrows ==
  ASSUME NEW c, Sound(c), NEW v \in 0 .. c.physical_range
  PROVE  /\ Up(c, v) \in 0 .. c.logical_range
         /\ v = 0 => Up(c, v) = 0
         /\ \A u \in 0 .. v : Up(c, u) <= Up(c, v)
<1> DEFINE R == c.logical_range
           D == c.physical_range
<1>1. R \in Nat /\ D \in Nat
  BY DEF Sound
<1>2. CASE D = 0
  BY <1>1, <1>2 DEF Up
<1>3. CASE D # 0
  <2>1. \A u \in 0 .. D : Up(c, u) = (R * u) \div D
    BY <1>3 DEF Up
  <2> HIDE DEF R, D
  <2>2. v \in 0 .. D /\ D \in Nat \ {0} /\ v \in Nat
    BY <1>1, <1>3 DEF D
  <2>3. R * v <= R * D /\ R * v \in Nat /\ R * D \in Nat
    BY <1>1, <2>2, Grows
  <2>4. (R * D) \div D = R
    <3>1. PICK p \in Nat : p = (R * D) \div D /\ D * p <= R * D /\ R * D < D * p + D
      BY <2>2, <2>3, DivBounds
    <3>2. p = R
      <4>1. ASSUME p >= R + 1 PROVE FALSE
        <5>1. D * (R + 1) <= D * p
          BY <1>1, <2>2, <4>1, Grows
        <5> QED BY <1>1, <2>2, <3>1, <5>1
      <4>2. ASSUME p + 1 <= R PROVE FALSE
        <5>1. D * (p + 1) <= D * R
          BY <1>1, <2>2, <4>2, Grows
        <5> QED BY <1>1, <2>2, <3>1, <5>1
      <4> QED BY <1>1, <4>1, <4>2
    <3> QED BY <3>1, <3>2
  <2>5. (R * v) \div D \in 0 .. R
    <3>1. (R * v) \div D <= R
      BY <2>2, <2>3, <2>4, DivGrows
    <3>2. (R * v) \div D \in Nat
      BY <2>2, <2>3, DivBounds
    <3> QED BY <1>1, <3>1, <3>2
  <2>6. ASSUME NEW u \in 0 .. v PROVE (R * u) \div D <= (R * v) \div D
    <3>1. R * u <= R * v /\ R * u \in Nat
      BY <1>1, <2>2, Grows
    <3> QED BY <2>2, <2>3, <3>1, DivGrows
  <2>7. v = 0 => (R * v) \div D = 0
    BY <1>1, <2>2
  <2>8. \A u \in 0 .. v : u \in 0 .. D
    BY <2>2
  <2> QED BY <2>1, <2>2, <2>5, <2>6, <2>7, <2>8 DEF R, D
<1> QED BY <1>2, <1>3

(* DeflectionIsLine: apply_calibration computes this line, and no          *)
(* conversion of it fails to fit.                                          *)
LEMMA DeflectionIsLine ==
  ASSUME NEW c, Sound(c), NEW a \in c.physical_min .. c.physical_max
  PROVE  Deflection(c, a) = {Line(c, a)}
<1>1. /\ a \in Int /\ c.zero \in Int /\ c.physical_max \in Int /\ c.physical_min \in Int
      /\ c.logical_range \in Nat /\ c.physical_range \in Nat
      /\ c.logical_range < Half /\ c.physical_range < Half
      /\ c.physical_range = c.physical_max - c.physical_min
      /\ c.zero \in c.physical_min .. c.physical_max
  BY HalfIsHalf DEF Sound
<1> DEFINE R == c.logical_range
           D == c.physical_range
<1>2. CASE a = c.zero
  <2>1. Line(c, a) = Up(c, 0) /\ 0 \in 0 .. D
    BY <1>1, <1>2 DEF Line
  <2>2. Line(c, a) = 0
    BY <2>1, UpGrows
  <2> QED BY <1>2, <2>2 DEF Deflection
<1>3. CASE a > c.zero
  <2> DEFINE v == a - c.zero
  <2>1. v \in 0 .. D /\ v \in Int16 /\ D # 0 /\ a # c.zero /\ v \in Nat
    BY <1>1, <1>3, HalfIsHalf
  <2>2. Wrap(v) = v
    BY <2>1, WrapIsExact
  <2>3. Deflection(c, a) = Scaled(c.step_size_pos, v)
    BY <1>1, <1>3, <2>1, <2>2, ~(a < c.zero) DEF Deflection
  <2>4. Line(c, a) = Up(c, v)
    BY <1>1, <1>3 DEF Line
  <2> HIDE DEF v
  <2>5. Up(c, v) \in 0 .. R /\ Up(c, v) = (R * v) \div D
    BY <2>1, UpGrows DEF Up
  <2>6. c.step_size_pos = <<R, D>>
    BY <2>1 DEF Sound
  <2>7. R * v \in Nat
    BY <1>1, <2>1
  <2>8. Quot(R * v, D) = Up(c, v)
    BY <2>5, <2>7 DEF Quot
  <2>9. Up(c, v) \in Int16
    BY <1>1, <2>5, HalfIsHalf
  <2>10. Scaled(c.step_size_pos, v) = {Up(c, v)}
    BY <2>6, <2>8, <2>9 DEF Scaled, ToInt16
  <2> QED BY <2>3, <2>4, <2>10
<1>4. CASE a < c.zero /\ c.is_symmetric = 1
  <2> DEFINE v == c.zero - a
  <2>1. v \in 0 .. D /\ v \in Int16 /\ D # 0 /\ a # c.zero /\ ~(a > c.zero) /\ v \in Nat
    BY <1>1, <1>4, HalfIsHalf
  <2>2. Wrap(v) = v
    BY <2>1, WrapIsExact
  <2>3. Deflection(c, a) = Scaled(c.step_size_neg, v)
    BY <1>4, <2>1, <2>2 DEF Deflection
  <2>4. Line(c, a) = -Up(c, v)
    BY <1>1, <1>4 DEF Line
  <2> HIDE DEF v
  <2>5. Up(c, v) \in 0 .. R /\ Up(c, v) = (R * v) \div D
    BY <2>1, UpGrows DEF Up
  <2>6. c.step_size_neg = <<-R, D>>
    BY <2>1 DEF Sound
  <2>7. R * v \in Nat /\ (-R) * v = -(R * v)
    BY <1>1, <2>1
  <2>8. Quot((-R) * v, D) = -Up(c, v)
    <3>1. CASE R * v = 0
      <4>1. 0 \div D = 0
        BY <1>1, <2>1
      <4> QED BY <2>5, <2>7, <3>1, <4>1 DEF Quot
    <3>2. CASE R * v > 0
      <4> DEFINE x == R * v
      <4>1. x \in Nat /\ x > 0 /\ (-R) * v = -x /\ Up(c, v) = x \div D
        BY <2>5, <2>7, <3>2
      <4> HIDE DEF x
      <4>2. Quot(-x, D) = -(x \div D)
        BY <4>1 DEF Quot
      <4> QED BY <4>1, <4>2
    <3> QED BY <2>7, <3>1, <3>2
  <2>9. -Up(c, v) \in Int16
    BY <1>1, <2>5, HalfIsHalf
  <2>10. Scaled(c.step_size_neg, v) = {-Up(c, v)}
    BY <2>6, <2>8, <2>9 DEF Scaled, ToInt16
  <2> QED BY <2>3, <2>4, <2>10
<1>5. CASE a < c.zero /\ c.is_symmetric # 1
  <2>1. D # 0 /\ ~(a >= c.zero) /\ D \in Nat \ {0}
    BY <1>1, <1>5
  <2>2. Line(c, a) = 0
    BY <1>5, <2>1 DEF Line
  <2>3. c.step_size_pos = <<R, D>>
    BY <2>1 DEF Sound
  <2>4. Deflection(c, a) = Scaled(c.step_size_pos, 0)
    BY <1>1, <1>5 DEF Deflection
  <2>5. R * 0 = 0 /\ 0 \div D = 0
    BY <1>1, <2>1
  <2>6. Quot(R * 0, D) = 0 /\ 0 \in Int16
    BY <2>5, HalfIsHalf DEF Quot
  <2> QED BY <2>2, <2>3, <2>4, <2>6 DEF Scaled, ToInt16
<1> QED BY <1>1, <1>2, <1>3, <1>4, <1>5

(* LineIsMonotone: a larger input never has a smaller result, and each     *)
(* side of the zero its own sign.                                          *)
LEMMA LineIsMonotone ==
  ASSUME NEW c, Sound(c), NEW a \in c.physical_min .. c.physical_max,
         NEW b \in c.physical_min .. c.physical_max
  PROVE  /\ Line(c, a) \in Int
         /\ a <= b => Line(c, a) <= Line(c, b)
         /\ a <= c.zero => Line(c, a) <= 0
         /\ b >= c.zero => Line(c, b) >= 0
<1>1. /\ a \in Int /\ b \in Int /\ c.zero \in Int /\ c.physical_max \in Int /\ c.physical_min \in Int
      /\ c.logical_range \in Nat /\ c.physical_range \in Nat
      /\ c.physical_range = c.physical_max - c.physical_min
      /\ c.zero \in c.physical_min .. c.physical_max
  BY HalfIsHalf DEF Sound
<1>2. \A x \in c.physical_min .. c.physical_max :
        /\ x >= c.zero => x - c.zero \in 0 .. c.physical_range
        /\ x < c.zero => c.zero - x \in 0 .. c.physical_range
  BY <1>1
<1>3. \A v \in 0 .. c.physical_range : Up(c, v) \in Int /\ Up(c, v) >= 0
  BY <1>1, UpGrows
<1>4. Up(c, 0) = 0
  BY <1>1, UpGrows
<1>5. \A x \in c.physical_min .. c.physical_max :
        /\ Line(c, x) \in Int
        /\ x >= c.zero => Line(c, x) >= 0 /\ Line(c, x) = Up(c, x - c.zero)
        /\ x <= c.zero => Line(c, x) <= 0
  <2> TAKE x \in c.physical_min .. c.physical_max
  <2>1. CASE x > c.zero
    BY <1>1, <1>2, <1>3, <2>1 DEF Line
  <2>2. CASE x = c.zero
    <3>1. x - c.zero = 0
      BY <1>1, <2>2
    <3> QED BY <1>1, <1>4, <2>2, <3>1 DEF Line
  <2>3. CASE x < c.zero
    BY <1>1, <1>2, <1>3, <2>3 DEF Line
  <2> QED BY <1>1, <2>1, <2>2, <2>3
<1>6. ASSUME a <= b PROVE Line(c, a) <= Line(c, b)
  <2>1. CASE a >= c.zero
    <3>1. b - c.zero \in 0 .. c.physical_range /\ a - c.zero \in 0 .. b - c.zero /\ b >= c.zero
      BY <1>1, <1>6, <2>1
    <3>2. Up(c, a - c.zero) <= Up(c, b - c.zero)
      BY <3>1, UpGrows
    <3> QED BY <1>5, <2>1, <3>1, <3>2
  <2>2. CASE a < c.zero /\ b >= c.zero
    BY <1>1, <1>5, <2>2
  <2>3. CASE b < c.zero /\ c.is_symmetric = 1
    <3>1. c.zero - a \in 0 .. c.physical_range /\ c.zero - b \in 0 .. c.zero - a
      BY <1>1, <1>6, <2>3
    <3>2. Up(c, c.zero - b) <= Up(c, c.zero - a)
      BY <3>1, UpGrows
    <3>3. c.zero - b \in 0 .. c.physical_range
      BY <1>1, <3>1
    <3>4. Line(c, a) = -Up(c, c.zero - a) /\ Line(c, b) = -Up(c, c.zero - b)
      BY <1>1, <1>6, <2>3 DEF Line
    <3>5. Up(c, c.zero - a) \in Int /\ Up(c, c.zero - b) \in Int
      BY <1>3, <3>1, <3>3
    <3> QED BY <3>2, <3>4, <3>5
  <2>4. CASE b < c.zero /\ c.is_symmetric # 1
    BY <1>1, <1>6, <2>4 DEF Line
  <2> QED BY <1>1, <2>1, <2>2, <2>3, <2>4
<1> QED BY <1>1, <1>5, <1>6

(* ClampIsMonotone: clamping keeps order and sign. *)
LEMMA ClampIsMonotone ==
  ASSUME NEW c, Sound(c), NEW x \in Int, NEW y \in Int
  PROVE  /\ Clamped(c, x) \in Int
         /\ x <= y => Clamped(c, x) <= Clamped(c, y)
         /\ x <= 0 => Clamped(c, x) <= 0
         /\ y >= 0 => Clamped(c, y) >= 0
<1>1. c.logical_max \in Int /\ c.logical_min \in Int /\ c.logical_min <= 0 /\ 0 <= c.logical_max
  BY HalfIsHalf DEF Sound
<1> QED BY <1>1 DEF Clamped

(* UsableWhenAccepted (verify_calibration, apply_calibration): for any     *)
(* width of the integers and any calibration data, an axis that was        *)
(* recalculated and let pass gives every input within its travel one       *)
(* result, in the order of the inputs and on the right side of 0.          *)
THEOREM UsableWhenAccepted == HandleSpec => []AcceptedIsUsable
<1>1. IInv /\ AcceptedInv => AcceptedIsUsable
  <2> SUFFICES ASSUME IInv, AcceptedInv, verified, recalculated, LogicalIsConsistent(cal),
                      ~ZeroAtTheTop(cal),
                      NEW a \in cal.physical_min .. cal.physical_max,
                      NEW b \in cal.physical_min .. cal.physical_max,
                      NEW x \in apply_calibration(cal, a), NEW y \in apply_calibration(cal, b)
               PROVE  /\ a <= b => x <= y
                      /\ a <= cal.zero => x <= 0
                      /\ b >= cal.zero => y >= 0
    BY DEF AcceptedIsUsable
  <2>1. Sound(cal)
    BY AcceptedIsSound
  <2>2. x = Clamped(cal, Line(cal, a)) /\ y = Clamped(cal, Line(cal, b))
    <3>1. Deflection(cal, a) = {Line(cal, a)} /\ Deflection(cal, b) = {Line(cal, b)}
      BY <2>1, DeflectionIsLine
    <3> QED BY <3>1 DEF apply_calibration
  <2>3. /\ Line(cal, a) \in Int /\ Line(cal, b) \in Int
        /\ a <= b => Line(cal, a) <= Line(cal, b)
        /\ a <= cal.zero => Line(cal, a) <= 0
        /\ b >= cal.zero => Line(cal, b) >= 0
    BY <2>1, LineIsMonotone
  <2> QED BY <2>1, <2>2, <2>3, ClampIsMonotone
<1> QED BY <1>1, HandleInvariant, AcceptedInvariant, PTL

(* ZeroIsMiddle: neither end is nearer to the zero than half the travel,   *)
(* to within half a unit; on an axis with one direction the zero is below. *)
LEMMA ZeroIsMiddle ==
  ASSUME NEW c, Sound(c)
  PROVE  /\ 2 * (c.physical_max - c.zero) >= c.physical_range - 1
         /\ c.is_symmetric = 1 => 2 * (c.zero - c.physical_min) >= c.physical_range - 1
<1>1. /\ c.physical_max \in Int /\ c.physical_min \in Int
      /\ c.physical_range = c.physical_max - c.physical_min /\ c.physical_range \in Nat
      /\ c.zero = IF c.is_symmetric = 1 THEN Quot(c.physical_max + c.physical_min, 2)
                 ELSE c.physical_min
  BY HalfIsHalf DEF Sound
<1>2. \A s \in Int : Quot(s, 2) \in Int /\ 2 * Quot(s, 2) \in s - 1 .. s + 1
  BY DEF Quot
<1>3. PICK s \in Int : s = c.physical_max + c.physical_min
  BY <1>1
<1>4. CASE c.is_symmetric = 1
  <2>1. c.zero = Quot(s, 2)
    BY <1>1, <1>3, <1>4
  <2>2. c.zero \in Int /\ 2 * c.zero \in s - 1 .. s + 1
    BY <1>2, <2>1
  <2> QED BY <1>1, <1>3, <2>2
<1>5. CASE c.is_symmetric # 1
  BY <1>1, <1>5
<1> QED BY <1>4, <1>5

(* UpReaches: half the travel is half the logical range, to within a step  *)
(* and the truncation.                                                     *)
LEMMA UpReaches ==
  ASSUME NEW c, Sound(c), c.physical_range # 0, NEW L \in Nat, c.logical_range = 2 * L,
         NEW v \in 0 .. c.physical_range, 2 * v >= c.physical_range - 1
  PROVE  (L - Up(c, v)) * c.physical_range <= c.logical_range + c.physical_range
<1>1. PICK D \in Nat \ {0} : D = c.physical_range
  BY DEF Sound
<1>2. v \in Nat /\ 2 * v >= D - 1 /\ D - 1 \in Nat
  BY <1>1
<1>3. PICK p \in Nat : p = Up(c, v) /\ (2 * L) * v < D * p + D
  <2>1. (2 * L) * v \in Nat
    BY <1>2
  <2>2. Up(c, v) = ((2 * L) * v) \div D
    BY <1>1 DEF Up
  <2> QED BY <1>1, <2>1, <2>2, DivBounds
<1>4. L * (D - 1) <= L * (2 * v)
  BY <1>1, <1>2, Grows
<1>5. L * (D - 1) = L * D - L /\ L * (2 * v) = (2 * L) * v /\ (L - p) * D = L * D - D * p
  BY <1>1, <1>2, <1>3
<1>6. L * D \in Int /\ D * p \in Int /\ (2 * L) * v \in Int
  BY <1>1, <1>2, <1>3
<1>7. (L - p) * D <= 2 * L + D
  BY <1>1, <1>3, <1>4, <1>5, <1>6
<1> QED BY <1>1, <1>3, <1>7

(* ReachesWhenAccepted (recalculate_calibration, apply_calibration): for   *)
(* any width and data, an end of the travel of an accepted axis gives the  *)
(* whole deflection of its side, to within a step and the truncation.      *)
THEOREM ReachesWhenAccepted == HandleSpec => []EndsAreReached
<1>1. IInv /\ AcceptedInv => EndsAreReached
  <2> DEFINE D == cal.physical_range
             R == cal.logical_range
             L == cal.logical_max
  <2> SUFFICES ASSUME IInv, AcceptedInv, verified, recalculated, cal.is_inferred_zero = 1, D # 0,
                      LogicalIsConsistent(cal), cal.logical_min = -L
               PROVE  /\ \A v \in apply_calibration(cal, cal.physical_max) :
                            absval_int(L - v) * D <= R + D
                      /\ cal.is_symmetric = 1 =>
                           \A v \in apply_calibration(cal, cal.physical_min) :
                             absval_int(cal.logical_min - v) * D <= R + D
    BY DEF EndsAreReached
  <2>1. Sound(cal)
    BY AcceptedIsSound DEF ZeroAtTheTop
  <2>2. /\ cal.physical_max \in Int /\ cal.physical_min \in Int /\ cal.zero \in Int
        /\ D \in Nat \ {0} /\ R \in Nat \ {0} /\ L \in Nat /\ R = 2 * L
        /\ D = cal.physical_max - cal.physical_min
        /\ cal.zero \in cal.physical_min .. cal.physical_max
    BY <2>1, HalfIsHalf DEF Sound
  <2> DEFINE up == cal.physical_max - cal.zero
             down == cal.zero - cal.physical_min
  <2>3. up \in 0 .. D /\ down \in 0 .. D /\ 2 * up >= D - 1 /\ (cal.is_symmetric = 1 => 2 * down >= D - 1)
    BY <2>1, <2>2, ZeroIsMiddle
  <2> HIDE DEF up, down
  <2>4. ASSUME NEW u \in 0 .. D, 2 * u >= D - 1
        PROVE  /\ Up(cal, u) \in Nat
               /\ absval_int(L - Clamped(cal, Up(cal, u))) * D <= R + D
               /\ absval_int(cal.logical_min - Clamped(cal, -Up(cal, u))) * D <= R + D
    <3>1. PICK p \in Nat : p = Up(cal, u)
      BY <2>1, <2>4, UpGrows
    <3>2. (L - p) * D <= R + D
      BY <2>1, <2>2, <2>4, <3>1, UpReaches
    <3>3. CASE p >= L
      <4>1. Clamped(cal, p) = L /\ Clamped(cal, -p) = cal.logical_min
        BY <2>2, <3>1, <3>3 DEF Clamped
      <4>2. absval_int(0) * D = 0
        BY <2>2 DEF absval_int
      <4> QED BY <2>2, <3>1, <4>1, <4>2
    <3>4. CASE p < L
      <4>1. Clamped(cal, p) = p /\ Clamped(cal, -p) = -p
        BY <2>2, <3>1, <3>4 DEF Clamped
      <4>2. absval_int(L - p) = L - p /\ absval_int(cal.logical_min - (-p)) = L - p
        BY <2>2, <3>1, <3>4 DEF absval_int
      <4> QED BY <3>1, <3>2, <4>1, <4>2
    <3> QED BY <2>2, <3>1, <3>3, <3>4
  <2>5. ASSUME NEW v \in apply_calibration(cal, cal.physical_max)
        PROVE  absval_int(L - v) * D <= R + D
    <3>1. v = Clamped(cal, Up(cal, up))
      <4>1. cal.physical_max \in cal.physical_min .. cal.physical_max
        BY <2>2
      <4>2. Deflection(cal, cal.physical_max) = {Line(cal, cal.physical_max)}
        BY <2>1, <4>1, DeflectionIsLine
      <4>3. Line(cal, cal.physical_max) = Up(cal, up)
        BY <2>2 DEF Line, up
      <4> QED BY <4>2, <4>3 DEF apply_calibration
    <3> QED BY <2>3, <2>4, <3>1
  <2>6. ASSUME cal.is_symmetric = 1, NEW v \in apply_calibration(cal, cal.physical_min)
        PROVE  absval_int(cal.logical_min - v) * D <= R + D
    <3>1. v = Clamped(cal, -Up(cal, down))
      <4>1. cal.physical_min \in cal.physical_min .. cal.physical_max
        BY <2>2
      <4>2. Deflection(cal, cal.physical_min) = {Line(cal, cal.physical_min)}
        BY <2>1, <4>1, DeflectionIsLine
      <4>3. Line(cal, cal.physical_min) = -Up(cal, down)
        <5>1. CASE cal.physical_min = cal.zero
          <6>1. cal.physical_min - cal.zero = 0 /\ down = 0 /\ 0 \in 0 .. cal.physical_range
            BY <2>2, <5>1 DEF down
          <6>2. Up(cal, 0) = 0
            BY <2>1, <6>1, UpGrows
          <6> QED BY <2>2, <5>1, <6>1, <6>2 DEF Line
        <5>2. CASE cal.physical_min # cal.zero
          BY <2>2, <2>6, <5>2 DEF Line, down
        <5> QED BY <5>1, <5>2
      <4> QED BY <4>2, <4>3 DEF apply_calibration
    <3> QED BY <2>3, <2>4, <2>6, <3>1
  <2> QED BY <2>5, <2>6
<1> QED BY <1>1, HandleInvariant, AcceptedInvariant, PTL

=============================================================================
