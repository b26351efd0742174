-------------------------------- MODULE Axis --------------------------------
(***************************************************************************)
(* The axis_handle_t of Inc/axis_control.h: a calibration, the filter of   *)
(* its input and its motor.  No function of the library touches two of     *)
(* them, so a behaviour that calls into all three is, for each part, a     *)
(* behaviour that calls into that part alone: `part` names the one.        *)
(***************************************************************************)
EXTENDS AxisControl

CONSTANTS
  Alphas, Inputs, MaxUpdates,                          \* of InputFilter
  UINT16_T_MAX, STEP_ANGLE, Microsteps, Angles         \* of Stepper

ASSUME FilterAssumption ==
  /\ Alphas \subseteq Int /\ Inputs \subseteq Int /\ MaxUpdates \in Nat
  /\ AlphaOne ^ MaxUpdates \in Nat
ASSUME MotorAssumption ==
  /\ UINT16_T_MAX \in Nat \ {0} /\ STEP_ANGLE \in Nat \ {0}
  /\ Microsteps \subseteq Nat \ {0} /\ Angles \subseteq Int

VARIABLES
  part,
  alpha, output, low, high, updates,
  en_pin, dir_pin, master_enable, is_enabled, mode, pc, steps, CNT, angle, loaded

Filter == INSTANCE InputFilter
Motor == INSTANCE Stepper

calibration == <<cal, verified, recalculated, sets>>
filter == <<alpha, output, low, high, updates>>
motor == <<en_pin, dir_pin, master_enable, is_enabled, mode, pc, steps, CNT, angle, loaded>>
handle == <<part, calibration, filter, motor>>

HandleInit ==
  /\ part \in {"calibration", "filter", "motor"}
  /\ Init /\ Filter!Init /\ Motor!Init

CalibrationStep == part = "calibration" /\ Next /\ UNCHANGED <<part, filter, motor>>
FilterStep == part = "filter" /\ Filter!Next /\ UNCHANGED <<part, calibration, motor>>
MotorStep == part = "motor" /\ Motor!Next /\ UNCHANGED <<part, calibration, filter>>

HandleSpec == HandleInit /\ [][CalibrationStep \/ FilterStep \/ MotorStep]_handle

-----------------------------------------------------------------------------
(* The properties of the two smaller parts: see InputFilter and Stepper.   *)
FilterStaysBetween == Filter!FilterStaysBetween
MotorObeysMaster == Motor!MotorObeysMaster
MoveIsComplete == Motor!MoveIsComplete

=============================================================================
