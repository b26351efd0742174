------------------------------ MODULE Stepper ------------------------------
(***************************************************************************)
(* Src/stepper.c: the motor of an axis, one write of a pin or of a timer   *)
(* register per step.  Angles are in tenths of a degree.                   *)
(***************************************************************************)
EXTENDS Integers

CONSTANTS
  UINT16_T_MAX,    \* 65536: what the counter of the timer can hold, and 1
  STEP_ANGLE,      \* of a full step, in tenths of a degree
  Microsteps,      \* mode / STEPS_PER_REV
  Angles           \* passed to stepper_move

VARIABLES
  en_pin, dir_pin,
  master_enable, is_enabled, mode,   \* mode as its number of microsteps
  pc, steps,                         \* the call in progress; local of stepper_move
  CNT,                               \* of the timer
  angle, loaded                      \* history: of the move; the steps given to the timer

motor == <<en_pin, dir_pin, master_enable, is_enabled, mode, pc, steps, CNT, angle, loaded>>
flags == <<master_enable, is_enabled, mode>>
move == <<steps, CNT, angle, loaded>>

Abs(x) == IF x < 0 THEN -x ELSE x

(* (uint32_t)(angle / STEP_ANGLE + 0.5) full steps, in microsteps. *)
angle_to_steps(a, m) == ((2 * Abs(a) + STEP_ANGLE) \div (2 * STEP_ANGLE)) * m

Init ==
  /\ en_pin = FALSE /\ dir_pin = FALSE
  /\ master_enable = FALSE /\ is_enabled = FALSE /\ mode \in Microsteps
  /\ pc = "ready" /\ steps = 0 /\ CNT = 0 /\ angle = 0 /\ loaded = 0

(* Variant: an enable does not ask the master. *)
AllowedAlways == TRUE

Allowed == master_enable

stepper_enable ==
  /\ pc = "ready"
  /\ IF Allowed THEN en_pin' = TRUE /\ pc' = "enabling" ELSE UNCHANGED <<en_pin, pc>>
  /\ UNCHANGED <<dir_pin, flags, move>>

stepper_disable ==
  /\ pc = "ready" /\ pc' = "disabling"
  /\ en_pin' = FALSE
  /\ UNCHANGED <<dir_pin, flags, move>>

(* The flag follows the pin. *)
StoreFlag ==
  /\ pc \in {"enabling", "disabling"} /\ pc' = "ready"
  /\ is_enabled' = (pc = "enabling")
  /\ UNCHANGED <<en_pin, dir_pin, master_enable, mode, move>>

stepper_master_enable ==
  /\ pc = "ready" /\ pc' = "enabling"
  /\ master_enable' = TRUE /\ en_pin' = TRUE
  /\ UNCHANGED <<dir_pin, is_enabled, mode, move>>

stepper_master_disable ==
  /\ pc = "ready" /\ pc' = "disabling"
  /\ master_enable' = FALSE /\ en_pin' = FALSE
  /\ UNCHANGED <<dir_pin, is_enabled, mode, move>>

stepper_set_dir ==
  /\ pc = "ready"
  /\ dir_pin' \in BOOLEAN
  /\ UNCHANGED <<en_pin, flags, pc, move>>

(* It moves an axis that is not enabled as well. *)
stepper_move ==
  /\ pc = "ready" /\ pc' = "moving"
  /\ angle' \in Angles /\ steps' = angle_to_steps(angle', mode)
  /\ loaded' = 0
  /\ UNCHANGED <<en_pin, dir_pin, flags, CNT>>

(* Variant: a full counter is taken for one step less. *)
ChunkShort(n) == IF n > UINT16_T_MAX THEN UINT16_T_MAX - 1 ELSE n

Chunk(n) == IF n > UINT16_T_MAX THEN UINT16_T_MAX ELSE n

MoveLoop ==
  /\ pc = "moving" /\ steps > 0
  /\ steps' = steps - (IF steps > UINT16_T_MAX THEN UINT16_T_MAX ELSE steps)
  /\ CNT' = Chunk(steps) - 1
  /\ loaded' = loaded + CNT' + 1
  /\ UNCHANGED <<en_pin, dir_pin, flags, pc, angle>>

MoveReturn ==
  /\ pc = "moving" /\ steps = 0 /\ pc' = "ready"
  /\ UNCHANGED <<en_pin, dir_pin, flags, move>>

Next ==
  \/ stepper_enable \/ stepper_disable \/ StoreFlag
  \/ stepper_master_enable \/ stepper_master_disable
  \/ stepper_set_dir \/ stepper_move \/ MoveLoop \/ MoveReturn

Spec == Init /\ [][Next]_motor

-----------------------------------------------------------------------------
(* MotorObeysMaster: whatever calls came before, a motor that the master   *)
(* switch has turned off is off, and between calls flag and pin agree.     *)
MotorObeysMaster ==
  /\ en_pin => master_enable
  /\ pc \in {"ready", "moving"} => is_enabled = en_pin

(* MoveIsComplete: the loads of the counter, each of which fits it, add up *)
(* to the angle asked for, to within half a full step.                     *)
MoveIsComplete ==
  /\ CNT \in 0 .. UINT16_T_MAX - 1
  /\ pc = "ready" => Abs(loaded * STEP_ANGLE - Abs(angle) * mode) * 2 <= STEP_ANGLE * mode

=============================================================================
