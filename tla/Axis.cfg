SPECIFICATION HandleSpec
CONSTANTS
  IntMod = 16
  DEFAULT_LOGICAL_MAX = 3
  DEFAULT_LOGICAL_MIN <- MCLogicalMin
  AlphaOne = 4
  Calibrations <- MCCalibrations
  MaxSets = 1
  Alphas <- MCAlphas
  Inputs <- MCInputs
  MaxUpdates = 4
  UINT16_T_MAX = 8
  STEP_ANGLE = 18
  Microsteps = {1, 2, 4}
  Angles <- MCAngles
INVARIANTS TypeOK RecalculatedVerifies AcceptedIsUsable EndsAreReached FilterStaysBetween MotorObeysMaster MoveIsComplete
