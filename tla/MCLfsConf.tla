----------------------------- MODULE MCLfsConf -----------------------------
(* Three of the six axes: the two that load their own file and one that    *)
(* does not; an axis that does not exist; saves of different length.       *)
EXTENDS LfsConf

AXIS_THRUST == 4
MCAxes == {AXIS_PITCH, AXIS_ROLL, AXIS_THRUST, 9}
MCConfigName ==
  [a \in {AXIS_PITCH, AXIS_ROLL, AXIS_THRUST} |->
     CASE a = AXIS_PITCH -> "pitch_config"
       [] a = AXIS_ROLL -> "roll_config"
       [] a = AXIS_THRUST -> "thrust_config"]
MCNames == {"pitch_config", "roll_config", "thrust_config"}
MCData == {<<1>>, <<2, 3>>}
=============================================================================
