------------------------------- MODULE MCAxis -------------------------------
(* Instances of Axis: an int16_t of four bits, a travel between any two of *)
(* its values, and a counter of eight steps.                               *)
EXTENDS Axis

Logicals ==
  {[max |-> 3, min |-> -3, range |-> 6],      \* both directions
   [max |-> 3, min |-> 0, range |-> 3],       \* one
   [max |-> -2, min |-> -3, range |-> 5]}     \* adds up, and makes no sense

MCCalibrations ==
  {[physical_max |-> a, physical_min |-> b, physical_range |-> 0,
    logical_max |-> l.max, logical_min |-> l.min, logical_range |-> l.range, zero |-> z,
    step_size_pos |-> <<1, 1>>, step_size_neg |-> <<-1, 1>>, alpha |-> al,
    is_inferred_zero |-> iz, is_symmetric |-> sy] :
      a \in -8 .. 7, b \in -8 .. 7, l \in Logicals, z \in {-2, 0, 3}, al \in {1, 5},
      iz \in 0 .. 2, sy \in 0 .. 2}

MCLogicalMin == -3

MCAlphas == {-1, 0, 1, 4, 6}
MCInputs == {-2, 0, 3}
MCAngles == {-100, -7, 0, 9, 18, 50, 144, 700}

=============================================================================
