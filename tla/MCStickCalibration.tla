-------------------------- MODULE MCStickCalibration --------------------------
(* The sticks together at rest and at both ends, and the throttle further down. *)
(* In the range of the throttle a rest at 499 over an end at 2 is one of those  *)
(* for which the floats fall short: 497 * fl(500 / 497) is less than 500.        *)
EXTENDS StickCalibration

All(v) == [a \in Axes |-> v]
MCPostures == {All(2), All(Half - 1), All(Top), [All(2) EXCEPT !["throttle"] = 0]}
=============================================================================
