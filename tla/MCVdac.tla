------------------------------- MODULE MCVdac -------------------------------
(***************************************************************************)
(* An instance of Vdac for TLC: one safe and one unsafe target of each     *)
(* kind, and sweeps of the end points and the two anchors.  A sweep that   *)
(* overlaps a cycle has only the 0 % of the highest output: the lines it   *)
(* could measure are too many, and no property holds of them.              *)
(***************************************************************************)
EXTENDS Vdac

MCPoints == [s \in Scenarios |-> IF "overlap" \in s THEN <<0>> ELSE <<0, 50, 90, 100>>]
MCVoltages == {3300, 6000}
MCDuties == {50, 90}
=============================================================================
