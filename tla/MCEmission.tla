------------------------------ MODULE MCEmission -------------------------------
(* Small inputs for Emission: the wider event with a time of two bytes, the other
   with a time of one; a count of two bytes, behind which the counter wraps. *)
EXTENDS Emission, TLC
MCInputs == {[event |-> ButtonPress(200), time |-> <<57, 96>>],
             [event |-> Unknown, time |-> <<5>>]}
MCCounts == {16383}
MCSymmetry == Permutations(Devices)
================================================================================
