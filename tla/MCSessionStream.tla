---------------------------- MODULE MCSessionStream ----------------------------
(* The model values of the stream runs.                                     *)
EXTENDS SessionStream, TLC
CONSTANTS q1, q2, x1
Symmetry == Permutations(Questions)
=============================================================================
