------------------------- MODULE MCSessionTranscript -------------------------
(* The model values of the transcript run.                                  *)
EXTENDS SessionTranscript, TLC
CONSTANTS q1, q2
Symmetry == Permutations(Questions)
=============================================================================
